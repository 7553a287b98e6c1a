----------------------------- MODULE PartsProofs ------------------------------
(***************************************************************************)
(* The small components of Parts, each for any values of its constants,    *)
(* and what follows for all of them side by side (at the end).             *)
(***************************************************************************)
EXTENDS Parts, ReferenceCacheProofs, DeptTreeProofs, RequestProofs

-----------------------------------------------------------------------------
(***************************************************************************)
(* Names (UniqueNames).  Whoever is about to write holds the lock, so what *)
(* it has counted stays true until it writes; and an import knows, of the  *)
(* rows its file still names, every one there is.                          *)
(***************************************************************************)
RowShape == [name: Given \cup {Missing}, second: Seconds \cup {Missing}]
KnownShape == UNION {[names -> NameIds] : names \in SUBSET (Given \cup {Missing})}
NamingShape == [at: {"rest", "write", "import"}, id: NameIds \cup {Missing}, row: RowShape,
                counted: BOOLEAN, file: Seq(NameRow), replace: BOOLEAN, known: KnownShape]

NamesShape ==
    /\ entity \in {"user", "role", "post"}
    /\ IsFiniteSet(Named) /\ Named \subseteq NameIds
    /\ named \in [Named -> NameRow]
    /\ nameMu \in NameWriters \cup {Missing}
    /\ naming \in [NameWriters -> NamingShape]
    /\ \A w \in NameWriters : Len(naming[w].file) <= MaxFile
    /\ unchecked \subseteq NameIds

NamesLocked == \A w \in NameWriters : naming[w].at # "rest" => nameMu = w

\* No row but excluded has a value of this one.
Alone(row, excluded) ==
    \A id \in Named \ {excluded} :
        named[id].name # row.name /\ (row.second # Missing => named[id].second # row.second)

\* What a writer has found before it writes.
WriteFound(w) ==
    naming[w].at = "write" =>
        /\ naming[w].id \in NameIds /\ naming[w].row \in NameRow
        /\ naming[w].counted => Alone(naming[w].row, naming[w].id)
        /\ entity = "user" => \A id \in Named \ {naming[w].id} : named[id].name # naming[w].row.name

\* The users of the names known are those, and none of the rest of the file is missing.
ImportKnows(w) ==
    naming[w].at = "import" =>
        /\ entity = "user"
        /\ \A name \in DOMAIN naming[w].known :
              naming[w].known[name] \in Named /\ named[naming[w].known[name]].name = name
        /\ \A id \in Named, i \in DOMAIN naming[w].file :
              named[id].name = naming[w].file[i].name => named[id].name \in DOMAIN naming[w].known

NamesInv ==
    /\ NamesShape /\ NamesLocked /\ NamesDistinct
    /\ \A w \in NameWriters : WriteFound(w) /\ ImportKnows(w)

-----------------------------------------------------------------------------
LEMMA CountNone ==
    ASSUME NEW field, NEW value, NEW excluded, IsFiniteSet(Named), Count(field, value, excluded) = 0
    PROVE  \A id \in Named \ {excluded} : named[id][field] # value
<1> DEFINE Have == {id \in Named \ {excluded} : named[id][field] = value}
<1>1. IsFiniteSet(Have)
  BY FS_Subset
<1>2. Cardinality(Have) = 0
  BY DEF Count
<1>3. Have = {}
  BY <1>1, <1>2, FS_EmptySet
<1> QED
  BY <1>3

LEMMA UniqueAlone ==
    ASSUME NamesShape, NEW row, NEW excluded, Unique(row, excluded)
    PROVE  Alone(row, excluded)
<1>1. Count("name", row.name, excluded) = 0
  BY DEF Unique, checkUserUnique, checkRoleUnique, checkPostUnique, NamesShape
<1>2. row.second # Missing => Count("second", row.second, excluded) = 0
  BY DEF Unique, checkUserUnique, checkRoleUnique, checkPostUnique, NamesShape
<1>3. \A id \in Named \ {excluded} : named[id].name # row.name
  <2>1. \A id \in Named \ {excluded} : named[id]["name"] # row.name
    BY <1>1, CountNone DEF NamesShape
  <2> QED
    BY <2>1
<1>4. row.second # Missing => \A id \in Named \ {excluded} : named[id].second # row.second
  <2>1. row.second # Missing => \A id \in Named \ {excluded} : named[id]["second"] # row.second
    BY <1>2, CountNone DEF NamesShape
  <2> QED
    BY <2>1
<1> QED
  BY <1>3, <1>4 DEF Alone

LEMMA RestingShape == Resting \in NamingShape
<1>1. [n \in {} |-> Missing] \in KnownShape
  <2>1. [n \in {} |-> Missing] \in [{} -> NameIds]
    OBVIOUS
  <2>2. {} \in SUBSET (Given \cup {Missing})
    OBVIOUS
  <2> QED
    BY <2>1, <2>2 DEF KnownShape
<1>2. [name |-> Missing, second |-> Missing] \in RowShape
  BY DEF RowShape
<1>3. <<>> \in Seq(NameRow)
  OBVIOUS
<1> HIDE DEF KnownShape, RowShape
<1> QED
  BY <1>1, <1>2, <1>3 DEF Resting, NamingShape

LEMMA NamesStart ==
    ASSUME NamesInit
    PROVE  NamesInv
<1>1. Named = {}
  BY DEF NamesInit, Named
<1>2. named \in [Named -> NameRow]
  BY <1>1 DEF NamesInit, Named
<1>3. \A w \in NameWriters : naming[w] = Resting /\ naming[w].at = "rest" /\ Len(naming[w].file) = 0
  BY DEF NamesInit, Resting
<1>4. naming \in [NameWriters -> NamingShape]
  BY RestingShape DEF NamesInit
<1>5. NamesShape
  BY <1>1, <1>2, <1>3, <1>4, FS_EmptySet, NamesAssumption DEF NamesInit, NamesShape
<1> QED
  BY <1>1, <1>3, <1>5 DEF NamesInv, NamesLocked, NamesDistinct, WriteFound, ImportKnows

-----------------------------------------------------------------------------
\* What a step of one writer needs to keep, when the others rest.
LEMMA NamesKept ==
    ASSUME NamesInv, NEW w \in NameWriters, NEW entry \in NamingShape,
           naming' = [naming EXCEPT ![w] = entry], UNCHANGED entity,
           Len(entry.file) <= MaxFile,
           nameMu \in {w, Missing}, nameMu' \in {w, Missing}, entry.at # "rest" => nameMu' = w,
           IsFiniteSet(Named'), Named' \subseteq NameIds, named' \in [Named' -> NameRow],
           unchecked' \subseteq NameIds, NamesDistinct',
           WriteFound(w)', ImportKnows(w)'
    PROVE  NamesInv'
<1>1. \A v \in NameWriters : v # w => naming'[v] = naming[v] /\ naming[v].at = "rest"
  BY NamesAssumption DEF NamesInv, NamesLocked, NamesShape
<1>2. naming'[w] = entry
  BY DEF NamesInv, NamesShape
<1>3. NamesShape'
  <2>1. naming' \in [NameWriters -> NamingShape]'
    BY DEF NamesInv, NamesShape, NamingShape, NameRow
  <2>2. NameRow' = NameRow
    BY DEF NameRow
  <2> QED
    BY <1>1, <1>2, <2>1, <2>2 DEF NamesInv, NamesShape
<1>4. NamesLocked'
  BY <1>1, <1>2 DEF NamesLocked
<1>5. \A v \in NameWriters : WriteFound(v)' /\ ImportKnows(v)'
  BY <1>1 DEF WriteFound, ImportKnows
<1> QED
  BY <1>3, <1>4, <1>5 DEF NamesInv

\* The lock is taken with what was found.
LEMMA AdmittedKept ==
    ASSUME NamesInv, NEW w \in NameWriters, NEW id \in NameIds, NEW row \in NameRow,
           NEW counted \in BOOLEAN, Admitted(w, id, row, counted),
           counted => Alone(row, id),
           entity = "user" => \A other \in Named \ {id} : named[other].name # row.name
    PROVE  NamesInv'
<1> DEFINE entry == [naming[w] EXCEPT !.at = "write", !.id = id, !.row = row, !.counted = counted]
<1>1. naming' = [naming EXCEPT ![w] = entry]
  BY DEF Admitted
<1>2. naming[w] \in NamingShape
  BY DEF NamesInv, NamesShape
<1>3. row \in RowShape
  BY DEF NameRow, RowShape
<1>4. entry \in NamingShape
  <2> HIDE DEF RowShape, NameRow, KnownShape
  <2> QED
    BY <1>2, <1>3 DEF NamingShape
<1>5. /\ entry.at = "write" /\ entry.id = id /\ entry.row = row /\ entry.file = naming[w].file
  BY <1>2 DEF NamingShape
<1>6. entry.counted = counted
  BY <1>2, Zenon DEF NamingShape
<1>7. naming'[w] = entry
  BY <1>1 DEF NamesInv, NamesShape
<1>8. UNCHANGED <<entity, named, unchecked>> /\ nameMu = Missing /\ nameMu' = w
  BY DEF Admitted
<1>9. WriteFound(w)'
  <2> HIDE DEF entry
  <2>1. naming'[w].counted => Alone(row, id)
    BY <1>6, <1>7
  <2>2. Alone(row, id)' <=> Alone(row, id)
    BY <1>8 DEF Alone, Named
  <2>3. NameRow' = NameRow
    BY <1>8 DEF NameRow
  <2> QED
    BY <1>5, <1>7, <1>8, <2>1, <2>2, <2>3 DEF WriteFound, Named
<1>10. ImportKnows(w)'
  BY <1>5, <1>7 DEF ImportKnows
<1>11. NamesDistinct'
  BY <1>8 DEF NamesInv, NamesDistinct, Named
<1>12. /\ IsFiniteSet(Named') /\ Named' \subseteq NameIds /\ named' \in [Named' -> NameRow]
       /\ unchecked' \subseteq NameIds /\ Len(entry.file) <= MaxFile
  BY <1>5, <1>8 DEF NamesInv, NamesShape, Named
<1> HIDE DEF entry
<1> QED
  BY <1>1, <1>4, <1>5, <1>8, <1>9, <1>10, <1>11, <1>12, NamesKept

LEMMA AdmissionsKeep ==
    ASSUME NamesInv, NEW w \in NameWriters,
           CreateNamed(w) \/ UpdateNamed(w) \/ Register(w) \/ UpdateProfile(w)
    PROVE  NamesInv'
<1>1. IsFiniteSet(Named) /\ Named \subseteq NameIds /\ Missing \notin Named
  BY NamesAssumption DEF NamesInv, NamesShape
<1>2. CASE CreateNamed(w)
  <2>1. PICK id \in Unborn, row \in NameRow,
             excluded \in {Missing} \cup (IF entity = "user" THEN {} ELSE Named) :
                 Unique(row, excluded) /\ Admitted(w, id, row, excluded = Missing)
    BY <1>2 DEF CreateNamed
  <2>2. Alone(row, excluded)
    BY <2>1, UniqueAlone DEF NamesInv
  <2>3. excluded = Missing => Alone(row, id)
    BY <1>1, <2>1, <2>2 DEF Alone
  <2>4. entity = "user" => \A other \in Named \ {id} : named[other].name # row.name
    BY <2>1, <2>3 DEF Alone
  <2> QED
    BY <2>1, <2>3, <2>4, AdmittedKept DEF Unborn
<1>3. CASE UpdateNamed(w)
  <2>1. PICK id \in Named, row \in NameRow : Unique(row, id) /\ Admitted(w, id, row, TRUE)
    BY <1>3 DEF UpdateNamed
  <2>2. Alone(row, id)
    BY <2>1, UniqueAlone DEF NamesInv
  <2> QED
    BY <1>1, <2>1, <2>2, AdmittedKept DEF Alone
<1>4. CASE Register(w)
  <2>1. PICK id \in Unborn, name \in Given :
            Count("name", name, Missing) = 0 /\ Admitted(w, id, [name |-> name, second |-> Missing], TRUE)
    BY <1>4 DEF Register
  <2> DEFINE row == [name |-> name, second |-> Missing]
  <2>2. row \in NameRow
    BY <1>4 DEF Register, NameRow
  <2>3. \A other \in Named : named[other].name # name
    <3>1. \A other \in Named \ {Missing} : named[other]["name"] # name
      BY <1>1, <2>1, CountNone
    <3> QED
      BY <1>1, <3>1
  <2>4. Alone(row, id)
    BY <2>3 DEF Alone
  <2>5. \A other \in Named \ {id} : named[other].name # row.name
    BY <2>3
  <2>6. Admitted(w, id, row, TRUE)
    BY <2>1
  <2> HIDE DEF row
  <2> QED
    BY <2>1, <2>2, <2>4, <2>5, <2>6, AdmittedKept DEF Unborn
<1>5. CASE UpdateProfile(w)
  <2>1. PICK id \in Named, second \in Seconds \cup {Missing} :
            /\ second # Missing => Count("second", second, id) = 0
            /\ Admitted(w, id, [named[id] EXCEPT !.second = second], TRUE)
    BY <1>5 DEF UpdateProfile
  <2> DEFINE row == [named[id] EXCEPT !.second = second]
  <2>2. entity = "user" /\ named[id] \in NameRow
    BY <1>5 DEF UpdateProfile, NamesInv, NamesShape
  <2>3. row \in NameRow /\ row.name = named[id].name /\ row.second = second
    BY <2>2 DEF NameRow
  <2>4. second # Missing => \A other \in Named \ {id} : named[other].second # second
    <3>1. second # Missing => \A other \in Named \ {id} : named[other]["second"] # second
      BY <1>1, <2>1, CountNone
    <3> QED
      BY <3>1
  <2>5. \A other \in Named \ {id} : named[other].name # row.name
    BY <2>2, <2>3 DEF NamesInv, NamesDistinct
  <2>6. Alone(row, id)
    BY <2>3, <2>4, <2>5 DEF Alone
  <2>7. Admitted(w, id, row, TRUE) /\ id \in NameIds
    BY <1>1, <2>1
  <2> HIDE DEF row
  <2> QED
    BY <2>3, <2>5, <2>6, <2>7, AdmittedKept
<1> QED
  BY <1>2, <1>3, <1>4, <1>5

LEMMA DeleteNamedKeeps ==
    ASSUME NamesInv, NEW w \in NameWriters, DeleteNamed(w)
    PROVE  NamesInv'
<1>1. PICK ids \in (SUBSET Named) \ {{}} :
          named' = [id \in Named \ ids |-> named[id]] /\ unchecked' = unchecked \ ids
  BY DEF DeleteNamed
<1>2. UNCHANGED <<entity, nameMu, naming>> /\ nameMu = Missing
  BY DEF DeleteNamed
<1>3. Named' = Named \ ids /\ \A id \in Named' : named'[id] = named[id]
  BY <1>1 DEF Named
<1>4. IsFiniteSet(Named') /\ Named' \subseteq NameIds
  BY <1>3, FS_Subset DEF NamesInv, NamesShape
<1>5. named' \in [Named' -> NameRow]
  BY <1>1, <1>3 DEF NamesInv, NamesShape
<1>6. NamesDistinct'
  BY <1>1, <1>2, <1>3 DEF NamesInv, NamesDistinct
<1>7. \A v \in NameWriters : naming'[v] = naming[v] /\ naming[v].at = "rest"
  BY <1>2, NamesAssumption DEF NamesInv, NamesLocked, NamesShape
<1>8. \A v \in NameWriters : WriteFound(v)' /\ ImportKnows(v)'
  BY <1>7 DEF WriteFound, ImportKnows
<1>9. NamesShape' /\ NamesLocked'
  BY <1>1, <1>2, <1>4, <1>5 DEF NamesInv, NamesShape, NamesLocked, NamingShape, NameRow
<1> QED
  BY <1>6, <1>8, <1>9 DEF NamesInv

\* One row comes in the place of another or of none.
LEMMA RowWritten ==
    ASSUME NamesInv, NEW id \in NameIds, NEW row \in NameRow,
           named' = [other \in Named \cup {id} |-> IF other = id THEN row ELSE named[other]]
    PROVE  /\ IsFiniteSet(Named') /\ Named' \subseteq NameIds /\ Named' = Named \cup {id}
           /\ named' \in [Named' -> NameRow]
           /\ named'[id] = row /\ \A other \in Named \ {id} : named'[other] = named[other]
<1>1. Named' = Named \cup {id}
  BY DEF Named
<1>2. IsFiniteSet(Named')
  BY <1>1, FS_AddElement DEF NamesInv, NamesShape
<1>3. named' \in [Named' -> NameRow]
  BY <1>1 DEF NamesInv, NamesShape
<1> QED
  BY <1>1, <1>2, <1>3 DEF NamesInv, NamesShape

LEMMA WriteNamedKeeps ==
    ASSUME NamesInv, NEW w \in NameWriters, WriteNamed(w)
    PROVE  NamesInv'
<1> DEFINE id == naming[w].id
           row == naming[w].row
<1>1. /\ naming[w].at = "write" /\ naming' = [naming EXCEPT ![w] = Resting] /\ UNCHANGED entity
      /\ nameMu = w /\ nameMu' = Missing
  BY DEF WriteNamed, NamesInv, NamesLocked
<1>2. Resting.at = "rest" /\ Resting.file = <<>> /\ Len(Resting.file) <= MaxFile
  BY NamesAssumption DEF Resting
<1>3. WriteFound(w)' /\ ImportKnows(w)'
  BY <1>1, <1>2 DEF WriteFound, ImportKnows, NamesInv, NamesShape
<1>4. WriteFound(w)
  BY DEF NamesInv
<1>5. CASE UNCHANGED <<named, unchecked>>
  <2>1. NamesDistinct'
    BY <1>1, <1>5 DEF NamesInv, NamesDistinct, Named
  <2>2. /\ IsFiniteSet(Named') /\ Named' \subseteq NameIds /\ named' \in [Named' -> NameRow]
        /\ unchecked' \subseteq NameIds
    BY <1>5 DEF NamesInv, NamesShape, Named
  <2> QED
    BY <1>1, <1>2, <1>3, <2>1, <2>2, RestingShape, NamesKept
<1>6. CASE /\ named' = [other \in Named \cup {id} |-> IF other = id THEN row ELSE named[other]]
           /\ unchecked' = IF naming[w].counted THEN unchecked \ {id} ELSE unchecked \cup {id}
  <2>1. id \in NameIds /\ row \in NameRow
    BY <1>1, <1>4 DEF WriteFound
  <2>2. /\ IsFiniteSet(Named') /\ Named' \subseteq NameIds /\ Named' = Named \cup {id}
        /\ named' \in [Named' -> NameRow]
        /\ named'[id] = row /\ \A other \in Named \ {id} : named'[other] = named[other]
    <3> HIDE DEF id, row
    <3> QED
      BY <1>6, <2>1, RowWritten
  <2>3. CASE naming[w].counted
    <3>1. Alone(row, id) /\ unchecked' = unchecked \ {id}
      BY <1>1, <1>4, <1>6, <2>3 DEF WriteFound
    <3>2. NamesDistinct'
      <4> HIDE DEF id, row
      <4> QED
        BY <1>1, <2>2, <3>1 DEF NamesInv, NamesDistinct, Alone
    <3>3. unchecked' \subseteq NameIds
      BY <3>1 DEF NamesInv, NamesShape
    <3> QED
      BY <1>1, <1>2, <1>3, <2>2, <3>2, <3>3, RestingShape, NamesKept
  <2>4. CASE ~ naming[w].counted
    <3>1. unchecked' = unchecked \cup {id}
      BY <1>6, <2>4
    <3>2. entity = "user" => \A other \in Named \ {id} : named[other].name # row.name
      BY <1>1, <1>4 DEF WriteFound
    <3>3. NamesDistinct'
      <4> HIDE DEF id, row
      <4> QED
        BY <1>1, <2>2, <3>1, <3>2 DEF NamesInv, NamesDistinct
    <3>4. unchecked' \subseteq NameIds
      BY <2>1, <3>1 DEF NamesInv, NamesShape
    <3> QED
      BY <1>1, <1>2, <1>3, <2>2, <3>3, <3>4, RestingShape, NamesKept
  <2> QED
    BY <2>3, <2>4
<1> QED
  BY <1>5, <1>6 DEF WriteNamed

-----------------------------------------------------------------------------
LEMMA ImportBegins ==
    ASSUME NamesInv, NEW w \in NameWriters, ImportUsers(w)
    PROVE  NamesInv'
<1>1. PICK file \in UNION {[1..n -> NameRow] : n \in 1..MaxFile}, replace \in BOOLEAN :
          LET known == {id \in Named : \E i \in DOMAIN file : file[i].name = named[id].name}
          IN naming' = [naming EXCEPT ![w] =
               [@ EXCEPT !.at = "import", !.file = file, !.replace = replace,
                         !.known = [n \in {named[id].name : id \in known} |->
                                        CHOOSE id \in known : named[id].name = n]]]
  BY DEF ImportUsers
<1> DEFINE known == {id \in Named : \E i \in DOMAIN file : file[i].name = named[id].name}
           names == {named[id].name : id \in known}
           ids == [n \in names |-> CHOOSE id \in known : named[id].name = n]
           entry == [naming[w] EXCEPT !.at = "import", !.file = file, !.replace = replace, !.known = ids]
<1>2. naming' = [naming EXCEPT ![w] = entry]
  BY <1>1
<1>3. PICK n \in 1..MaxFile : file \in [1..n -> NameRow]
  OBVIOUS
<1>4. file \in Seq(NameRow) /\ Len(file) = n /\ DOMAIN file = 1..n /\ n <= MaxFile
  BY <1>3, NamesAssumption
<1>5. \A name \in names : ids[name] \in known /\ named[ids[name]].name = name
  OBVIOUS
<1>6. ids \in KnownShape
  <2>1. names \in SUBSET (Given \cup {Missing})
    BY DEF NamesInv, NamesShape, NameRow
  <2>2. ids \in [names -> NameIds]
    BY <1>5 DEF NamesInv, NamesShape
  <2> HIDE DEF ids, names
  <2> QED
    BY <2>1, <2>2 DEF KnownShape
<1>7. naming[w] \in NamingShape
  BY DEF NamesInv, NamesShape
<1> HIDE DEF ids
<1>8. entry \in NamingShape
  <2> HIDE DEF RowShape, NameRow, KnownShape
  <2> QED
    BY <1>4, <1>6, <1>7 DEF NamingShape
<1>9. entry.at = "import" /\ entry.file = file /\ entry.known = ids
  BY <1>7 DEF NamingShape
<1> HIDE DEF entry
<1>10. naming'[w] = entry
  BY <1>2 DEF NamesInv, NamesShape
<1>11. UNCHANGED <<entity, named, unchecked>> /\ nameMu = Missing /\ nameMu' = w /\ entity = "user"
  BY DEF ImportUsers
<1>12. ImportKnows(w)'
  <2>1. DOMAIN ids = names
    BY DEF ids
  <2>2. \A name \in DOMAIN ids : ids[name] \in Named /\ named[ids[name]].name = name
    BY <1>5, <2>1 DEF ids
  <2>3. \A id \in Named, i \in DOMAIN file :
            named[id].name = file[i].name => named[id].name \in names
    OBVIOUS
  <2> HIDE DEF names
  <2> QED
    BY <1>9, <1>10, <1>11, <2>1, <2>2, <2>3 DEF ImportKnows, Named
<1>13. WriteFound(w)'
  BY <1>9, <1>10 DEF WriteFound
<1>14. NamesDistinct'
  BY <1>11 DEF NamesInv, NamesDistinct, Named
<1>15. /\ IsFiniteSet(Named') /\ Named' \subseteq NameIds /\ named' \in [Named' -> NameRow]
       /\ unchecked' \subseteq NameIds /\ Len(entry.file) <= MaxFile
  BY <1>4, <1>9, <1>11 DEF NamesInv, NamesShape, Named
<1> QED
  BY <1>2, <1>8, <1>9, <1>11, <1>12, <1>13, <1>14, <1>15, NamesKept

\* A row of the file is passed over, or written under an id that keeps its name
\* or is new with a name that nobody has.
LEMMA ImportGoesOn ==
    ASSUME NamesInv, NEW w \in NameWriters, importOneUser(w)
    PROVE  NamesInv'
<1> DEFINE row == Head(naming[w].file)
           known == naming[w].known
           rest == [naming[w] EXCEPT !.file = Tail(@)]
<1>1. /\ naming[w].at = "import" /\ naming[w].file # <<>> /\ UNCHANGED <<entity, nameMu>>
      /\ naming[w] \in NamingShape /\ nameMu = w /\ entity = "user" /\ ImportKnows(w)
  BY DEF importOneUser, NamesInv, NamesShape, NamesLocked, ImportKnows
<1>2. /\ naming[w].file \in Seq(NameRow) /\ Len(naming[w].file) <= MaxFile
      /\ known \in KnownShape
  BY <1>1 DEF NamesInv, NamesShape, NamingShape
<1>3. /\ row \in NameRow /\ Tail(naming[w].file) \in Seq(NameRow)
      /\ Len(Tail(naming[w].file)) <= MaxFile
      /\ \A i \in DOMAIN Tail(naming[w].file) :
            i + 1 \in DOMAIN naming[w].file /\ Tail(naming[w].file)[i] = naming[w].file[i + 1]
      /\ 1 \in DOMAIN naming[w].file /\ row = naming[w].file[1]
  <2> HIDE DEF NameRow
  <2>1. Len(naming[w].file) \in Nat /\ Len(naming[w].file) > 0
    BY <1>1, <1>2
  <2> QED
    BY <1>1, <1>2, <2>1, NamesAssumption
<1>4. rest \in NamingShape /\ rest.at = "import" /\ rest.file = Tail(naming[w].file) /\ rest.known = known
  <2> HIDE DEF RowShape, NameRow, KnownShape
  <2> QED
    BY <1>1, <1>3 DEF NamingShape
<1> HIDE DEF rest
<1>5. CASE naming' = [naming EXCEPT ![w] = rest] /\ UNCHANGED <<named, unchecked>>
  <2>1. naming'[w] = rest
    BY <1>5 DEF NamesInv, NamesShape
  <2>2. \A id \in Named, i \in DOMAIN rest.file :
            named[id].name = rest.file[i].name => named[id].name \in DOMAIN known
    <3>1. \A id \in Named, i \in DOMAIN naming[w].file :
              named[id].name = naming[w].file[i].name => named[id].name \in DOMAIN known
      BY <1>1 DEF ImportKnows
    <3> SUFFICES ASSUME NEW id \in Named, NEW i \in DOMAIN rest.file, named[id].name = rest.file[i].name
                 PROVE  named[id].name \in DOMAIN known
      OBVIOUS
    <3>2. i + 1 \in DOMAIN naming[w].file /\ rest.file[i] = naming[w].file[i + 1]
      BY <1>3, <1>4
    <3> HIDE DEF known
    <3> QED
      BY <3>1, <3>2
  <2>3. ImportKnows(w)' /\ WriteFound(w)'
    BY <1>1, <1>4, <1>5, <2>1, <2>2 DEF ImportKnows, WriteFound, Named
  <2>4. NamesDistinct'
    BY <1>1, <1>5 DEF NamesInv, NamesDistinct, Named
  <2>5. /\ IsFiniteSet(Named') /\ Named' \subseteq NameIds /\ named' \in [Named' -> NameRow]
        /\ unchecked' \subseteq NameIds /\ Len(rest.file) <= MaxFile
    BY <1>3, <1>4, <1>5 DEF NamesInv, NamesShape, Named
  <2> QED
    BY <1>1, <1>4, <1>5, <2>3, <2>4, <2>5, NamesKept
<1>6. ASSUME NEW id \in NameIds,
             named' = [other \in Named \cup {id} |-> IF other = id THEN row ELSE named[other]],
             unchecked' = unchecked \cup {id},
             naming' = [naming EXCEPT ![w] = [rest EXCEPT !.known = Remember(known, row.name, id)]],
             \/ id \notin Named /\ row.name \notin DOMAIN known
             \/ row.name \in DOMAIN known /\ id = known[row.name]
      PROVE  NamesInv'
  <2> DEFINE entry == [rest EXCEPT !.known = Remember(known, row.name, id)]
  <2>1. /\ IsFiniteSet(Named') /\ Named' \subseteq NameIds /\ Named' = Named \cup {id}
        /\ named' \in [Named' -> NameRow]
        /\ named'[id] = row /\ \A other \in Named \ {id} : named'[other] = named[other]
    <3> HIDE DEF row
    <3> QED
      BY <1>3, <1>6, RowWritten
  <2>2. \A other \in Named \ {id} : named[other].name # row.name
    <3> SUFFICES ASSUME NEW other \in Named \ {id}, named[other].name = row.name
                 PROVE  FALSE
      OBVIOUS
    <3>1. row.name \in DOMAIN known
      BY <1>1, <1>3 DEF ImportKnows
    <3>2. id \in Named /\ named[id].name = row.name
      BY <1>1, <1>6, <3>1 DEF ImportKnows
    <3> QED
      BY <1>1, <3>2 DEF NamesInv, NamesDistinct
  <2>3. NamesDistinct'
    <3> HIDE DEF row
    <3> QED
      BY <1>1, <1>6, <2>1, <2>2 DEF NamesInv, NamesDistinct
  <2>4. Remember(known, row.name, id) \in KnownShape
    <3>1. PICK names \in SUBSET (Given \cup {Missing}) : known \in [names -> NameIds]
      BY <1>2 DEF KnownShape
    <3>2. Remember(known, row.name, id) \in [names \cup {row.name} -> NameIds]
      BY <3>1 DEF Remember
    <3>3. names \cup {row.name} \in SUBSET (Given \cup {Missing})
      BY <1>3, <3>1 DEF NameRow
    <3> QED
      BY <3>2, <3>3 DEF KnownShape
  <2>5. /\ entry \in NamingShape /\ entry.at = "import" /\ entry.file = rest.file
        /\ entry.known = Remember(known, row.name, id)
    <3> HIDE DEF RowShape, NameRow, KnownShape, row
    <3> QED
      BY <1>4, <2>4 DEF NamingShape
  <2>6. naming' = [naming EXCEPT ![w] = entry]
    BY <1>6
  <2> HIDE DEF entry
  <2>7. naming'[w] = entry
    BY <2>6 DEF NamesInv, NamesShape
  <2>8. DOMAIN entry.known = DOMAIN known \cup {row.name}
    BY <2>5 DEF Remember
  <2>9. \A name \in DOMAIN entry.known :
            entry.known[name] \in Named' /\ named'[entry.known[name]].name = name
    <3> SUFFICES ASSUME NEW name \in DOMAIN entry.known
                 PROVE  entry.known[name] \in Named' /\ named'[entry.known[name]].name = name
      OBVIOUS
    <3>1. CASE name = row.name
      <4>1. entry.known[name] = id
        BY <2>5, <2>8, <3>1 DEF Remember
      <4> QED
        BY <2>1, <3>1, <4>1
    <3>2. CASE name # row.name
      <4>1. name \in DOMAIN known /\ entry.known[name] = known[name]
        BY <2>5, <2>8, <3>2 DEF Remember
      <4>2. known[name] \in Named /\ named[known[name]].name = name
        BY <1>1, <4>1 DEF ImportKnows
      <4>3. known[name] # id
        BY <1>1, <1>6, <3>2, <4>2 DEF ImportKnows
      <4> QED
        BY <2>1, <4>1, <4>2, <4>3
    <3> QED
      BY <3>1, <3>2
  <2>10. \A other \in Named', i \in DOMAIN entry.file :
            named'[other].name = entry.file[i].name => named'[other].name \in DOMAIN entry.known
    <3> SUFFICES ASSUME NEW other \in Named', NEW i \in DOMAIN entry.file,
                        named'[other].name = entry.file[i].name, other # id
                 PROVE  named'[other].name \in DOMAIN known
      BY <2>1, <2>8
    <3> QED
      BY <1>1, <1>3, <1>4, <2>1, <2>5 DEF ImportKnows
  <2>11. ImportKnows(w)' /\ WriteFound(w)'
    BY <1>1, <2>5, <2>7, <2>9, <2>10 DEF ImportKnows, WriteFound
  <2>12. unchecked' \subseteq NameIds /\ Len(entry.file) <= MaxFile
    BY <1>3, <1>4, <1>6, <2>5 DEF NamesInv, NamesShape
  <2> QED
    BY <1>1, <2>1, <2>3, <2>5, <2>6, <2>11, <2>12, NamesKept
<1>7. CASE row.name \notin DOMAIN known /\ \E id \in Unborn :
             /\ named' = [other \in Named \cup {id} |-> IF other = id THEN row ELSE named[other]]
             /\ unchecked' = unchecked \cup {id}
             /\ naming' = [naming EXCEPT ![w] = [rest EXCEPT !.known = Remember(known, row.name, id)]]
  <2> HIDE DEF row, known
  <2> QED
    BY <1>6, <1>7 DEF Unborn
<1>8. CASE /\ row.name \in DOMAIN known
           /\ named' = [other \in Named \cup {known[row.name]} |->
                            IF other = known[row.name] THEN row ELSE named[other]]
           /\ unchecked' = unchecked \cup {known[row.name]}
           /\ naming' = [naming EXCEPT ![w] =
                            [rest EXCEPT !.known = Remember(known, row.name, known[row.name])]]
  <2>1. known[row.name] \in NameIds
    BY <1>1, <1>8 DEF ImportKnows, NamesInv, NamesShape
  <2> HIDE DEF row, known
  <2> QED
    BY <1>6, <1>8, <2>1
<1> QED
  BY <1>5, <1>7, <1>8 DEF importOneUser, rest

LEMMA ImportEnds ==
    ASSUME NamesInv, NEW w \in NameWriters, EndImport(w)
    PROVE  NamesInv'
<1>1. /\ naming[w].at = "import" /\ naming' = [naming EXCEPT ![w] = Resting]
      /\ UNCHANGED <<entity, named, unchecked>> /\ nameMu = w /\ nameMu' = Missing
  BY DEF EndImport, NamesInv, NamesLocked
<1>2. Resting.at = "rest" /\ Resting.file = <<>> /\ Len(Resting.file) <= MaxFile
  BY NamesAssumption DEF Resting
<1>3. WriteFound(w)' /\ ImportKnows(w)'
  BY <1>1, <1>2 DEF WriteFound, ImportKnows, NamesInv, NamesShape
<1>4. NamesDistinct'
  BY <1>1 DEF NamesInv, NamesDistinct, Named
<1>5. /\ IsFiniteSet(Named') /\ Named' \subseteq NameIds /\ named' \in [Named' -> NameRow]
      /\ unchecked' \subseteq NameIds
  BY <1>1 DEF NamesInv, NamesShape, Named
<1> QED
  BY <1>1, <1>2, <1>3, <1>4, <1>5, RestingShape, NamesKept

LEMMA NamesStutter ==
    ASSUME NamesInv, UNCHANGED nameVars
    PROVE  NamesInv'
<1>1. UNCHANGED <<entity, named, nameMu, naming, unchecked>> /\ Named' = Named
  BY DEF nameVars, Named
<1>2. NameRow' = NameRow /\ NamingShape' = NamingShape
  BY <1>1 DEF NameRow, NamingShape
<1>3. NamesShape'
  BY <1>1, <1>2 DEF NamesInv, NamesShape
<1>4. NamesLocked' /\ NamesDistinct'
  BY <1>1 DEF NamesInv, NamesLocked, NamesDistinct
<1>5. \A w \in NameWriters : WriteFound(w)'
  <2>1. \A row, excluded : Alone(row, excluded)' = Alone(row, excluded)
    BY <1>1 DEF Alone
  <2> QED
    BY <1>1, <1>2, <2>1 DEF NamesInv, WriteFound
<1>6. \A w \in NameWriters : ImportKnows(w)'
  BY <1>1 DEF NamesInv, ImportKnows
<1> QED
  BY <1>3, <1>4, <1>5, <1>6 DEF NamesInv

\* The invariant the two theorems rest on.
LEMMA NamesInvAlways == NamesSpec => []NamesInv
<1>1. NamesInv /\ [NamesNext]_nameVars => NamesInv'
  BY NamesStutter, AdmissionsKeep, DeleteNamedKeeps, WriteNamedKeeps, ImportBegins, ImportGoesOn,
     ImportEnds DEF NamesNext
<1> QED
  BY NamesStart, <1>1, PTL DEF NamesSpec

\* Rows are rows of their table, and whoever writes holds what it writes.
THEOREM NamesTypeCorrect == NamesSpec => []NamesTypeOK
<1>1. NamesInv => NamesTypeOK
  BY DEF NamesInv, NamesShape, NamesTypeOK, NamingShape
<1> QED
  BY NamesInvAlways, <1>1, PTL

\* However creations, edits, registrations, imports and changes of a profile
\* interleave (user.go, role.go, post.go, profile.go, register.go, user_import.go),
\* no name is taken twice but by a row that was not compared with all others.
THEOREM NamesAlwaysDistinct == NamesSpec => []NamesDistinct
<1>1. NamesInv => NamesDistinct
  BY DEF NamesInv
<1> QED
  BY NamesInvAlways, <1>1, PTL

-----------------------------------------------------------------------------
(***************************************************************************)
(* Uploads (UserFiles).  A file is in one role at a time: pending for a    *)
(* row, of a row, old, part of a batch, or handed to a client.  What a     *)
(* request removes is in no other role, unless a commit went unheard.      *)
(***************************************************************************)
UploadShape == [at: {"rest", "update", "replace", "refresh", "reconcile", "batch", "rollback"},
                owner: Owners \cup {NoFile}, new: Uploaded \cup {NoFile},
                old: Uploaded \cup {NoFile, External}, persisted: BOOLEAN, left: Nat,
                saved: SUBSET Uploaded]

Avatars == {avatar[u] : u \in Owners}
UploadPending(r) == upload[r].at \in {"update", "replace"}
\* The row was changed, as far as the request knows.
Persisted(r) == upload[r].persisted = TRUE

UploadsShape ==
    /\ avatar \in [Owners -> Uploaded \cup {NoFile, External}]
    /\ gone \subseteq Owners
    /\ stored \subseteq Uploaded /\ handed \subseteq Uploaded
    /\ lost \subseteq Uploaded /\ unheard \subseteq Uploaded
    /\ avatarMu \in Uploads \cup {NoFile}
    /\ upload \in [Uploads -> UploadShape]

\* Which fields a request uses when.
StageFields(r) ==
    /\ UploadPending(r) \/ upload[r].at \in {"refresh", "reconcile"} <=> upload[r].new \in Uploaded
    /\ UploadPending(r) \/ upload[r].at \in {"refresh", "reconcile"} => upload[r].owner \in Owners
    /\ Persisted(r) => upload[r].at \in {"refresh", "reconcile"}
    /\ ~ Persisted(r) => upload[r].old = NoFile /\ upload[r].at # "refresh"
    /\ upload[r].saved # {} => upload[r].at \in {"batch", "rollback"}

AvatarsApart == \A u, v \in Owners : avatar[u] = avatar[v] /\ avatar[u] \in Uploaded => u = v

SavedApart(r) ==
    \A f \in upload[r].saved :
        /\ f \in stored /\ f \notin Avatars /\ f \notin handed
        /\ \A s \in Uploads : f # upload[s].new /\ f # upload[s].old
        /\ \A s \in Uploads : s # r => f \notin upload[s].saved

HandedApart == \A f \in handed :
    f \notin Avatars /\ \A r \in Uploads : f # upload[r].new /\ f # upload[r].old

RequestsApart(r) == \A s \in Uploads : r # s =>
    /\ upload[r].new = upload[s].new => upload[r].new \notin Uploaded
    /\ upload[r].old = upload[s].old => upload[r].old \notin Uploaded

NewApart(r) == upload[r].new \notin Avatars /\ \A s \in Uploads : upload[r].new # upload[s].old

\* A new file: nobody's yet, or taken back unless the row has it unheard, or
\* the row's until the next request has replaced it.
NewKnown(r) ==
    /\ UploadPending(r) => upload[r].new \in stored /\ NewApart(r)
    /\ upload[r].at = "reconcile" /\ ~ Persisted(r) => upload[r].new \in unheard \/ NewApart(r)
    /\ Persisted(r) /\ upload[r].new \in stored =>
          \/ upload[r].new \in Avatars \cup lost \cup unheard
          \/ \E s \in Uploads : s # r /\ upload[r].new = upload[s].old

OldApart(r) == upload[r].old \in Uploaded =>
    upload[r].old \in stored \cup unheard /\ upload[r].old \notin Avatars

UploadsInv ==
    /\ UploadsShape /\ FilesAccounted /\ AvatarsApart /\ HandedApart
    /\ \A r \in Uploads : StageFields(r) /\ SavedApart(r) /\ RequestsApart(r) /\ NewKnown(r) /\ OldApart(r)

-----------------------------------------------------------------------------
LEMMA NoUploadFields ==
    /\ NoUpload \in UploadShape /\ NoUpload.at = "rest" /\ NoUpload.new = NoFile /\ NoUpload.old = NoFile
    /\ NoUpload.owner = NoFile /\ NoUpload.saved = {} /\ NoUpload.persisted = FALSE
BY DEF NoUpload, UploadShape

LEMMA UploadsStart ==
    ASSUME UserFilesInit
    PROVE  UploadsInv
<1>1. \A r \in Uploads : upload[r] = NoUpload
  BY DEF UserFilesInit
<1>2. UploadsShape
  BY NoUploadFields, <1>1 DEF UserFilesInit, UploadsShape
<1>3. \A u \in Owners : avatar[u] \notin Uploaded
  BY UserFilesAssumption DEF UserFilesInit
<1>4. FilesAccounted /\ AvatarsApart /\ HandedApart
  BY <1>3 DEF UserFilesInit, FilesAccounted, AvatarsApart, HandedApart
<1>5. ASSUME NEW r \in Uploads
      PROVE  StageFields(r) /\ SavedApart(r) /\ RequestsApart(r) /\ NewKnown(r) /\ OldApart(r)
  BY <1>1, NoUploadFields, UserFilesAssumption
     DEF StageFields, SavedApart, RequestsApart, NewKnown, OldApart, UploadPending, Persisted
<1> QED
  BY <1>2, <1>4, <1>5 DEF UploadsInv

\* The record of one request changes.
LEMMA UploadSet ==
    ASSUME UploadsShape, NEW r \in Uploads, NEW entry \in UploadShape, SetUpload(r, entry)
    PROVE  /\ upload' \in [Uploads -> UploadShape] /\ upload'[r] = entry
           /\ \A s \in Uploads : s # r => upload'[s] = upload[s]
BY DEF UploadsShape, SetUpload

LEMMA FreshApart ==
    ASSUME UploadsInv, NEW f \in Fresh
    PROVE  /\ f \in Uploaded /\ f \notin stored /\ f \notin Avatars /\ f \notin handed
           /\ f \notin lost /\ f \notin unheard
           /\ \A r \in Uploads : f # upload[r].new /\ f # upload[r].old /\ f \notin upload[r].saved
<1>1. /\ f \in Uploaded /\ f \notin stored /\ f \notin Avatars /\ f \notin handed
      /\ f \notin lost /\ f \notin unheard /\ f \notin Busy
  BY DEF Fresh, Avatars
<1>2. \A r \in Uploads : f # upload[r].new /\ f \notin upload[r].saved
  BY <1>1 DEF Busy
<1>3. \A r \in Uploads : f # upload[r].old
  BY <1>1 DEF UploadsInv, OldApart
<1> QED
  BY <1>1, <1>2, <1>3

LEMMA SaveAvatarKeeps ==
    ASSUME UploadsInv, NEW r \in Uploads, SaveAvatar(r)
    PROVE  UploadsInv'
<1>1. PICK u \in Owners, f \in Fresh :
         \/ stored' = stored \cup {f} /\ lost' = lost
              /\ SetUpload(r, [NoUpload EXCEPT !.at = "update", !.owner = u, !.new = f])
         \/ stored' = stored \cup {f} /\ lost' = lost \cup {f} /\ UNCHANGED upload
  BY DEF SaveAvatar
<1>2. upload[r] = NoUpload /\ UNCHANGED <<avatar, gone, avatarMu, handed, unheard>> /\ Avatars' = Avatars
  BY DEF SaveAvatar, Avatars
<1>3. /\ f \in Uploaded /\ f \notin stored /\ f \notin Avatars /\ f \notin handed
      /\ f \notin lost /\ f \notin unheard
      /\ \A s \in Uploads : f # upload[s].new /\ f # upload[s].old /\ f \notin upload[s].saved
  BY FreshApart
<1>4. CASE lost' = lost \cup {f} /\ UNCHANGED upload /\ stored' = stored \cup {f}
  <2>1. UploadsShape'
    BY <1>2, <1>3, <1>4 DEF UploadsInv, UploadsShape
  <2>2. FilesAccounted' /\ AvatarsApart' /\ HandedApart'
    BY <1>2, <1>3, <1>4 DEF UploadsInv, FilesAccounted, AvatarsApart, HandedApart, Avatars, Busy
  <2>3. ASSUME NEW s \in Uploads
        PROVE  (StageFields(s) /\ SavedApart(s) /\ RequestsApart(s) /\ NewKnown(s) /\ OldApart(s))'
    BY <1>2, <1>3, <1>4 DEF UploadsInv, StageFields, SavedApart, RequestsApart, NewKnown, NewApart, OldApart, UploadPending, Persisted
  <2> QED
    BY <2>1, <2>2, <2>3 DEF UploadsInv
<1>5. CASE /\ stored' = stored \cup {f} /\ lost' = lost
           /\ SetUpload(r, [NoUpload EXCEPT !.at = "update", !.owner = u, !.new = f])
  <2> DEFINE entry == [NoUpload EXCEPT !.at = "update", !.owner = u, !.new = f]
  <2>1. /\ entry \in UploadShape /\ entry.at = "update" /\ entry.owner = u /\ entry.new = f
        /\ entry.old = NoFile /\ entry.saved = {}
    BY NoUploadFields, <1>3 DEF UploadShape
  <2>2. entry.persisted = FALSE
    BY NoUploadFields, Zenon DEF NoUpload
  <2> HIDE DEF entry
  <2>3. /\ upload' \in [Uploads -> UploadShape] /\ upload'[r] = entry
        /\ \A s \in Uploads : s # r => upload'[s] = upload[s]
    BY <1>5, <2>1, UploadSet DEF UploadsInv, entry
  <2>4. UploadsShape'
    BY <1>2, <1>3, <1>5, <2>3 DEF UploadsInv, UploadsShape
  <2>5. FilesAccounted'
    BY <1>2, <1>3, <1>5, <2>1, <2>3, NoUploadFields DEF UploadsInv, FilesAccounted, Busy
  <2>6. AvatarsApart' /\ HandedApart'
    BY <1>2, <1>3, <1>5, <2>1, <2>2, <2>3, NoUploadFields, UserFilesAssumption DEF UploadsInv, AvatarsApart, HandedApart, UploadsShape
  <2>7. ASSUME NEW s \in Uploads
        PROVE  (StageFields(s) /\ SavedApart(s))'
    BY <1>2, <1>3, <1>5, <2>1, <2>2, <2>3, NoUploadFields, UserFilesAssumption DEF UploadsInv, StageFields, SavedApart, UploadPending, Persisted
  <2>8. ASSUME NEW s \in Uploads
        PROVE  (RequestsApart(s) /\ NewKnown(s) /\ OldApart(s))'
    BY <1>2, <1>3, <1>5, <2>1, <2>2, <2>3, NoUploadFields, UserFilesAssumption DEF UploadsInv, RequestsApart, NewKnown, NewApart, OldApart, UploadPending, Persisted
  <2> QED
    BY <2>4, <2>5, <2>6, <2>7, <2>8 DEF UploadsInv
<1> QED
  BY <1>1, <1>4, <1>5

\* The stage of a request changes, and nothing else.
LEMMA StageKeeps ==
    ASSUME UploadsInv, NEW r \in Uploads, NEW stage, NEW entry \in UploadShape,
           SetUpload(r, entry), UNCHANGED <<avatar, gone, stored, handed, lost, unheard>>,
           avatarMu' \in Uploads \cup {NoFile},
           entry.at = stage, entry.owner = upload[r].owner, entry.new = upload[r].new,
           entry.old = upload[r].old, entry.saved = upload[r].saved,
           entry.persisted = upload[r].persisted,
           \/ upload[r].at = "update" /\ stage = "replace"
           \/ upload[r].at = "refresh" /\ stage = "reconcile"
           \/ upload[r].at = "rest" /\ stage = "batch"
           \/ upload[r].at = "batch" /\ stage = "rollback"
           \/ upload[r].at = "replace" /\ stage = "reconcile"
    PROVE  UploadsInv'
<1>1. /\ upload' \in [Uploads -> UploadShape] /\ upload'[r] = entry
      /\ \A s \in Uploads : s # r => upload'[s] = upload[s]
  BY UploadSet DEF UploadsInv
<1>2. /\ \A s \in Uploads : upload'[s].new = upload[s].new /\ upload'[s].old = upload[s].old
      /\ \A s \in Uploads : upload'[s].saved = upload[s].saved /\ upload'[s].owner = upload[s].owner
      /\ \A s \in Uploads : Persisted(s)' <=> Persisted(s)
      /\ Avatars' = Avatars
  BY <1>1 DEF Persisted, Avatars
<1>3. UploadsShape'
  BY <1>1 DEF UploadsInv, UploadsShape
<1>4. FilesAccounted'
  <2>1. Busy' = Busy /\ {upload[s].old : s \in Uploads}' = {upload[s].old : s \in Uploads}
    BY <1>2 DEF Busy
  <2> QED
    BY <2>1 DEF UploadsInv, FilesAccounted
<1>5. AvatarsApart' /\ HandedApart'
  BY <1>2 DEF UploadsInv, AvatarsApart, HandedApart
<1>6. ASSUME NEW s \in Uploads
      PROVE  (StageFields(s) /\ SavedApart(s) /\ RequestsApart(s) /\ OldApart(s))'
  BY <1>1, <1>2 DEF UploadsInv, StageFields, SavedApart, RequestsApart, OldApart, UploadPending
<1>7. ASSUME NEW s \in Uploads
      PROVE  NewKnown(s)'
  <2>1. NewApart(s)' <=> NewApart(s)
    BY <1>2 DEF NewApart
  <2> QED
    BY <1>1, <1>2, <2>1 DEF UploadsInv, NewKnown, UploadPending, StageFields
<1> QED
  BY <1>3, <1>4, <1>5, <1>6, <1>7 DEF UploadsInv

LEMMA StagesKeep ==
    ASSUME UploadsInv, NEW r \in Uploads, LockAvatar(r) \/ UpdateAvatar(r) \/ StartBatch(r)
    PROVE  UploadsInv'
<1>1. upload[r] \in UploadShape
  BY DEF UploadsInv, UploadsShape
<1>2. ASSUME LockAvatar(r) PROVE UploadsInv'
  <2> DEFINE entry == [upload[r] EXCEPT !.at = "replace"]
  <2>1. /\ entry \in UploadShape /\ entry.at = "replace" /\ entry.owner = upload[r].owner
        /\ entry.new = upload[r].new /\ entry.old = upload[r].old /\ entry.saved = upload[r].saved
    BY <1>1 DEF UploadShape
  <2>2. entry.persisted = upload[r].persisted
    BY <1>1, Zenon DEF UploadShape
  <2>3. /\ upload[r].at = "update" /\ SetUpload(r, entry) /\ avatarMu' = r
        /\ UNCHANGED <<avatar, gone, stored, handed, lost, unheard>>
    BY <1>2 DEF LockAvatar
  <2> HIDE DEF entry
  <2> QED
    BY <2>1, <2>2, <2>3, StageKeeps
<1>3. ASSUME UpdateAvatar(r) PROVE UploadsInv'
  <2> DEFINE entry == [upload[r] EXCEPT !.at = "reconcile"]
  <2>1. /\ entry \in UploadShape /\ entry.at = "reconcile" /\ entry.owner = upload[r].owner
        /\ entry.new = upload[r].new /\ entry.old = upload[r].old /\ entry.saved = upload[r].saved
    BY <1>1 DEF UploadShape
  <2>2. entry.persisted = upload[r].persisted
    BY <1>1, Zenon DEF UploadShape
  <2>3. /\ upload[r].at = "refresh" /\ SetUpload(r, entry) /\ avatarMu' = NoFile
        /\ UNCHANGED <<avatar, gone, stored, handed, lost, unheard>>
    BY <1>3 DEF UpdateAvatar
  <2> HIDE DEF entry
  <2> QED
    BY <2>1, <2>2, <2>3, StageKeeps
<1>4. ASSUME StartBatch(r) PROVE UploadsInv'
  <2>1. PICK n \in BatchSizes : SetUpload(r, [NoUpload EXCEPT !.at = "batch", !.left = n])
    BY <1>4 DEF StartBatch
  <2> DEFINE entry == [NoUpload EXCEPT !.at = "batch", !.left = n]
  <2>2. /\ entry \in UploadShape /\ entry.at = "batch" /\ entry.owner = NoUpload.owner
        /\ entry.new = NoUpload.new /\ entry.old = NoUpload.old /\ entry.saved = NoUpload.saved
    BY NoUploadFields, UserFilesAssumption DEF UploadShape
  <2>3. entry.persisted = NoUpload.persisted
    BY NoUploadFields, Zenon DEF NoUpload
  <2>4. /\ upload[r] = NoUpload /\ SetUpload(r, entry)
        /\ UNCHANGED <<avatar, gone, stored, avatarMu, handed, lost, unheard>>
    BY <1>4, <2>1 DEF StartBatch
  <2>5. avatarMu' \in Uploads \cup {NoFile}
    BY <2>4 DEF UploadsInv, UploadsShape
  <2> HIDE DEF entry
  <2> QED
    BY <2>2, <2>3, <2>4, <2>5, NoUploadFields, StageKeeps
<1> QED
  BY <1>2, <1>3, <1>4

LEMMA ReplaceKeeps ==
    ASSUME UploadsInv, NEW r \in Uploads, ReplaceUserAvatar(r)
    PROVE  UploadsInv'
<1> DEFINE u == upload[r].owner
           reconcile == [upload[r] EXCEPT !.at = "reconcile"]
<1>1. /\ upload[r] \in UploadShape /\ upload[r].at = "replace" /\ u \in Owners
      /\ upload[r].new \in Uploaded /\ upload[r].old = NoFile /\ upload[r].saved = {}
      /\ ~ Persisted(r) /\ UNCHANGED <<gone, stored, handed, lost>>
  BY DEF ReplaceUserAvatar, UploadsInv, UploadsShape, StageFields, UploadPending
<1>2. upload[r].new \in stored /\ NewApart(r)
  BY <1>1 DEF UploadsInv, NewKnown, UploadPending
<1>3. /\ reconcile \in UploadShape /\ reconcile.at = "reconcile" /\ reconcile.owner = u
      /\ reconcile.new = upload[r].new /\ reconcile.old = NoFile /\ reconcile.saved = {}
  BY <1>1 DEF UploadShape
<1>4. reconcile.persisted = upload[r].persisted
  BY <1>1, Zenon DEF UploadShape
<1> HIDE DEF u, reconcile
<1>5. CASE avatarMu' = NoFile /\ SetUpload(r, reconcile) /\ UNCHANGED <<avatar, unheard>>
  BY <1>1, <1>3, <1>4, <1>5, StageKeeps DEF u
<1>6. ASSUME avatar' = [avatar EXCEPT ![u] = upload[r].new]
      PROVE  /\ avatar' \in [Owners -> Uploaded \cup {NoFile, External}]
             /\ avatar'[u] = upload[r].new /\ \A v \in Owners : v # u => avatar'[v] = avatar[v]
             /\ Avatars' \subseteq Avatars \cup {upload[r].new} /\ upload[r].new \in Avatars'
             /\ Avatars \subseteq Avatars' \cup {avatar[u]}
             /\ avatar[u] \in Uploaded => avatar[u] \notin Avatars'
             /\ AvatarsApart'
  <2>1. /\ avatar' \in [Owners -> Uploaded \cup {NoFile, External}]
        /\ avatar'[u] = upload[r].new /\ \A v \in Owners : v # u => avatar'[v] = avatar[v]
    BY <1>1, <1>6 DEF u, UploadsInv, UploadsShape
  <2>2. /\ Avatars' \subseteq Avatars \cup {upload[r].new} /\ upload[r].new \in Avatars'
        /\ Avatars \subseteq Avatars' \cup {avatar[u]}
    BY <1>1, <2>1 DEF u, Avatars
  <2>3. avatar[u] \in Uploaded => avatar[u] \notin Avatars'
    BY <1>1, <1>2, <2>1 DEF u, Avatars, UploadsInv, AvatarsApart, NewApart
  <2>4. AvatarsApart'
    BY <1>1, <1>2, <2>1 DEF u, Avatars, UploadsInv, AvatarsApart, NewApart
  <2> QED
    BY <2>1, <2>2, <2>3, <2>4
<1>7. CASE /\ avatar' = [avatar EXCEPT ![u] = upload[r].new]
           /\ SetUpload(r, [upload[r] EXCEPT !.at = "refresh", !.old = avatar[u], !.persisted = TRUE])
           /\ UNCHANGED <<avatarMu, unheard>>
  <2> DEFINE entry == [upload[r] EXCEPT !.at = "refresh", !.old = avatar[u], !.persisted = TRUE]
  <2>0. avatar[u] \in Uploaded \cup {NoFile, External}
    BY <1>1 DEF u, UploadsInv, UploadsShape
  <2>1. /\ entry \in UploadShape /\ entry.at = "refresh" /\ entry.owner = u
        /\ entry.new = upload[r].new /\ entry.old = avatar[u] /\ entry.saved = {}
    BY <1>1, <2>0 DEF UploadShape, u
  <2>2. entry.persisted = TRUE
    BY <1>1, Zenon DEF UploadShape
  <2>3. SetUpload(r, entry)
    BY <1>7
  <2> HIDE DEF entry
  <2>4. /\ upload' \in [Uploads -> UploadShape] /\ upload'[r] = entry
        /\ \A s \in Uploads : s # r => upload'[s] = upload[s]
    BY <2>1, <2>3, UploadSet DEF UploadsInv
  <2>5. UploadsShape'
    BY <1>1, <1>6, <1>7, <2>4 DEF UploadsInv, UploadsShape
  <2>6. avatar[u] \in Avatars /\ (avatar[u] \in Uploaded => avatar[u] \in stored \cup unheard)
    BY <1>1 DEF u, UploadsInv, FilesAccounted, Avatars
  <2>7. FilesAccounted'
    <3>1. \A v \in Owners : avatar'[v] \in Uploaded \ unheard' => avatar'[v] \in stored'
      BY <1>1, <1>2, <1>6, <1>7 DEF UploadsInv, FilesAccounted
    <3>2. Busy' = Busy
      BY <1>1, <2>1, <2>4 DEF Busy
    <3>3. ASSUME NEW f \in stored
          PROVE  f \in Avatars' \cup Busy' \cup {upload'[s].old : s \in Uploads} \cup handed' \cup lost' \cup unheard'
      <4>1. f \in Avatars \cup Busy \cup {upload[s].old : s \in Uploads} \cup handed \cup lost \cup unheard
        BY DEF UploadsInv, FilesAccounted, Avatars
      <4>2. f \in {upload[s].old : s \in Uploads} => f \in {upload'[s].old : s \in Uploads}
        BY <1>1, <2>4, UserFilesAssumption DEF UploadsInv, UploadsShape
      <4>3. f \in Avatars => f \in Avatars' \/ f \in {upload'[s].old : s \in Uploads}
        BY <1>6, <1>7, <2>1, <2>4
      <4> QED
        BY <1>1, <1>7, <3>2, <4>1, <4>2, <4>3
    <3> QED
      BY <1>1, <3>1, <3>3 DEF UploadsInv, FilesAccounted, Avatars
  <2>8. AvatarsApart' /\ HandedApart'
    BY <1>1, <1>2, <1>6, <1>7, <2>1, <2>4, <2>6 DEF UploadsInv, HandedApart
  <2>9. ASSUME NEW s \in Uploads
        PROVE  (StageFields(s) /\ SavedApart(s))'
    BY <1>1, <1>6, <1>7, <2>1, <2>2, <2>4, <2>6 DEF UploadsInv, StageFields, SavedApart, UploadPending, Persisted
  <2>10. ASSUME NEW s \in Uploads
        PROVE  (RequestsApart(s) /\ OldApart(s))'
    BY <1>1, <1>2, <1>6, <1>7, <2>1, <2>2, <2>4, <2>6 DEF UploadsInv, RequestsApart, OldApart, NewApart
  <2>11. ASSUME NEW s \in Uploads
        PROVE  NewKnown(s)'
    <3>1. CASE s = r
      BY <1>6, <1>7, <2>1, <2>2, <2>4, <3>1 DEF NewKnown, UploadPending, Persisted
    <3>2. CASE s # r
      <4>1. /\ upload'[s] = upload[s] /\ upload'[r].old = avatar[u]
            /\ NewKnown(s) /\ StageFields(s) /\ RequestsApart(s)
        BY <2>1, <2>4, <3>2 DEF UploadsInv
      <4>2. UploadPending(s) \/ upload[s].at = "reconcile" => upload[s].new \in Uploaded
        BY <4>1 DEF StageFields
      <4>3. UploadPending(s) \/ upload[s].at = "reconcile" => upload[s].new # upload[r].new
        BY <1>1, <3>2, <4>1, <4>2 DEF RequestsApart
      <4>4. NewApart(s) /\ (UploadPending(s) \/ upload[s].at = "reconcile") => NewApart(s)'
        BY <1>6, <1>7, <2>1, <2>4, <2>6, <3>2, <4>1, <4>3 DEF NewApart
      <4>5. UploadPending(s)' => upload'[s].new \in stored' /\ NewApart(s)'
        BY <1>1, <4>1, <4>4 DEF NewKnown, UploadPending
      <4>6. upload'[s].at = "reconcile" /\ ~ Persisted(s)' => upload'[s].new \in unheard' \/ NewApart(s)'
        BY <1>7, <4>1, <4>4 DEF NewKnown, Persisted
      <4>7. ASSUME Persisted(s)', upload'[s].new \in stored'
            PROVE  \/ upload'[s].new \in Avatars' \cup lost' \cup unheard'
                   \/ \E t \in Uploads : t # s /\ upload'[s].new = upload'[t].old
        <5>1. CASE upload[s].new \in Avatars \cup lost \cup unheard
          BY <1>1, <1>6, <1>7, <3>2, <4>1, <5>1
        <5>2. CASE \E t \in Uploads : t # s /\ upload[s].new = upload[t].old
          <6>1. upload[s].new \in Uploaded
            BY <4>1, <4>7 DEF StageFields, Persisted
          <6> QED
            BY <1>1, <2>4, <4>1, <5>2, <6>1, UserFilesAssumption
        <5> QED
          BY <1>1, <4>1, <4>7, <5>1, <5>2 DEF NewKnown, Persisted
      <4> QED
        BY <4>5, <4>6, <4>7 DEF NewKnown
    <3> QED
      BY <3>1, <3>2
  <2> QED
    BY <2>5, <2>7, <2>8, <2>9, <2>10, <2>11 DEF UploadsInv
<1>8. CASE /\ avatar' = [avatar EXCEPT ![u] = upload[r].new]
           /\ avatarMu' = NoFile /\ SetUpload(r, reconcile)
           /\ unheard' = unheard \cup {upload[r].new} \cup ({avatar[u]} \cap Uploaded)
  <2>4. /\ upload' \in [Uploads -> UploadShape] /\ upload'[r] = reconcile
        /\ \A s \in Uploads : s # r => upload'[s] = upload[s]
    BY <1>3, <1>8, UploadSet DEF UploadsInv
  <2>5. UploadsShape'
    BY <1>1, <1>6, <1>8, <2>4 DEF UploadsInv, UploadsShape
  <2>6. avatar[u] \in Uploaded => avatar[u] \in unheard' /\ avatar[u] \in Avatars
    BY <1>1, <1>8 DEF u, Avatars
  <2>7. FilesAccounted'
    <3>1. \A v \in Owners : avatar'[v] \in Uploaded \ unheard' => avatar'[v] \in stored'
      BY <1>1, <1>2, <1>6, <1>8 DEF UploadsInv, FilesAccounted
    <3>2. Busy' = Busy /\ {upload'[s].old : s \in Uploads} = {upload[s].old : s \in Uploads}
      BY <1>1, <1>3, <2>4 DEF Busy
    <3>3. stored' \subseteq Avatars' \cup Busy' \cup {upload'[s].old : s \in Uploads} \cup handed' \cup lost' \cup unheard'
      BY <1>1, <1>6, <1>8, <2>6, <3>2 DEF UploadsInv, UploadsShape, FilesAccounted, Avatars
    <3> QED
      BY <1>1, <3>1, <3>3 DEF UploadsInv, FilesAccounted, Avatars
  <2>8. AvatarsApart' /\ HandedApart'
    BY <1>1, <1>2, <1>3, <1>6, <1>8, <2>4, <2>6 DEF UploadsInv, HandedApart
  <2>9. ASSUME NEW s \in Uploads
        PROVE  (StageFields(s) /\ SavedApart(s))'
    BY <1>1, <1>3, <1>4, <1>6, <1>8, <2>4, <2>6 DEF UploadsInv, StageFields, SavedApart, UploadPending, Persisted
  <2>10. ASSUME NEW s \in Uploads
        PROVE  (RequestsApart(s) /\ OldApart(s))'
    BY <1>1, <1>2, <1>3, <1>6, <1>8, <2>4, <2>6, UserFilesAssumption DEF UploadsInv, RequestsApart, OldApart, NewApart
  <2>11. ASSUME NEW s \in Uploads
        PROVE  NewKnown(s)'
    <3>1. CASE s = r
      BY <1>3, <1>4, <1>1, <1>8, <2>4, <3>1 DEF NewKnown, UploadPending, Persisted
    <3>2. CASE s # r
      <4>1. NewApart(s) /\ (UploadPending(s) \/ upload[s].at = "reconcile") => NewApart(s)'
        <5>1. \A t \in Uploads : upload'[t].old = upload[t].old
          BY <1>1, <1>3, <2>4
        <5>2. UploadPending(s) \/ upload[s].at = "reconcile" => upload[s].new # upload[r].new
          BY <1>1, <3>2 DEF UploadsInv, RequestsApart
        <5> QED
          BY <1>6, <1>8, <2>4, <3>2, <5>1, <5>2 DEF NewApart
      <4> QED
        BY <1>1, <1>3, <1>6, <1>8, <2>4, <2>6, <3>2, <4>1, UserFilesAssumption
           DEF UploadsInv, UploadsShape, NewKnown, UploadPending, Persisted, StageFields
    <3> QED
      BY <3>1, <3>2
  <2> QED
    BY <2>5, <2>7, <2>8, <2>9, <2>10, <2>11 DEF UploadsInv
<1> QED
  BY <1>5, <1>7, <1>8 DEF ReplaceUserAvatar, u, reconcile

\* What a request takes back or replaces is in no other role.
LEMMA TargetApart ==
    ASSUME UploadsInv, NEW r \in Uploads, upload[r].at = "reconcile"
    PROVE  /\ \A v \in Owners : avatar[v] \in Uploaded \ unheard => avatar[v] # Target(r)
           /\ Target(r) \notin handed
           /\ \A s \in Uploads : Target(r) \notin upload[s].saved
           /\ \A s \in Uploads : UploadPending(s) => upload[s].new # Target(r)
           /\ \A s \in Uploads : s # r /\ upload[s].old = Target(r) => upload[s].old \in unheard \/ upload[s].old \notin Uploaded
<1>1. Target(r) \in {upload[r].old, upload[r].new} /\ upload[r].new \in Uploaded
  BY DEF Target, UploadsInv, StageFields
<1>2. Target(r) \notin handed /\ \A s \in Uploads : Target(r) \notin upload[s].saved
  BY <1>1 DEF UploadsInv, HandedApart, SavedApart
<1>3. CASE Persisted(r)
  <2>1. Target(r) = upload[r].old
    BY <1>3 DEF Target, Persisted
  <2>2. \A s \in Uploads : UploadPending(s) => upload[s].new # Target(r)
    BY <2>1 DEF UploadsInv, NewKnown, NewApart
  <2> QED
    BY <1>2, <2>1, <2>2 DEF UploadsInv, OldApart, RequestsApart, Avatars
<1>4. CASE ~ Persisted(r)
  <2>1. Target(r) = upload[r].new
    BY <1>4 DEF Target, Persisted, UploadsInv, UploadsShape, UploadShape
  <2>2. upload[r].new \in unheard \/ NewApart(r)
    BY <1>4 DEF UploadsInv, NewKnown
  <2>3. \A s \in Uploads : UploadPending(s) => upload[s].new # Target(r)
    BY <1>1, <2>1 DEF UploadsInv, RequestsApart, UploadPending
  <2> QED
    BY <1>2, <2>1, <2>2, <2>3 DEF NewApart, Avatars
<1> QED
  BY <1>3, <1>4

\* A file is removed that is no row's and nobody else's, or stays as lost.
LEMMA ReconcileKeeps ==
    ASSUME UploadsInv, NEW r \in Uploads, reconcileAvatarFiles(r)
    PROVE  UploadsInv'
<1> DEFINE f == Target(r)
<1>1. /\ upload[r].at = "reconcile" /\ SetUpload(r, NoUpload)
      /\ UNCHANGED <<avatar, gone, avatarMu, handed, unheard>> /\ Avatars' = Avatars
      /\ \/ stored' = stored \ {f} /\ UNCHANGED lost
         \/ f \in stored /\ lost' = lost \cup {f} /\ UNCHANGED stored
  BY DEF reconcileAvatarFiles, EndUpload, Avatars
<1>2. /\ upload' \in [Uploads -> UploadShape] /\ upload'[r] = NoUpload
      /\ \A s \in Uploads : s # r => upload'[s] = upload[s]
  BY <1>1, UploadSet, NoUploadFields DEF UploadsInv
<1>3. /\ \A v \in Owners : avatar[v] \in Uploaded \ unheard => avatar[v] # f
      /\ f \notin handed
      /\ \A s \in Uploads : f \notin upload[s].saved
      /\ \A s \in Uploads : UploadPending(s) => upload[s].new # f
      /\ \A s \in Uploads : s # r /\ upload[s].old = f => upload[s].old \in unheard \/ upload[s].old \notin Uploaded
  BY <1>1, TargetApart
<1>4. /\ f = (IF Persisted(r) THEN upload[r].old ELSE upload[r].new) /\ upload[r].new \in Uploaded
      /\ upload[r].saved = {} /\ (~ Persisted(r) => upload[r].old = NoFile)
      /\ upload[r].old \in Uploaded \cup {NoFile, External}
      /\ ~ UploadPending(r)
  BY <1>1 DEF Target, Persisted, UploadPending, UploadsInv, UploadsShape, UploadShape, StageFields
<1> HIDE DEF f
<1>5. UploadsShape'
  BY <1>1, <1>2 DEF UploadsInv, UploadsShape
<1>6. \A s \in Uploads : s # r => upload'[s] = upload[s] /\ (Persisted(s)' <=> Persisted(s)) /\ (UploadPending(s)' <=> UploadPending(s))
  BY <1>2 DEF Persisted, UploadPending
<1>7. ~ Persisted(r)' /\ ~ UploadPending(r)' /\ upload'[r] = NoUpload
  BY <1>2, NoUploadFields DEF Persisted, UploadPending
<1>8. FilesAccounted'
  <2>1. \A v \in Owners : avatar'[v] \in Uploaded \ unheard' => avatar'[v] \in stored'
    BY <1>1, <1>3 DEF UploadsInv, FilesAccounted
  <2>2. handed' \subseteq stored'
    BY <1>1, <1>3 DEF UploadsInv, FilesAccounted
  <2>3. ASSUME NEW g \in stored'
        PROVE  g \in Avatars' \cup Busy' \cup {upload'[s].old : s \in Uploads} \cup handed' \cup lost' \cup unheard'
    <3>1. g \in Avatars \cup Busy \cup {upload[s].old : s \in Uploads} \cup handed \cup lost \cup unheard
      BY <1>1 DEF UploadsInv, FilesAccounted, Avatars
    <3>2. g \in stored /\ g \in Uploaded /\ (g = f => g \in lost')
      BY <1>1 DEF UploadsInv, UploadsShape
    <3>3. CASE \E s \in Uploads \ {r} : g = upload[s].old \/ g = upload[s].new \/ g \in upload[s].saved
      BY <1>2, <3>3 DEF Busy
    <3>4. CASE g = upload[r].old
      BY <1>4, <3>2, <3>4, UserFilesAssumption
    <3>5. CASE g = upload[r].new /\ Persisted(r)
      <4>1. \/ g \in Avatars \cup lost \cup unheard
            \/ \E s \in Uploads : s # r /\ upload[r].new = upload[s].old
        BY <3>2, <3>5 DEF UploadsInv, NewKnown
      <4> QED
        BY <1>1, <1>2, <3>5, <4>1
    <3>6. CASE g \in Busy /\ g # upload[r].new
      BY <1>4, <3>3, <3>6 DEF Busy
    <3>7. CASE g = upload[r].new /\ ~ Persisted(r)
      BY <1>4, <3>2, <3>7
    <3> QED
      BY <1>1, <3>1, <3>3, <3>4, <3>5, <3>6, <3>7
  <2> QED
    BY <2>1, <2>2, <2>3 DEF FilesAccounted, Avatars
<1>9. AvatarsApart' /\ HandedApart'
  BY <1>1, <1>2, <1>5, NoUploadFields, UserFilesAssumption DEF UploadsInv, UploadsShape, AvatarsApart, HandedApart
<1>10. ASSUME NEW s \in Uploads
       PROVE  StageFields(s)'
  BY <1>2, <1>6, <1>7, NoUploadFields, UserFilesAssumption DEF UploadsInv, StageFields
<1>11. ASSUME NEW s \in Uploads
       PROVE  SavedApart(s)'
  BY <1>1, <1>2, <1>3, <1>5, NoUploadFields, UserFilesAssumption DEF UploadsInv, UploadsShape, UploadShape, SavedApart
<1>12. ASSUME NEW s \in Uploads
       PROVE  (RequestsApart(s) /\ OldApart(s))'
  BY <1>1, <1>2, <1>3, NoUploadFields, UserFilesAssumption DEF UploadsInv, RequestsApart, OldApart
<1>13. ASSUME NEW s \in Uploads
       PROVE  NewKnown(s)'
  <2>1. CASE s = r
    BY <1>7, <2>1, NoUploadFields DEF NewKnown
  <2>2. CASE s # r
    <3>1. NewKnown(s) /\ StageFields(s) /\ upload'[s] = upload[s]
      BY <1>2, <2>2 DEF UploadsInv
    <3>2. upload[s].new \in Uploaded /\ NewApart(s) => NewApart(s)'
      BY <1>1, <1>2, <3>1, NoUploadFields, UserFilesAssumption DEF NewApart
    <3>3. UploadPending(s)' => upload'[s].new \in stored' /\ NewApart(s)'
      BY <1>1, <1>3, <1>6, <2>2, <3>1, <3>2 DEF NewKnown, StageFields
    <3>4. upload'[s].at = "reconcile" /\ ~ Persisted(s)' => upload'[s].new \in unheard' \/ NewApart(s)'
      BY <1>1, <1>6, <2>2, <3>1, <3>2 DEF NewKnown, StageFields
    <3>5. ASSUME Persisted(s)', upload'[s].new \in stored'
          PROVE  \/ upload'[s].new \in Avatars' \cup lost' \cup unheard'
                 \/ \E t \in Uploads : t # s /\ upload'[s].new = upload'[t].old
      <4>1. Persisted(s) /\ upload[s].new \in stored /\ upload[s].new \in Uploaded
        BY <1>1, <1>6, <2>2, <3>1, <3>5 DEF StageFields
      <4>2. CASE upload[s].new \in Avatars \cup lost \cup unheard
        BY <1>1, <3>1, <4>2
      <4>3. CASE \E t \in Uploads \ {r} : t # s /\ upload[s].new = upload[t].old
        BY <1>2, <3>1, <4>3
      <4>4. CASE upload[s].new = upload[r].old
        BY <1>1, <1>4, <3>1, <3>5, <4>1, <4>4, UserFilesAssumption
      <4> QED
        BY <3>1, <4>1, <4>2, <4>3, <4>4 DEF NewKnown
    <3> QED
      BY <3>3, <3>4, <3>5 DEF NewKnown
  <2> QED
    BY <2>1, <2>2
<1> QED
  BY <1>5, <1>8, <1>9, <1>10, <1>11, <1>12, <1>13 DEF UploadsInv

-----------------------------------------------------------------------------
\* A step of a batch: its files change, and files come or go that are nobody else's.
LEMMA BatchKeeps ==
    ASSUME UploadsInv, NEW r \in Uploads, NEW entry \in UploadShape, SetUpload(r, entry),
           upload[r].at \in {"batch", "rollback"}, entry.at \in {"rest", "batch", "rollback"},
           entry.new = NoFile, entry.old = NoFile, entry.persisted = FALSE,
           entry.at = "rest" => entry.saved = {},
           UNCHANGED <<avatar, gone, avatarMu, unheard>>,
           NEW f, stored' \cup lost' \subseteq Uploaded, lost \subseteq lost',
           \/ /\ f \in Fresh /\ stored' = stored \cup {f} /\ lost' = lost /\ handed' = handed
              /\ entry.saved = upload[r].saved \cup {f}
           \/ /\ f \in Fresh /\ stored' = stored \cup {f} /\ lost' = lost \cup {f} /\ handed' = handed
              /\ entry.saved = upload[r].saved
           \/ /\ f \in upload[r].saved /\ handed' = handed /\ entry.saved = upload[r].saved \ {f}
              /\ \/ stored' = stored \ {f}
                 \/ stored' = stored /\ f \in lost'
           \/ /\ stored' = stored /\ handed' = handed \cup upload[r].saved /\ entry.saved = {}
    PROVE  UploadsInv'
<1>1. /\ upload' \in [Uploads -> UploadShape] /\ upload'[r] = entry
      /\ \A s \in Uploads : s # r => upload'[s] = upload[s]
  BY UploadSet DEF UploadsInv
<1>2. upload[r].new = NoFile /\ upload[r].old = NoFile /\ ~ Persisted(r) /\ ~ UploadPending(r)
  BY DEF UploadsInv, UploadsShape, UploadShape, StageFields, UploadPending
<1>3. ~ Persisted(r)' /\ ~ UploadPending(r)' /\ upload'[r].at # "reconcile"
  BY <1>1 DEF Persisted, UploadPending
<1>4. /\ \A s \in Uploads : upload'[s].new = upload[s].new /\ upload'[s].old = upload[s].old
      /\ Avatars' = Avatars
  BY <1>1, <1>2 DEF Avatars
<1>5. upload[r].saved \subseteq Uploaded /\ SavedApart(r)
  BY DEF UploadsInv, UploadsShape, UploadShape
<1>6. f \in Fresh =>
         /\ f \in Uploaded /\ f \notin stored /\ f \notin Avatars /\ f \notin handed
         /\ \A s \in Uploads : f # upload[s].new /\ f # upload[s].old /\ f \notin upload[s].saved
  BY FreshApart
<1>7. UploadsShape'
  BY <1>1, <1>5 DEF UploadsInv, UploadsShape
<1>8. \A s \in Uploads : \A g \in stored : g = upload[s].new \/ g = upload[s].old \/ g \in handed \/ g \in Avatars => g \in stored'
  BY <1>5 DEF SavedApart
<1>9. FilesAccounted'
  <2>1. \A v \in Owners : avatar'[v] \in Uploaded \ unheard' => avatar'[v] \in stored'
    BY <1>8 DEF UploadsInv, FilesAccounted, Avatars
  <2>2. handed' \subseteq stored'
    BY <1>5, <1>8 DEF UploadsInv, FilesAccounted, SavedApart
  <2>3. ASSUME NEW g \in stored'
        PROVE  g \in Avatars' \cup Busy' \cup {upload'[s].old : s \in Uploads} \cup handed' \cup lost' \cup unheard'
    <3>1. CASE g \in Avatars \cup handed \cup lost \cup unheard
      BY <1>4, <3>1
    <3>2. CASE \E s \in Uploads : g = upload[s].old \/ g = upload[s].new
      BY <1>4, <3>2 DEF Busy
    <3>3. CASE \E s \in Uploads \ {r} : g \in upload[s].saved
      BY <1>1, <3>3 DEF Busy
    <3>4. CASE g \in upload[r].saved
      <4>1. g \in upload'[r].saved \/ g \in handed' \/ g \in lost'
        BY <1>1, <3>4
      <4> QED
        BY <4>1 DEF Busy
    <3>5. CASE g \notin stored
      BY <1>1, <3>5 DEF Busy
    <3> QED
      BY <3>1, <3>2, <3>3, <3>4, <3>5 DEF UploadsInv, FilesAccounted, Avatars, Busy
  <2> QED
    BY <2>1, <2>2, <2>3 DEF FilesAccounted, Avatars
<1>10. AvatarsApart' /\ HandedApart'
  BY <1>4, <1>5 DEF UploadsInv, AvatarsApart, HandedApart, SavedApart
<1>11. ASSUME NEW s \in Uploads
       PROVE  StageFields(s)'
  BY <1>1, <1>3, UserFilesAssumption DEF UploadsInv, StageFields, UploadPending, Persisted
<1>12. ASSUME NEW s \in Uploads
       PROVE  SavedApart(s)'
  <2>1. SavedApart(s) /\ (s # r => upload'[s] = upload[s])
    BY <1>1 DEF UploadsInv
  <2>2. CASE s = r
    BY <1>1, <1>4, <1>5, <1>6, <2>2 DEF SavedApart
  <2>3. CASE s # r
    BY <1>1, <1>4, <1>5, <1>6, <2>1, <2>3 DEF SavedApart
  <2> QED
    BY <2>2, <2>3
<1>13. ASSUME NEW s \in Uploads
       PROVE  (RequestsApart(s) /\ OldApart(s))'
  BY <1>4, <1>8 DEF UploadsInv, RequestsApart, OldApart
<1>14. ASSUME NEW s \in Uploads
       PROVE  NewKnown(s)'
  <2>1. CASE s = r
    BY <1>1, <1>3, <2>1 DEF NewKnown
  <2>2. CASE s # r
    <3>1. NewApart(s)' <=> NewApart(s)
      BY <1>4 DEF NewApart
    <3>2. upload[s].new \in stored <=> upload[s].new \in stored'
      BY <1>5, <1>6 DEF SavedApart
    <3> QED
      BY <1>1, <1>4, <2>2, <3>1, <3>2 DEF UploadsInv, NewKnown, UploadPending, Persisted
  <2> QED
    BY <2>1, <2>2
<1> QED
  BY <1>7, <1>9, <1>10, <1>11, <1>12, <1>13, <1>14 DEF UploadsInv

LEMMA BatchesKeep ==
    ASSUME UploadsInv, NEW r \in Uploads, saveUpload(r) \/ rollbackUploads(r) \/ AnswerBatch(r)
    PROVE  UploadsInv'
<1>1. upload[r] \in UploadShape /\ stored \subseteq Uploaded /\ lost \subseteq Uploaded
  BY DEF UploadsInv, UploadsShape
<1>2. upload[r].at \in {"batch", "rollback"} =>
          upload[r].new = NoFile /\ upload[r].old = NoFile /\ upload[r].persisted = FALSE
  BY <1>1 DEF UploadsInv, UploadShape, StageFields, UploadPending, Persisted
<1>3. ASSUME saveUpload(r) PROVE UploadsInv'
  <2>1. /\ upload[r].at = "batch" /\ upload[r].left > 0
        /\ UNCHANGED <<avatar, gone, avatarMu, handed, unheard>>
    BY <1>3 DEF saveUpload
  <2>2. ASSUME NEW f \in Fresh, stored' = stored \cup {f}, lost' = lost,
               SetUpload(r, [upload[r] EXCEPT !.left = @ - 1, !.saved = @ \cup {f}])
        PROVE  UploadsInv'
    <3> DEFINE entry == [upload[r] EXCEPT !.left = @ - 1, !.saved = @ \cup {f}]
    <3>1. f \in Uploaded /\ upload[r].left - 1 \in Nat /\ upload[r].saved \cup {f} \in SUBSET Uploaded
      <4>1. upload[r].left \in Nat /\ upload[r].left - 1 \in Nat
        BY <1>1, <2>1 DEF UploadShape
      <4> QED
        BY <1>1, <4>1, FreshApart DEF UploadShape
    <3>2. /\ entry \in UploadShape /\ entry.at = "batch" /\ entry.new = NoFile /\ entry.old = NoFile
          /\ entry.saved = upload[r].saved \cup {f}
      BY <1>1, <1>2, <2>1, <3>1 DEF UploadShape
    <3>3. entry.persisted = FALSE
      <4>1. entry.persisted = upload[r].persisted
        BY <1>1, Zenon DEF UploadShape
      <4> QED
        BY <1>2, <2>1, <4>1
    <3>4. SetUpload(r, entry)
      BY <2>2
    <3> HIDE DEF entry
    <3> QED
      BY <1>1, <2>1, <2>2, <3>1, <3>2, <3>3, <3>4, BatchKeeps
  <2>3. ASSUME NEW rest \in {{}} \cup {{f} : f \in Fresh}, stored' = stored \cup rest, lost' = lost \cup rest,
               SetUpload(r, [upload[r] EXCEPT !.at = "rollback"])
        PROVE  UploadsInv'
    <3> DEFINE entry == [upload[r] EXCEPT !.at = "rollback"]
    <3>2. /\ entry \in UploadShape /\ entry.at = "rollback" /\ entry.new = upload[r].new
          /\ entry.old = upload[r].old /\ entry.saved = upload[r].saved /\ entry.owner = upload[r].owner
      BY <1>1 DEF UploadShape
    <3>3. entry.persisted = upload[r].persisted
      BY <1>1, Zenon DEF UploadShape
    <3>4. SetUpload(r, entry) /\ avatarMu' \in Uploads \cup {NoFile}
      BY <2>1, <2>3 DEF UploadsInv, UploadsShape
    <3> HIDE DEF entry
    <3>5. CASE rest = {}
      <4>1. stored' = stored /\ lost' = lost
        BY <2>3, <3>5
      <4> QED
        BY <2>1, <3>2, <3>3, <3>4, <4>1, StageKeeps
    <3>6. ASSUME NEW f \in Fresh, rest = {f} PROVE UploadsInv'
      <4>1. /\ stored' = stored \cup {f} /\ lost' = lost \cup {f} /\ handed' = handed
            /\ stored' \cup lost' \subseteq Uploaded /\ lost \subseteq lost'
        BY <1>1, <2>1, <2>3, <3>6, FreshApart
      <4>2. entry.new = NoFile /\ entry.old = NoFile /\ entry.persisted = FALSE
        BY <1>2, <2>1, <3>2, <3>3
      <4> QED
        BY <2>1, <3>2, <3>4, <3>6, <4>1, <4>2, BatchKeeps
    <3> QED
      BY <2>3, <3>5, <3>6
  <2>4. \/ \E f \in Fresh : /\ stored' = stored \cup {f} /\ lost' = lost
                           /\ SetUpload(r, [upload[r] EXCEPT !.left = @ - 1, !.saved = @ \cup {f}])
        \/ \E rest \in {{}} \cup {{f} : f \in Fresh} :
             /\ stored' = stored \cup rest /\ lost' = lost \cup rest
             /\ SetUpload(r, [upload[r] EXCEPT !.at = "rollback"])
    BY <1>3 DEF saveUpload
  <2> QED
    BY <2>2, <2>3, <2>4
<1>4. ASSUME rollbackUploads(r) PROVE UploadsInv'
  <2>1. upload[r].at = "rollback" /\ UNCHANGED <<avatar, gone, avatarMu, handed, unheard>>
    BY <1>4 DEF rollbackUploads
  <2>2. CASE upload[r].saved = {} /\ EndUpload(r) /\ UNCHANGED <<stored, lost>>
    <3>1. SetUpload(r, NoUpload) /\ handed' = handed \cup upload[r].saved
      BY <2>1, <2>2 DEF EndUpload
    <3>2. stored' \cup lost' \subseteq Uploaded /\ lost \subseteq lost' /\ stored' = stored
      BY <1>1, <2>2
    <3> QED
      BY <2>1, <3>1, <3>2, NoUploadFields, BatchKeeps
  <2>3. ASSUME NEW f \in upload[r].saved,
               SetUpload(r, [upload[r] EXCEPT !.saved = @ \ {f}]),
               \/ stored' = stored \ {f} /\ UNCHANGED lost
               \/ lost' = lost \cup {f} /\ UNCHANGED stored
        PROVE  UploadsInv'
    <3> DEFINE entry == [upload[r] EXCEPT !.saved = @ \ {f}]
    <3>2. /\ entry \in UploadShape /\ entry.at = "rollback" /\ entry.new = NoFile /\ entry.old = NoFile
          /\ entry.saved = upload[r].saved \ {f} /\ f \in Uploaded
      BY <1>1, <1>2, <2>1 DEF UploadShape
    <3>3. entry.persisted = FALSE
      <4>1. entry.persisted = upload[r].persisted
        BY <1>1, Zenon DEF UploadShape
      <4> QED
        BY <1>2, <2>1, <4>1
    <3>4. SetUpload(r, entry)
      BY <2>3
    <3> HIDE DEF entry
    <3> QED
      BY <1>1, <2>1, <2>3, <3>2, <3>3, <3>4, BatchKeeps
  <2> QED
    BY <1>4, <2>2, <2>3 DEF rollbackUploads
<1>5. ASSUME AnswerBatch(r) PROVE UploadsInv'
  <2>1. /\ upload[r].at = "batch" /\ handed' = handed \cup upload[r].saved /\ SetUpload(r, NoUpload)
        /\ UNCHANGED <<avatar, gone, stored, avatarMu, lost, unheard>>
    BY <1>5 DEF AnswerBatch, EndUpload
  <2> QED
    BY <1>1, <2>1, NoUploadFields, BatchKeeps
<1> QED
  BY <1>3, <1>4, <1>5

\* The process stops: every file in hand is accounted as lost.
LEMMA StopKeeps ==
    ASSUME UploadsInv, StopUploads
    PROVE  UploadsInv'
<1>1. /\ upload' = [r \in Uploads |-> NoUpload] /\ avatarMu' = NoFile
      /\ lost' = lost \cup (stored \cap (Busy \cup {upload[r].old : r \in Uploads}))
      /\ UNCHANGED <<avatar, gone, stored, handed, unheard>> /\ Avatars' = Avatars
  BY DEF StopUploads, Avatars
<1>2. \A r \in Uploads : upload'[r] = NoUpload
  BY <1>1
<1>3. UploadsShape'
  BY <1>1, NoUploadFields DEF UploadsInv, UploadsShape
<1>4. FilesAccounted'
  BY <1>1 DEF UploadsInv, FilesAccounted, Avatars
<1>5. AvatarsApart' /\ HandedApart'
  BY <1>1, <1>2, <1>3, NoUploadFields, UserFilesAssumption DEF UploadsInv, UploadsShape, AvatarsApart, HandedApart
<1>6. ASSUME NEW r \in Uploads
      PROVE  (StageFields(r) /\ SavedApart(r) /\ RequestsApart(r) /\ NewKnown(r) /\ OldApart(r))'
  BY <1>2, NoUploadFields, UserFilesAssumption
     DEF StageFields, SavedApart, RequestsApart, NewKnown, OldApart, UploadPending, Persisted
<1> QED
  BY <1>3, <1>4, <1>5, <1>6 DEF UploadsInv

LEMMA OwnersKeep ==
    ASSUME UploadsInv, UNCHANGED <<avatar, stored, upload, avatarMu, handed, lost, unheard>>,
           gone' \subseteq Owners
    PROVE  UploadsInv'
<1>1. Avatars' = Avatars /\ Busy' = Busy
  BY DEF Avatars, Busy
<1>2. UploadsShape' /\ FilesAccounted' /\ AvatarsApart' /\ HandedApart'
  BY <1>1 DEF UploadsInv, UploadsShape, FilesAccounted, AvatarsApart, HandedApart
<1>3. ASSUME NEW r \in Uploads
      PROVE  (StageFields(r) /\ SavedApart(r) /\ RequestsApart(r) /\ NewKnown(r) /\ OldApart(r))'
  BY <1>1 DEF UploadsInv, StageFields, SavedApart, RequestsApart, NewKnown, NewApart, OldApart, UploadPending, Persisted
<1> QED
  BY <1>2, <1>3 DEF UploadsInv

LEMMA UploadsInvAlways == UserFilesSpec => []UploadsInv
<1>1. UploadsInv /\ UserFilesNext => UploadsInv'
  <2> SUFFICES ASSUME UploadsInv, UserFilesNext PROVE UploadsInv'
    OBVIOUS
  <2>1. ASSUME NEW u \in Owners, DeleteOwner(u) PROVE UploadsInv'
    BY <2>1, OwnersKeep DEF DeleteOwner, UploadsInv, UploadsShape
  <2> QED
    BY <2>1, SaveAvatarKeeps, StagesKeep, ReplaceKeeps, ReconcileKeeps, BatchesKeep, StopKeeps DEF UserFilesNext
<1>2. UploadsInv /\ UNCHANGED userFileVars => UploadsInv'
  BY OwnersKeep DEF userFileVars, UploadsInv, UploadsShape
<1> QED
  BY UploadsStart, <1>1, <1>2, PTL DEF UserFilesSpec

\* Rows, files and requests keep their types.
THEOREM UploadsTypeCorrect == UserFilesSpec => []UserFilesTypeOK
<1>1. UploadsInv => UserFilesTypeOK
  BY DEF UploadsInv, UploadsShape, UploadShape, UserFilesTypeOK
<1> QED
  BY UploadsInvAlways, <1>1, PTL

\* However uploads meet, whatever fails and wherever the process stops
\* (handler/profile.go, common.go), rows point at files that are there and
\* every file is somebody's, handed out, or accounted as lost or unheard.
THEOREM FilesAlwaysAccounted == UserFilesSpec => []FilesAccounted
<1>1. UploadsInv => FilesAccounted
  BY DEF UploadsInv
<1> QED
  BY UploadsInvAlways, <1>1, PTL

-----------------------------------------------------------------------------
(***************************************************************************)
(* Notices (NoticeReads).  No two transactions hold a lock of one row, so  *)
(* what a mark has found published stays so until it commits.              *)
(***************************************************************************)
TxShape == [at: {"rest", "update", "notices", "insert", "commit"}, op: {"none", "update", "delete", "mark"},
            ids: SUBSET NoticeIds, reader: NoticeReaders \cup {Nobody}]

NoticesShape ==
    /\ notices \in [NoticeIds -> {"unborn", "draft", "published", "deleted"}]
    /\ IsFiniteSet(Existing)
    /\ reads \subseteq NoticeReaders \X NoticeIds
    /\ noticeTx \in [NoticeTxs -> TxShape]

\* What is read exists.
MarksExist == \A mark \in reads : mark[2] \in Existing

\* The rows a transaction has locked, seen from its stage.
Locks(t) == IF In(t, "mark", {"insert", "commit"}) \/ In(t, "delete", {"commit"}) THEN noticeTx[t].ids ELSE {}

LocksApart == \A t, other \in NoticeTxs : t # other => Locks(t) \cap Locks(other) = {}

TxFound(t) ==
    /\ noticeTx[t].at = "commit" => noticeTx[t].op \in {"mark", "delete"}
    /\ noticeTx[t].op = "mark" =>
          /\ noticeTx[t].at \in {"insert", "commit"} /\ noticeTx[t].reader \in NoticeReaders
          /\ noticeTx[t].ids \subseteq Published

NoticesInv ==
    NoticesShape /\ MarksExist /\ LocksApart /\ \A t \in NoticeTxs : TxFound(t)

-----------------------------------------------------------------------------
LEMMA NoticesStart ==
    ASSUME NoticesInit
    PROVE  NoticesInv
<1>1. Existing = {}
  BY DEF NoticesInit, Existing
<1>2. NoTx \in TxShape
  BY DEF NoTx, TxShape
<1>3. NoticesShape
  BY <1>1, <1>2, FS_EmptySet DEF NoticesInit, NoticesShape
<1>4. MarksExist /\ LocksApart /\ \A t \in NoticeTxs : TxFound(t)
  BY DEF NoticesInit, NoTx, MarksExist, LocksApart, Locks, In, TxFound
<1> QED
  BY <1>3, <1>4 DEF NoticesInv

\* A free row is locked by nobody else.
LEMMA FreeRows ==
    ASSUME NEW t \in NoticeTxs, NEW ids, Free(ids, RowLocks, t)
    PROVE  \A other \in NoticeTxs : other # t => Locks(other) \cap ids = {}
BY DEF Free, RowLocks, Locks

\* A transaction moves while the notices stay.
LEMMA TxKept ==
    ASSUME NoticesInv, NEW t \in NoticeTxs, NEW entry \in TxShape,
           noticeTx' = [noticeTx EXCEPT ![t] = entry], UNCHANGED notices,
           reads' \subseteq NoticeReaders \X NoticeIds, MarksExist',
           \A other \in NoticeTxs : other # t => Locks(other) \cap Locks(t)' = {}, TxFound(t)'
    PROVE  NoticesInv'
<1>1. Existing' = Existing /\ Published' = Published
  BY DEF Existing, Published
<1>2. \A other \in NoticeTxs : other # t => noticeTx'[other] = noticeTx[other]
  BY DEF NoticesInv, NoticesShape
<1>3. NoticesShape'
  BY <1>1 DEF NoticesInv, NoticesShape
<1>4. \A other \in NoticeTxs : other # t => Locks(other)' = Locks(other) /\ TxFound(other)'
  BY <1>1, <1>2 DEF NoticesInv, Locks, In, TxFound
<1>5. LocksApart'
  BY <1>4 DEF NoticesInv, LocksApart
<1> QED
  BY <1>3, <1>4, <1>5 DEF NoticesInv

LEMMA BeginKept ==
    ASSUME NoticesInv, NEW t \in NoticeTxs, NEW op \in {"update", "delete"}, NEW stage \in {"update", "notices"},
           NEW ids \in SUBSET NoticeIds, BeginTx(t, op, stage, ids, Nobody), UNCHANGED <<notices, reads>>
    PROVE  NoticesInv'
<1> DEFINE entry == [at |-> stage, op |-> op, ids |-> ids, reader |-> Nobody]
<1>1. entry \in TxShape /\ entry.at = stage /\ entry.op = op
  BY DEF TxShape
<1>2. noticeTx' = [noticeTx EXCEPT ![t] = entry]
  BY DEF BeginTx
<1> HIDE DEF entry
<1>3. noticeTx'[t] = entry
  BY <1>2 DEF NoticesInv, NoticesShape
<1>4. Locks(t)' = {} /\ TxFound(t)'
  BY <1>1, <1>3 DEF Locks, In, TxFound
<1>5. MarksExist' /\ reads' \subseteq NoticeReaders \X NoticeIds
  BY DEF NoticesInv, NoticesShape, MarksExist, Existing
<1> QED
  BY <1>1, <1>2, <1>4, <1>5, TxKept

LEMMA MoveKept ==
    ASSUME NoticesInv, NEW t \in NoticeTxs, DeleteRows(t) \/ InsertReads(t)
    PROVE  NoticesInv'
<1> DEFINE entry == [noticeTx[t] EXCEPT !.at = "commit"]
<1>1. noticeTx[t] \in TxShape
  BY DEF NoticesInv, NoticesShape
<1>2. /\ entry \in TxShape /\ entry.at = "commit" /\ entry.op = noticeTx[t].op
      /\ entry.ids = noticeTx[t].ids /\ entry.reader = noticeTx[t].reader
  BY <1>1 DEF TxShape
<1>3. noticeTx' = [noticeTx EXCEPT ![t] = entry] /\ UNCHANGED <<notices, reads>>
  BY DEF DeleteRows, InsertReads, MoveTx
<1> HIDE DEF entry
<1>4. noticeTx'[t] = entry
  BY <1>3 DEF NoticesInv, NoticesShape
<1>5. \A other \in NoticeTxs : other # t => Locks(other) \cap noticeTx[t].ids = {}
  <2>1. CASE DeleteRows(t)
    BY <2>1, FreeRows DEF DeleteRows
  <2>2. CASE InsertReads(t)
    BY <2>2 DEF InsertReads, In, Locks, NoticesInv, LocksApart
  <2> QED
    BY <2>1, <2>2
<1>6. Locks(t)' \subseteq noticeTx[t].ids /\ TxFound(t)'
  BY <1>2, <1>3, <1>4 DEF Locks, In, TxFound, DeleteRows, InsertReads, NoticesInv, Published
<1>7. MarksExist' /\ reads' \subseteq NoticeReaders \X NoticeIds
  BY <1>3 DEF NoticesInv, NoticesShape, MarksExist, Existing
<1> QED
  BY <1>2, <1>3, <1>5, <1>6, <1>7, TxKept

LEMMA MarkKept ==
    ASSUME NoticesInv, NEW t \in NoticeTxs, MarkPublishedNoticesRead(t)
    PROVE  NoticesInv'
<1>1. PICK by \in NoticeReaders, ids \in (SUBSET NoticeIds) \ {{}} :
          Free(ids, RowLocks, t) /\ ids \subseteq Published /\ BeginTx(t, "mark", "insert", ids, by)
  BY DEF MarkPublishedNoticesRead
<1> DEFINE entry == [at |-> "insert", op |-> "mark", ids |-> ids, reader |-> by]
<1>2. entry \in TxShape /\ entry.at = "insert" /\ entry.op = "mark" /\ entry.ids = ids /\ entry.reader = by
  BY DEF TxShape
<1>3. noticeTx' = [noticeTx EXCEPT ![t] = entry] /\ UNCHANGED <<notices, reads>>
  BY <1>1 DEF BeginTx, MarkPublishedNoticesRead
<1> HIDE DEF entry
<1>4. noticeTx'[t] = entry
  BY <1>3 DEF NoticesInv, NoticesShape
<1>5. Locks(t)' = ids /\ TxFound(t)'
  BY <1>1, <1>2, <1>3, <1>4 DEF Locks, In, TxFound, Published
<1>6. \A other \in NoticeTxs : other # t => Locks(other) \cap ids = {}
  BY <1>1, FreeRows
<1>7. MarksExist' /\ reads' \subseteq NoticeReaders \X NoticeIds
  BY <1>3 DEF NoticesInv, NoticesShape, MarksExist, Existing
<1> QED
  BY <1>2, <1>3, <1>5, <1>6, <1>7, TxKept

\* A transaction ends; what it did to the notices is to rows that nobody else has locked.
LEMMA EndKept ==
    ASSUME NoticesInv, NEW t \in NoticeTxs, NEW ids, EndTx(t),
           notices' \in [NoticeIds -> {"unborn", "draft", "published", "deleted"}],
           Existing' \subseteq Existing,
           \A n \in NoticeIds : n \notin ids => notices'[n] = notices[n],
           \A other \in NoticeTxs : other # t => Locks(other) \cap ids = {},
           reads' \subseteq NoticeReaders \X NoticeIds, MarksExist'
    PROVE  NoticesInv'
<1>1. NoTx \in TxShape /\ NoTx.at = "rest" /\ NoTx.op = "none"
  BY DEF NoTx, TxShape
<1>2. /\ noticeTx' \in [NoticeTxs -> TxShape] /\ noticeTx'[t] = NoTx
      /\ \A other \in NoticeTxs : other # t => noticeTx'[other] = noticeTx[other]
  BY <1>1 DEF EndTx, NoticesInv, NoticesShape
<1>3. NoticesShape'
  BY <1>2, FS_Subset DEF NoticesInv, NoticesShape
<1>4. \A other \in NoticeTxs : other # t => Locks(other)' = Locks(other)
  BY <1>2 DEF Locks, In
<1>5. Locks(t)' = {} /\ TxFound(t)'
  BY <1>1, <1>2 DEF Locks, In, TxFound
<1>6. LocksApart'
  BY <1>4, <1>5 DEF NoticesInv, LocksApart
<1>7. ASSUME NEW other \in NoticeTxs, other # t PROVE TxFound(other)'
  <2>1. TxFound(other) /\ noticeTx'[other] = noticeTx[other] /\ noticeTx[other].ids \subseteq NoticeIds
    BY <1>2, <1>7 DEF NoticesInv, NoticesShape, TxShape
  <2>2. noticeTx[other].op = "mark" => Locks(other) = noticeTx[other].ids
    BY <2>1 DEF TxFound, Locks, In
  <2>3. noticeTx[other].op = "mark" => noticeTx[other].ids \subseteq Published'
    BY <1>7, <2>1, <2>2 DEF TxFound, Published
  <2> QED
    BY <2>1, <2>3 DEF TxFound
<1> QED
  BY <1>3, <1>5, <1>6, <1>7 DEF NoticesInv

LEMMA NoticeStepKeeps ==
    ASSUME NoticesInv, NoticesNext
    PROVE  NoticesInv'
<1>1. PICK t \in NoticeTxs :
        \/ CreateNotice(t) \/ UpdateNotice(t) \/ WriteNotice(t) \/ DeleteReads(t) \/ DeleteRows(t)
        \/ MarkPublishedNoticesRead(t) \/ InsertReads(t) \/ Commit(t) \/ Rollback(t)
  BY DEF NoticesNext
<1>2. CASE CreateNotice(t)
  <2>1. PICK n \in NoticeIds, new \in {"draft", "published"} :
            /\ \A other \in NoticeIds : (notices[other] = "unborn") = (other >= n)
            /\ notices' = [notices EXCEPT ![n] = new]
    BY <1>2 DEF CreateNotice
  <2>2. UNCHANGED <<reads, noticeTx>>
    BY <1>2 DEF CreateNotice
  <2>3. /\ notices' \in [NoticeIds -> {"unborn", "draft", "published", "deleted"}] /\ notices'[n] = new
        /\ \A other \in NoticeIds : other # n => notices'[other] = notices[other]
    BY <2>1 DEF NoticesInv, NoticesShape
  <2>4. Existing' = Existing \cup {n}
    BY <2>3 DEF Existing
  <2>5. IsFiniteSet(Existing')
    BY <2>4, FS_AddElement DEF NoticesInv, NoticesShape
  <2>6. NoticesShape' /\ MarksExist'
    BY <2>2, <2>3, <2>4, <2>5 DEF NoticesInv, NoticesShape, MarksExist
  <2>7. \A other \in NoticeTxs : Locks(other)' = Locks(other)
    BY <2>2 DEF Locks, In
  <2>8. notices[n] = "unborn"
    <3>1. n >= n
      BY NoticeReadsAssumption
    <3> QED
      BY <2>1, <3>1
  <2>9. Published \subseteq Published'
    BY <2>3, <2>8 DEF Published
  <2> QED
    BY <2>2, <2>6, <2>7, <2>9 DEF NoticesInv, LocksApart, TxFound
<1>3. CASE UpdateNotice(t)
  <2>1. PICK n \in Existing : BeginTx(t, "update", "update", {n}, Nobody) /\ UNCHANGED <<notices, reads>>
    BY <1>3 DEF UpdateNotice
  <2> QED
    BY <2>1, BeginKept DEF Existing
<1>4. CASE WriteNotice(t)
  <2>1. PICK new \in {"draft", "published"} :
            notices' = [n \in NoticeIds |-> IF n \in noticeTx[t].ids \cap Existing THEN new ELSE notices[n]]
    BY <1>4 DEF WriteNotice
  <2>2. Free(noticeTx[t].ids, RowLocks, t) /\ EndTx(t) /\ UNCHANGED reads
    BY <1>4 DEF WriteNotice
  <2>3. notices' \in [NoticeIds -> {"unborn", "draft", "published", "deleted"}]
    BY <2>1 DEF NoticesInv, NoticesShape
  <2>4. Existing' = Existing
    BY <2>1 DEF Existing
  <2>5. MarksExist' /\ reads' \subseteq NoticeReaders \X NoticeIds
    BY <2>2, <2>4 DEF NoticesInv, NoticesShape, MarksExist
  <2>6. \A n \in NoticeIds : n \notin noticeTx[t].ids => notices'[n] = notices[n]
    BY <2>1
  <2> QED
    BY <2>2, <2>3, <2>4, <2>5, <2>6, FreeRows, EndKept
<1>5. CASE DeleteReads(t)
  <2>1. PICK ids \in (SUBSET NoticeIds) \ {{}} : BeginTx(t, "delete", "notices", ids, Nobody)
    BY <1>5 DEF DeleteReads
  <2>2. UNCHANGED <<notices, reads>>
    BY <1>5 DEF DeleteReads
  <2> QED
    BY <2>1, <2>2, BeginKept
<1>6. CASE DeleteRows(t) \/ InsertReads(t)
  BY <1>6, MoveKept
<1>7. CASE MarkPublishedNoticesRead(t)
  BY <1>7, MarkKept
<1>8. CASE Commit(t)
  <2>1. noticeTx[t].at = "commit" /\ EndTx(t) /\ noticeTx[t].ids \subseteq NoticeIds /\ TxFound(t)
    BY <1>8 DEF Commit, NoticesInv, NoticesShape, TxShape
  <2>2. CASE noticeTx[t].op = "mark"
    <3>1. reads' = reads \cup ({noticeTx[t].reader} \X noticeTx[t].ids) /\ UNCHANGED notices
      BY <1>8, <2>2 DEF Commit
    <3>2. Existing' = Existing
      BY <3>1 DEF Existing
    <3>3. reads' \subseteq NoticeReaders \X NoticeIds /\ MarksExist'
      BY <2>1, <2>2, <3>1, <3>2 DEF TxFound, NoticesInv, NoticesShape, MarksExist, Published, Existing
    <3>4. notices' \in [NoticeIds -> {"unborn", "draft", "published", "deleted"}]
      BY <3>1 DEF NoticesInv, NoticesShape
    <3>5. \A n \in NoticeIds : n \notin {} => notices'[n] = notices[n]
      BY <3>1
    <3>6. \A other \in NoticeTxs : Locks(other) \cap {} = {}
      OBVIOUS
    <3> QED
      BY <2>1, <3>2, <3>3, <3>4, <3>5, <3>6, EndKept
  <2>3. CASE noticeTx[t].op # "mark"
    <3>1. /\ reads' = {mark \in reads : mark[2] \notin noticeTx[t].ids}
          /\ notices' = [n \in NoticeIds |-> IF n \in noticeTx[t].ids \cap Existing THEN "deleted" ELSE notices[n]]
      BY <1>8, <2>3 DEF Commit
    <3>2. Existing' = Existing \ noticeTx[t].ids
      BY <3>1 DEF Existing
    <3>3. reads' \subseteq NoticeReaders \X NoticeIds /\ MarksExist'
      BY <3>1, <3>2 DEF NoticesInv, NoticesShape, MarksExist
    <3>4. notices' \in [NoticeIds -> {"unborn", "draft", "published", "deleted"}]
      BY <3>1 DEF NoticesInv, NoticesShape
    <3>5. noticeTx[t].ids = Locks(t)
      BY <2>1, <2>3 DEF TxFound, Locks, In
    <3>6. \A other \in NoticeTxs : other # t => Locks(other) \cap noticeTx[t].ids = {}
      BY <3>5 DEF NoticesInv, LocksApart
    <3>7. \A n \in NoticeIds : n \notin noticeTx[t].ids => notices'[n] = notices[n]
      BY <3>1
    <3> QED
      BY <2>1, <3>2, <3>3, <3>4, <3>6, <3>7, EndKept
  <2> QED
    BY <2>2, <2>3
<1>9. CASE Rollback(t)
  <2>1. EndTx(t) /\ UNCHANGED <<notices, reads>>
    BY <1>9 DEF Rollback
  <2>2. Existing' = Existing
    BY <2>1 DEF Existing
  <2>3. MarksExist' /\ reads' \subseteq NoticeReaders \X NoticeIds
    BY <2>1, <2>2 DEF NoticesInv, NoticesShape, MarksExist
  <2>4. notices' \in [NoticeIds -> {"unborn", "draft", "published", "deleted"}]
    BY <2>1 DEF NoticesInv, NoticesShape
  <2>5. \A n \in NoticeIds : n \notin {} => notices'[n] = notices[n]
    BY <2>1
  <2>6. \A other \in NoticeTxs : Locks(other) \cap {} = {}
    OBVIOUS
  <2> QED
    BY <2>1, <2>2, <2>3, <2>4, <2>5, <2>6, EndKept
<1> QED
  BY <1>1, <1>2, <1>3, <1>4, <1>5, <1>6, <1>7, <1>8, <1>9

LEMMA NoticesInvAlways == NoticesSpec => []NoticesInv
<1>1. NoticesInv /\ UNCHANGED noticeVars => NoticesInv'
  <2> SUFFICES ASSUME NoticesInv, UNCHANGED noticeVars PROVE NoticesInv'
    OBVIOUS
  <2>1. UNCHANGED <<notices, reads, noticeTx>> /\ Existing' = Existing /\ Published' = Published
    BY DEF noticeVars, Existing, Published
  <2>2. \A t \in NoticeTxs : Locks(t)' = Locks(t) /\ TxFound(t)'
    BY <2>1 DEF NoticesInv, Locks, In, TxFound
  <2> QED
    BY <2>1, <2>2 DEF NoticesInv, NoticesShape, MarksExist, LocksApart
<1> QED
  BY NoticesStart, NoticeStepKeeps, <1>1, PTL DEF NoticesSpec

\* Notices, marks and transactions keep their types.
THEOREM NoticesTypeCorrect == NoticesSpec => []NoticesTypeOK
<1>1. NoticesInv => NoticesTypeOK
  BY DEF NoticesInv, NoticesShape, TxShape, NoticesTypeOK
<1> QED
  BY NoticesInvAlways, <1>1, PTL

\* However marks and deletions meet (notice.go), nobody is among the readers of
\* a notice that is not there.
THEOREM ReadsAlwaysHaveNotices == NoticesSpec => []ReadsHaveNotices
<1>1. NoticesInv => ReadsHaveNotices
  BY DEF NoticesInv, MarksExist, ReadsHaveNotices, SelectNoticeReadUsers
<1> QED
  BY NoticesInvAlways, <1>1, PTL

\* Without a change of the notices every mark stays.
LEMMA MarksStay ==
    ASSUME NoticesInv, [NoticesNext]_noticeVars, UNCHANGED notices
    PROVE  reads \subseteq reads'
<1>1. CASE UNCHANGED noticeVars
  BY <1>1 DEF noticeVars
<1>2. ASSUME NEW t \in NoticeTxs, Commit(t) PROVE reads \subseteq reads'
  <2>1. CASE noticeTx[t].op = "mark"
    BY <1>2, <2>1 DEF Commit
  <2>2. CASE noticeTx[t].op # "mark"
    <3>1. /\ reads' = {mark \in reads : mark[2] \notin noticeTx[t].ids}
          /\ notices' = [n \in NoticeIds |-> IF n \in noticeTx[t].ids \cap Existing THEN "deleted" ELSE notices[n]]
      BY <1>2, <2>2 DEF Commit
    <3>2. \A n \in Existing : n \notin noticeTx[t].ids
      BY <3>1 DEF Existing
    <3> QED
      BY <3>1, <3>2 DEF NoticesInv, MarksExist
  <2> QED
    BY <2>1, <2>2
<1> QED
  BY <1>1, <1>2 DEF NoticesNext, CreateNotice, UpdateNotice, WriteNotice, DeleteReads, DeleteRows,
     MarkPublishedNoticesRead, InsertReads, Rollback

\* The badge of a reader does not grow while notices stay and marks only come.
LEMMA BadgeBounded ==
    ASSUME NoticesInv, UNCHANGED notices, reads \subseteq reads', NEW by \in NoticeReaders
    PROVE  /\ ListNoticeTop(by)'.unread <= ListNoticeTop(by).unread
           /\ ListNoticeTop(by).unread \in Nat /\ ListNoticeTop(by)'.unread \in Nat
<1> DEFINE newest == {p \in Published : Cardinality({q \in Published : q > p}) < TopLimit}
           old == {row \in {<<n, <<by, n>> \in reads>> : n \in newest} : ~row[2]}
           new == {row \in {<<n, <<by, n>> \in reads'>> : n \in newest} : ~row[2]}
<1>1. newest' = newest
  BY DEF Published
<1>2. ListNoticeTop(by).unread = Cardinality(old)
  BY DEF ListNoticeTop, SelectNoticeTop
<1>3. ListNoticeTop(by)'.unread = Cardinality(new)
  BY <1>1 DEF ListNoticeTop, SelectNoticeTop
<1>4. new \subseteq old
  <2> SUFFICES ASSUME NEW row \in new PROVE row \in old
    OBVIOUS
  <2>1. PICK n \in newest : row = <<n, <<by, n>> \in reads'>>
    OBVIOUS
  <2>2. ~ row[2]
    OBVIOUS
  <2>3. row[2] = (<<by, n>> \in reads')
    BY <2>1
  <2>4. (<<by, n>> \in reads') = FALSE
    <3> DEFINE b == row[2]
    <3>1. ~ b /\ b = (<<by, n>> \in reads')
      BY <2>2, <2>3
    <3> HIDE DEF b
    <3>2. ASSUME <<by, n>> \in reads' PROVE FALSE
      <4>1. b = TRUE
        BY <3>1, <3>2
      <4> QED
        BY <3>1, <4>1
    <3> QED
      BY <3>2
  <2>5. (<<by, n>> \in reads) = FALSE
    BY <2>4
  <2>6. row = <<n, <<by, n>> \in reads>>
    BY <2>1, <2>4, <2>5
  <2> QED
    BY <2>2, <2>6
<1>5. IsFiniteSet(old)
  <2>1. IsFiniteSet(newest)
    <3>1. newest \subseteq Existing
      BY DEF Published, Existing
    <3> HIDE DEF newest
    <3> QED
      BY <3>1, FS_Subset DEF NoticesInv, NoticesShape
  <2> DEFINE badges == {<<n, <<by, n>> \in reads>> : n \in newest}
             row == [n \in newest |-> <<n, <<by, n>> \in reads>>]
  <2>2. IsFiniteSet(badges)
    <3>1. row \in Surjection(newest, badges)
      BY Zenon DEF Surjection
    <3> HIDE DEF row, badges
    <3> QED
      BY <2>1, <3>1, FS_Surjection
  <2> QED
    BY <2>2, FS_Subset
<1> HIDE DEF old, new
<1> QED
  BY <1>2, <1>3, <1>4, <1>5, FS_Subset, FS_CardinalityType

\* From the check to the write a notice is neither deleted nor taken back to a
\* draft (repository/notice.go:148), and a badge grows only with the notices.
LEMMA StepMarksPublished ==
    ASSUME NoticesInv, [NoticesNext]_noticeVars
    PROVE  MarkedWhilePublished
<1>1. ASSUME NEW mark \in reads' \ reads PROVE mark[2] \in Published \cap Published'
  <2>1. PICK t \in NoticeTxs : Commit(t) /\ noticeTx[t].op = "mark"
    BY <1>1 DEF NoticesNext, noticeVars, CreateNotice, UpdateNotice, WriteNotice, DeleteReads, DeleteRows,
       MarkPublishedNoticesRead, InsertReads, Rollback, Commit
  <2>2. /\ reads' = reads \cup ({noticeTx[t].reader} \X noticeTx[t].ids) /\ UNCHANGED notices
        /\ noticeTx[t].ids \subseteq Published
    BY <2>1 DEF Commit, NoticesInv, TxFound
  <2> QED
    BY <1>1, <2>2 DEF Published
<1>2. ASSUME NEW by \in NoticeReaders, UNCHANGED notices
      PROVE  ~ (ListNoticeTop(by).unread' > ListNoticeTop(by).unread)
  <2>1. /\ ListNoticeTop(by)'.unread <= ListNoticeTop(by).unread
        /\ ListNoticeTop(by).unread \in Nat /\ ListNoticeTop(by)'.unread \in Nat
    BY <1>2, MarksStay, BadgeBounded
  <2> QED
    BY <2>1
<1> QED
  BY <1>1, <1>2 DEF MarkedWhilePublished

THEOREM MarksAlwaysOnPublished == NoticesSpec => [][MarkedWhilePublished]_noticeVars
<1> QED
  BY NoticesInvAlways, StepMarksPublished, PTL DEF NoticesSpec

-----------------------------------------------------------------------------
(***************************************************************************)
(* Generated files.  A file that is not under its name is in the hands of  *)
(* a request that has moved it away, or among the backups left.  As long   *)
(* as nothing fails, every file that a running request is through with is  *)
(* of the current configuration or in such hands, so when the last request *)
(* ends all are.                                                           *)
(***************************************************************************)
InHand(f) == \E h \in Generators : writing[h].at \in {"retry", "restore"} /\ writing[h].file = f
Littered(f) == \E v \in 1..MaxEdits : <<f, v>> \in litter

\* Whoever has a backup is between moving it away and removing it.
BackupHeld(g) ==
    /\ writing[g].backup # 0 <=> writing[g].at \in {"retry", "restore", "remove"}
    /\ writing[g].at # "idle" => writing[g].edition # 0

\* The backup is removed when the file has a copy elsewhere.
SafeToRemove(g) ==
    writing[g].at = "remove" =>
        disk[writing[g].file] # 0 \/ InHand(writing[g].file) \/ Littered(writing[g].file)

Through(g, f) == f < writing[g].file \/ (f = writing[g].file /\ writing[g].at = "remove")
UpToDate(g) ==
    writing[g].at # "idle" =>
        /\ writing[g].edition = edition
        /\ \A f \in Files : Through(g, f) => disk[f] = edition \/ InHand(f)

WritingInv ==
    /\ FilesTypeOK
    /\ \A g \in Generators : BackupHeld(g) /\ SafeToRemove(g)
    /\ clean => OneEdition /\ \A g \in Generators : UpToDate(g)

LEMMA FilesStart ==
    ASSUME FilesInit
    PROVE  WritingInv
<1> USE GeneratedFilesAssumption DEF FilesInit, NotWriting
<1>1. FilesTypeOK
  BY DEF FilesTypeOK, Files
<1>2. \A g \in Generators : writing[g].at = "idle" /\ writing[g].backup = 0
  OBVIOUS
<1>3. OneEdition
  BY DEF OneEdition
<1> QED
  BY <1>1, <1>2, <1>3 DEF WritingInv, BackupHeld, SafeToRemove, UpToDate

\* What a request is, field by field.
LEMMA WritingFields ==
    ASSUME FilesTypeOK, NEW g \in Generators
    PROVE  /\ writing[g].at \in {"idle", "replace", "back up", "retry", "restore", "remove"}
           /\ writing[g].edition \in 0..MaxEdits /\ writing[g].file \in 1..NumFiles
           /\ writing[g].backup \in 0..MaxEdits
BY DEF FilesTypeOK, Files

WritingShape == [at : {"idle", "replace", "back up", "retry", "restore", "remove"},
                 edition : 0..MaxEdits, file : Files, backup : 0..MaxEdits]

\* A request that has written its file goes on to the next one or ends, and one
\* that failed ends: only its own stage changes.
Ends(w) == w \in WritingShape /\ w.at = "idle" /\ w.backup = 0
GoesOn(w, next) ==
    /\ next \in WritingShape /\ next.at = "replace" /\ next.edition = w.edition /\ next.backup = 0
    /\ w.file < NumFiles /\ next.file = w.file + 1
OnlyStage(g) == writing' \in [Generators -> WritingShape] /\ \A h \in Generators : h # g => writing'[h] = writing[h]

LEMMA EndsNotWriting == Ends(NotWriting)
BY GeneratedFilesAssumption DEF Ends, WritingShape, NotWriting, Files

LEMMA NextFile ==
    ASSUME NEW w \in WritingShape, w.file # NumFiles
    PROVE  GoesOn(w, [w EXCEPT !.at = "replace", !.file = w.file + 1, !.backup = 0])
<1>1. w.file \in 1..NumFiles /\ w.file \in Nat
  <2>1. w.file \in Files
    BY DEF WritingShape
  <2> QED
    BY <2>1, GeneratedFilesAssumption DEF Files
<1>2. w.file < NumFiles /\ w.file + 1 \in Files /\ 0 \in 0..MaxEdits
  BY <1>1, GeneratedFilesAssumption DEF Files
<1>3. [w EXCEPT !.at = "replace", !.file = w.file + 1, !.backup = 0] \in WritingShape
  BY <1>2 DEF WritingShape
<1>4. w.edition = [w EXCEPT !.at = "replace", !.file = w.file + 1, !.backup = 0].edition
      /\ [w EXCEPT !.at = "replace", !.file = w.file + 1, !.backup = 0].at = "replace"
      /\ [w EXCEPT !.at = "replace", !.file = w.file + 1, !.backup = 0].backup = 0
      /\ [w EXCEPT !.at = "replace", !.file = w.file + 1, !.backup = 0].file = w.file + 1
  BY DEF WritingShape
<1> QED
  BY <1>2, <1>3, <1>4 DEF GoesOn

LEMMA WritesNext ==
    ASSUME FilesTypeOK, NEW g \in Generators, Written(g)
    PROVE  OnlyStage(g) /\ (GoesOn(writing[g], writing'[g]) \/ (Ends(writing'[g]) /\ writing[g].file = NumFiles))
<1>1. writing \in [Generators -> WritingShape] /\ writing[g] \in WritingShape
  BY DEF FilesTypeOK, WritingShape
<1>2. CASE writing[g].file = NumFiles
  <2>1. writing' = [writing EXCEPT ![g] = NotWriting]
    BY <1>2 DEF Written
  <2>2. NotWriting \in WritingShape
    BY EndsNotWriting DEF Ends
  <2> QED
    BY <1>1, <1>2, <2>1, <2>2, EndsNotWriting DEF OnlyStage
<1>3. CASE writing[g].file # NumFiles
  <2> DEFINE next == [writing[g] EXCEPT !.at = "replace", !.file = writing[g].file + 1, !.backup = 0]
  <2>1. writing' = [writing EXCEPT ![g] = next]
    BY <1>3 DEF Written
  <2>4. GoesOn(writing[g], next)
    BY <1>1, <1>3, NextFile
  <2> HIDE DEF next
  <2>5. next \in WritingShape
    BY <2>4 DEF GoesOn
  <2> QED
    BY <1>1, <2>1, <2>4, <2>5 DEF OnlyStage
<1> QED
  BY <1>2, <1>3

LEMMA FailsWriting ==
    ASSUME FilesTypeOK, NEW g \in Generators, FailWriting(g)
    PROVE  OnlyStage(g) /\ Ends(writing'[g]) /\ clean' = FALSE
<1>1. writing \in [Generators -> WritingShape] /\ writing' = [writing EXCEPT ![g] = NotWriting]
  BY DEF FilesTypeOK, WritingShape, FailWriting
<1>2. NotWriting \in WritingShape
  BY EndsNotWriting DEF Ends
<1> QED
  BY <1>1, <1>2, EndsNotWriting DEF OnlyStage, FailWriting

\* A request that goes from stage to stage with its file.
Reaches(w, next, at) ==
    next \in WritingShape /\ next.at = at /\ next.edition = w.edition /\ next.file = w.file

LEMMA ReachesStage ==
    ASSUME FilesTypeOK, NEW g \in Generators, NEW at \in {"back up", "restore", "remove"},
           writing' = [writing EXCEPT ![g].at = at]
    PROVE  OnlyStage(g) /\ Reaches(writing[g], writing'[g], at) /\ writing'[g].backup = writing[g].backup
BY DEF FilesTypeOK, WritingShape, OnlyStage, Reaches

\* Nothing but the file changes on disk.
DiskBut(f) == disk' \in [Files -> 0..MaxEdits] /\ \A e \in Files : e # f => disk'[e] = disk[e]

LEMMA FieldsOf ==
    ASSUME FilesTypeOK, NEW g \in Generators
    PROVE  /\ writing[g].at \in {"idle", "replace", "back up", "retry", "restore", "remove"}
           /\ writing[g].edition \in 0..MaxEdits /\ writing[g].file \in Files
           /\ writing[g].backup \in 0..MaxEdits
BY DEF FilesTypeOK

-----------------------------------------------------------------------------
\* A request takes the name with a file of its edition, and goes on or ends.
LEMMA FileReplaceKeeps ==
    ASSUME WritingInv, NEW g \in Generators, Replace(g)
    PROVE  WritingInv' /\ CopyKept
<1> DEFINE f == writing[g].file
           e == writing[g].edition
<1>1. FilesTypeOK /\ writing[g].at = "replace" /\ writing[g].backup = 0 /\ e \in 1..MaxEdits /\ f \in Files
      /\ edition' = edition /\ litter' = litter /\ stops' = stops /\ disk \in [Files -> 0..MaxEdits]
  <2>1. e \in 0..MaxEdits /\ e # 0 /\ writing[g].backup = 0 /\ f \in Files
    BY FieldsOf DEF WritingInv, BackupHeld, Replace
  <2>2. e \in 1..MaxEdits
    BY <2>1, GeneratedFilesAssumption
  <2> QED
    BY <2>1, <2>2 DEF WritingInv, Replace, FilesTypeOK
<1>2. ASSUME OnlyStage(g), FilesTypeOK', DiskBut(f), disk'[f] \in {disk[f], e},
             BackupHeld(g)', writing'[g].at \notin {"retry", "restore", "remove"},
             clean' => clean /\ OneEdition' /\ UpToDate(g)'
      PROVE  WritingInv' /\ CopyKept
  <2>1. \A h \in Generators : writing[h].at \in {"retry", "restore", "remove"} => h # g /\ writing'[h] = writing[h]
    BY <1>1, <1>2 DEF OnlyStage
  <2>2. \A i \in Files : InHand(i)' <=> InHand(i)
    BY <1>2, <2>1 DEF InHand, OnlyStage
  <2>3. \A i \in Files : disk[i] # 0 => disk'[i] # 0
    BY <1>1, <1>2 DEF DiskBut
  <2>4. CopyKept
    <3>1. \A i : (\E h \in Generators : writing[h].file = i /\ writing[h].backup # 0) =>
                 (\E h \in Generators : writing[h].file = i /\ writing[h].backup # 0)'
      BY <1>1, <1>2 DEF OnlyStage
    <3> QED
      BY <1>1, <2>3, <3>1 DEF CopyKept, HasCopy
  <2>5. ASSUME NEW h \in Generators, h # g
        PROVE  BackupHeld(h)' /\ SafeToRemove(h)' /\ (clean' => UpToDate(h)')
    <3>1. writing'[h] = writing[h] /\ writing[h].file \in Files
      BY <1>1, <1>2, <2>5, FieldsOf DEF OnlyStage
    <3>2. BackupHeld(h)'
      BY <3>1 DEF WritingInv, BackupHeld
    <3>3. SafeToRemove(h)'
      BY <1>1, <2>2, <2>3, <3>1 DEF WritingInv, SafeToRemove, Littered
    <3>4. ASSUME clean' PROVE UpToDate(h)'
      <4>1. UpToDate(h) /\ UpToDate(g) /\ e = edition
        BY <1>1, <1>2, <3>4 DEF WritingInv, UpToDate
      <4>2. \A i \in Files : disk[i] = edition => disk'[i] = edition
        BY <1>1, <1>2, <4>1 DEF DiskBut
      <4> QED
        BY <1>1, <2>2, <3>1, <4>1, <4>2 DEF UpToDate, Through
    <3> QED
      BY <3>2, <3>3, <3>4
  <2>6. SafeToRemove(g)'
    BY <1>2 DEF SafeToRemove
  <2> QED
    BY <1>2, <2>4, <2>5, <2>6 DEF WritingInv
<1>3. CASE disk' = [disk EXCEPT ![f] = e] /\ Written(g) /\ UNCHANGED clean
  <2>1. OnlyStage(g) /\ (GoesOn(writing[g], writing'[g]) \/ (Ends(writing'[g]) /\ f = NumFiles))
    BY <1>1, <1>3, WritesNext
  <2>2. FilesTypeOK' /\ DiskBut(f) /\ disk'[f] = e
    BY <1>1, <1>3, <2>1 DEF FilesTypeOK, OnlyStage, WritingShape, DiskBut
  <2>3. BackupHeld(g)' /\ writing'[g].at \in {"idle", "replace"}
    BY <1>1, <2>1 DEF BackupHeld, GoesOn, Ends
  <2>4. ASSUME clean' PROVE clean /\ OneEdition' /\ UpToDate(g)'
    <3>1. clean /\ UpToDate(g) /\ e = edition
      BY <1>1, <1>3, <2>4 DEF WritingInv, UpToDate
    <3>2. \A i \in Files : i < f => disk'[i] = edition \/ InHand(i)
      BY <1>1, <2>2, <3>1 DEF DiskBut, UpToDate, Through
    <3>3. \A i \in Files : InHand(i) => InHand(i)'
      BY <1>1, <2>1 DEF InHand, OnlyStage
    <3>4. \A i \in Files : i <= f => disk'[i] = edition \/ InHand(i)'
      BY <1>1, <2>2, <3>1, <3>2, <3>3 DEF Files
    <3>5. UpToDate(g)'
      <4>1. CASE Ends(writing'[g])
        BY <4>1 DEF UpToDate, Ends
      <4>2. CASE GoesOn(writing[g], writing'[g])
        BY <1>1, <3>1, <3>4, <4>2 DEF UpToDate, GoesOn, Through, Files
      <4> QED
        BY <2>1, <4>1, <4>2
    <3>6. OneEdition'
      <4>1. SUFFICES ASSUME Active' = {} PROVE \A i \in Files : disk'[i] = edition
        BY DEF OneEdition
      <4>2. \A h \in Generators : writing'[h].at = "idle"
        BY <4>1 DEF Active
      <4>3. f = NumFiles
        BY <2>1, <4>2 DEF GoesOn
      <4>4. \A i \in Files : ~ InHand(i)'
        BY <4>2 DEF InHand
      <4> QED
        BY <3>4, <4>3, <4>4 DEF Files
    <3> QED
      BY <3>1, <3>5, <3>6
  <2> QED
    BY <1>2, <2>1, <2>2, <2>3, <2>4
<1>4. CASE FailWriting(g) /\ UNCHANGED disk
  <2>1. OnlyStage(g) /\ Ends(writing'[g]) /\ clean' = FALSE
    BY <1>1, <1>4, FailsWriting
  <2>2. FilesTypeOK' /\ DiskBut(f)
    BY <1>1, <1>4, <2>1 DEF FilesTypeOK, OnlyStage, WritingShape, DiskBut
  <2>3. BackupHeld(g)' /\ writing'[g].at = "idle"
    BY <2>1 DEF BackupHeld, Ends
  <2> QED
    BY <1>2, <1>4, <2>1, <2>2, <2>3
<1>5. CASE writing' = [writing EXCEPT ![g].at = "back up"] /\ UNCHANGED <<disk, clean>>
  <2>1. OnlyStage(g) /\ Reaches(writing[g], writing'[g], "back up") /\ writing'[g].backup = writing[g].backup
    BY <1>1, <1>5, ReachesStage
  <2>2. FilesTypeOK' /\ DiskBut(f)
    <3>1. clean' \in BOOLEAN
      BY <1>1, <1>5, Zenon DEF FilesTypeOK
    <3> QED
      BY <1>1, <1>5, <2>1, <3>1 DEF FilesTypeOK, OnlyStage, WritingShape, DiskBut
  <2>3. BackupHeld(g)' /\ writing'[g].at = "back up"
    <3>1. writing'[g].at = "back up" /\ writing'[g].backup = 0 /\ writing'[g].edition # 0
      <4>1. e # 0
        BY <1>1, GeneratedFilesAssumption
      <4> QED
        BY <1>1, <2>1, <4>1 DEF Reaches
    <3>2. writing'[g].at \notin {"retry", "restore", "remove"}
      BY <3>1
    <3> QED
      BY <3>1, <3>2 DEF BackupHeld
  <2>4. ASSUME clean' PROVE clean /\ OneEdition' /\ UpToDate(g)'
    <3>1. clean /\ UpToDate(g)
      BY <1>5, <2>4 DEF WritingInv
    <3>2. OneEdition'
      BY <2>3 DEF OneEdition, Active
    <3>3. \A i \in Files : InHand(i) => InHand(i)'
      BY <1>1, <2>1 DEF InHand, OnlyStage
    <3> QED
      BY <1>1, <1>5, <2>1, <3>1, <3>2, <3>3 DEF UpToDate, Reaches, Through
  <2> QED
    BY <1>2, <1>5, <2>1, <2>2, <2>3, <2>4
<1> QED
  BY <1>3, <1>4, <1>5 DEF Replace

-----------------------------------------------------------------------------
\* A file has a copy under its name, in the hands of a request, or among the
\* backups left: a backup that is about to be removed is one too many.
Copied(i) == disk[i] # 0 \/ InHand(i) \/ Littered(i)
Current(i) == disk[i] = edition \/ InHand(i)
CopiesStay == \A i \in Files : Copied(i) => Copied(i)'
CurrentStay == \A i \in Files : Current(i) => Current(i)'

LEMMA CopiedIsCopy ==
    WritingInv => \A i \in Files : HasCopy(i) <=> Copied(i)
<1> SUFFICES ASSUME WritingInv, NEW i \in Files
             PROVE  HasCopy(i) <=> Copied(i)
  OBVIOUS
<1>1. ASSUME NEW h \in Generators, writing[h].file = i, writing[h].backup # 0
      PROVE  Copied(i)
  <2>1. writing[h].at \in {"retry", "restore", "remove"} /\ SafeToRemove(h)
    BY <1>1 DEF WritingInv, BackupHeld
  <2> QED
    BY <1>1, <2>1 DEF Copied, InHand, SafeToRemove
<1>2. ASSUME InHand(i) PROVE HasCopy(i)
  <2>1. PICK h \in Generators : writing[h].at \in {"retry", "restore"} /\ writing[h].file = i
    BY <1>2 DEF InHand
  <2>2. writing[h].backup # 0
    BY <2>1 DEF WritingInv, BackupHeld
  <2> QED
    BY <2>1, <2>2 DEF HasCopy
<1> QED
  BY <1>1, <1>2 DEF HasCopy, Copied, Littered

\* What a step of one request does to the others and, with what it does to itself,
\* to all.
LEMMA FileStageKeeps ==
    ASSUME WritingInv, NEW g \in Generators, OnlyStage(g), FilesTypeOK', edition' = edition, CopiesStay,
           BackupHeld(g)', SafeToRemove(g)',
           clean' => clean /\ CurrentStay /\ OneEdition' /\ UpToDate(g)'
    PROVE  WritingInv' /\ CopyKept
<1>1. ASSUME NEW h \in Generators, h # g
      PROVE  BackupHeld(h)' /\ SafeToRemove(h)' /\ (clean' => UpToDate(h)')
  <2>1. writing'[h] = writing[h] /\ writing[h].file \in Files
    BY <1>1, FieldsOf DEF OnlyStage, WritingInv
  <2>2. BackupHeld(h)'
    BY <2>1 DEF WritingInv, BackupHeld
  <2>3. SafeToRemove(h)'
    BY <2>1 DEF WritingInv, SafeToRemove, CopiesStay, Copied
  <2>4. ASSUME clean' PROVE UpToDate(h)'
    <3>1. UpToDate(h) /\ CurrentStay
      BY <2>4 DEF WritingInv
    <3> QED
      BY <2>1, <3>1 DEF UpToDate, Through, CurrentStay, Current
  <2> QED
    BY <2>2, <2>3, <2>4
<1>2. WritingInv'
  BY <1>1 DEF WritingInv
<1>3. (\A i \in Files : HasCopy(i) <=> Copied(i))'
  BY <1>2, CopiedIsCopy, PTL
<1> QED
  BY <1>2, <1>3, CopiedIsCopy DEF CopyKept, CopiesStay

LEMMA BackUpKeeps ==
    ASSUME WritingInv, NEW g \in Generators, BackUp(g)
    PROVE  WritingInv' /\ CopyKept
<1> PICK f \in Files : f = writing[g].file
  BY FieldsOf DEF WritingInv
<1>1. FilesTypeOK /\ writing[g].at = "back up" /\ writing[g].backup = 0 /\ writing[g].edition # 0 /\ f \in Files
      /\ edition' = edition /\ litter' = litter /\ stops' = stops /\ disk \in [Files -> 0..MaxEdits]
  BY FieldsOf DEF WritingInv, BackupHeld, BackUp, FilesTypeOK
<1>2. CASE disk[f] # 0 /\ MoveAway(g) /\ UNCHANGED clean
  <2>1. /\ OnlyStage(g) /\ writing'[g].at = "retry" /\ writing'[g].backup = disk[f]
        /\ writing'[g].edition = writing[g].edition /\ writing'[g].file = f
    BY <1>1, <1>2 DEF MoveAway, FilesTypeOK, WritingShape, OnlyStage
  <2>2. disk' = [disk EXCEPT ![f] = 0]
    BY <1>2 DEF MoveAway
  <2>3. FilesTypeOK'
    <3>1. clean' \in BOOLEAN
      BY <1>1, <1>2, Zenon DEF FilesTypeOK
    <3> QED
      BY <1>1, <2>1, <2>2, <3>1, GeneratedFilesAssumption DEF FilesTypeOK, OnlyStage, WritingShape
  <2>4. InHand(f)' /\ \A i \in Files : InHand(i) => InHand(i)'
    BY <1>1, <2>1 DEF InHand, OnlyStage
  <2>5. CopiesStay /\ CurrentStay
    BY <1>1, <2>2, <2>4 DEF CopiesStay, CurrentStay, Copied, Current, Littered
  <2>6. BackupHeld(g)' /\ SafeToRemove(g)'
    BY <1>1, <1>2, <2>1 DEF BackupHeld, SafeToRemove
  <2>7. ASSUME clean' PROVE clean /\ OneEdition' /\ UpToDate(g)'
    <3>1. clean /\ UpToDate(g)
      BY <1>2, <2>7 DEF WritingInv
    <3>2. OneEdition'
      BY <2>1 DEF OneEdition, Active
    <3> QED
      BY <1>1, <2>1, <2>5, <3>1, <3>2 DEF UpToDate, Through, CurrentStay, Current
  <2> QED
    BY <1>1, <2>1, <2>3, <2>5, <2>6, <2>7, FileStageKeeps
<1>3. CASE FailWriting(g) /\ UNCHANGED disk
  <2>1. OnlyStage(g) /\ Ends(writing'[g]) /\ clean' = FALSE
    BY <1>1, <1>3, FailsWriting
  <2>2. FilesTypeOK' /\ BackupHeld(g)' /\ SafeToRemove(g)'
    BY <1>1, <1>3, <2>1 DEF FilesTypeOK, OnlyStage, WritingShape, BackupHeld, SafeToRemove, Ends
  <2>3. CopiesStay
    BY <1>1, <1>3, <2>1 DEF CopiesStay, Copied, InHand, Littered, OnlyStage
  <2> QED
    BY <1>1, <2>1, <2>2, <2>3, FileStageKeeps
<1> QED
  BY <1>2, <1>3 DEF BackUp

LEMMA RetryKeeps ==
    ASSUME WritingInv, NEW g \in Generators, RetryReplace(g)
    PROVE  WritingInv' /\ CopyKept
<1> PICK f \in Files, e \in 0..MaxEdits : f = writing[g].file /\ e = writing[g].edition
  BY FieldsOf DEF WritingInv
<1>1. FilesTypeOK /\ writing[g].at = "retry" /\ writing[g].backup # 0 /\ e # 0 /\ e \in 0..MaxEdits /\ f \in Files
      /\ edition' = edition /\ litter' = litter /\ stops' = stops /\ disk \in [Files -> 0..MaxEdits]
  BY FieldsOf DEF WritingInv, BackupHeld, RetryReplace, FilesTypeOK
<1>2. clean' \in BOOLEAN /\ (clean' => clean)
  <2>1. clean' = clean /\ clean \in BOOLEAN
    BY <1>1 DEF RetryReplace, FilesTypeOK
  <2> QED
    BY <2>1, Zenon
<1>3. clean => UpToDate(g)
  BY DEF WritingInv
<1>4. CASE disk' = [disk EXCEPT ![f] = e] /\ writing' = [writing EXCEPT ![g].at = "remove"]
  <2>1. OnlyStage(g) /\ Reaches(writing[g], writing'[g], "remove") /\ writing'[g].backup = writing[g].backup
    BY <1>1, <1>4, ReachesStage
  <2>2. FilesTypeOK'
    BY <1>1, <1>2, <1>4, <2>1 DEF FilesTypeOK, OnlyStage, WritingShape
  <2>3. \A i \in Files : i # f /\ InHand(i) => InHand(i)'
    BY <1>1, <2>1 DEF InHand, OnlyStage
  <2>4. disk'[f] = e /\ \A i \in Files : i # f => disk'[i] = disk[i]
    BY <1>1, <1>4
  <2>5. CopiesStay
    BY <1>1, <2>3, <2>4 DEF CopiesStay, Copied, Littered
  <2>6. BackupHeld(g)' /\ SafeToRemove(g)'
    BY <1>1, <2>1, <2>4 DEF BackupHeld, SafeToRemove, Reaches
  <2>7. ASSUME clean' PROVE clean /\ CurrentStay /\ OneEdition' /\ UpToDate(g)'
    <3>1. clean /\ UpToDate(g) /\ e = edition
      BY <1>1, <1>2, <1>3, <2>7 DEF UpToDate
    <3>2. OneEdition'
      BY <2>1 DEF OneEdition, Active, Reaches
    <3>3. CurrentStay
      BY <1>1, <2>3, <2>4, <3>1 DEF CurrentStay, Current
    <3>4. UpToDate(g)'
      BY <1>1, <2>1, <2>4, <3>1, <3>3 DEF UpToDate, Through, CurrentStay, Current, Reaches
    <3> QED
      BY <3>1, <3>2, <3>3, <3>4
  <2> QED
    BY <1>1, <2>1, <2>2, <2>5, <2>6, <2>7, FileStageKeeps
<1>5. CASE writing' = [writing EXCEPT ![g].at = "restore"] /\ UNCHANGED disk
  <2>1. OnlyStage(g) /\ Reaches(writing[g], writing'[g], "restore") /\ writing'[g].backup = writing[g].backup
    BY <1>1, <1>5, ReachesStage
  <2>2. FilesTypeOK'
    BY <1>1, <1>2, <1>5, <2>1 DEF FilesTypeOK, OnlyStage, WritingShape
  <2>3. \A i \in Files : InHand(i) => InHand(i)'
    <3>1. InHand(f)'
      BY <1>1, <2>1 DEF InHand, Reaches
    <3> QED
      BY <1>1, <2>1, <3>1 DEF InHand, OnlyStage
  <2>4. CopiesStay /\ CurrentStay
    BY <1>1, <1>5, <2>3 DEF CopiesStay, CurrentStay, Copied, Current, Littered
  <2>5. BackupHeld(g)' /\ SafeToRemove(g)'
    BY <1>1, <2>1 DEF BackupHeld, SafeToRemove, Reaches
  <2>6. ASSUME clean' PROVE clean /\ OneEdition' /\ UpToDate(g)'
    <3>1. clean /\ UpToDate(g)
      BY <1>2, <1>3, <2>6
    <3>2. OneEdition'
      BY <2>1 DEF OneEdition, Active, Reaches
    <3> QED
      BY <1>1, <2>1, <2>4, <3>1, <3>2 DEF UpToDate, Through, CurrentStay, Current, Reaches
  <2> QED
    BY <1>1, <2>1, <2>2, <2>4, <2>5, <2>6, FileStageKeeps
<1> QED
  BY <1>4, <1>5 DEF RetryReplace

LEMMA RestoreKeeps ==
    ASSUME WritingInv, NEW g \in Generators, Restore(g)
    PROVE  WritingInv' /\ CopyKept
<1> PICK f \in Files, b \in 0..MaxEdits : f = writing[g].file /\ b = writing[g].backup
  BY FieldsOf DEF WritingInv
<1>1. FilesTypeOK /\ writing[g].at = "restore" /\ b # 0 /\ b \in 0..MaxEdits /\ f \in Files
      /\ edition' = edition /\ stops' = stops /\ disk \in [Files -> 0..MaxEdits]
  BY FieldsOf DEF WritingInv, BackupHeld, Restore, FilesTypeOK
<1>2. OnlyStage(g) /\ Ends(writing'[g]) /\ clean' = FALSE
  BY <1>1, FailsWriting DEF Restore
<1>3. b \in 1..MaxEdits
  BY <1>1, GeneratedFilesAssumption
<1>4. \A i \in Files : i # f /\ InHand(i) => InHand(i)'
  BY <1>2 DEF InHand, OnlyStage
<1>5. BackupHeld(g)' /\ SafeToRemove(g)'
  BY <1>2 DEF BackupHeld, SafeToRemove, Ends
<1>6. CASE disk' = [disk EXCEPT ![f] = b] /\ UNCHANGED litter
  <2>1. FilesTypeOK'
    BY <1>1, <1>2, <1>6 DEF FilesTypeOK, OnlyStage, WritingShape
  <2>2. CopiesStay
    BY <1>1, <1>4, <1>6 DEF CopiesStay, Copied, Littered
  <2> QED
    BY <1>1, <1>2, <1>5, <2>1, <2>2, FileStageKeeps
<1>7. CASE litter' = litter \cup {<<f, b>>} /\ UNCHANGED disk
  <2>1. FilesTypeOK'
    <3>1. litter' \subseteq Files \X (1..MaxEdits)
      <4>1. litter \subseteq Files \X (1..MaxEdits)
        BY <1>1 DEF FilesTypeOK
      <4>2. <<f, b>> \in Files \X (1..MaxEdits)
        BY <1>3
      <4> QED
        BY <1>1, <1>7, <4>1, <4>2
    <3> QED
      BY <1>1, <1>2, <1>7, <3>1 DEF FilesTypeOK, OnlyStage, WritingShape
  <2>2. Littered(f)' /\ \A i \in Files : Littered(i) => Littered(i)'
    BY <1>3, <1>7 DEF Littered
  <2>3. CopiesStay
    BY <1>1, <1>4, <1>7, <2>2 DEF CopiesStay, Copied
  <2> QED
    BY <1>1, <1>2, <1>5, <2>1, <2>3, FileStageKeeps
<1> QED
  BY <1>6, <1>7 DEF Restore

LEMMA RemoveKeeps ==
    ASSUME WritingInv, NEW g \in Generators, RemoveBackup(g)
    PROVE  WritingInv' /\ CopyKept
<1> PICK f \in Files, b \in 0..MaxEdits : f = writing[g].file /\ b = writing[g].backup
  BY FieldsOf DEF WritingInv
<1>1. FilesTypeOK /\ writing[g].at = "remove" /\ b # 0 /\ b \in 0..MaxEdits /\ f \in Files
      /\ edition' = edition /\ disk' = disk /\ stops' = stops
      /\ writing[g].edition # 0
  BY FieldsOf DEF WritingInv, BackupHeld, RemoveBackup
<1>2. ASSUME OnlyStage(g) PROVE \A i \in Files : InHand(i) => InHand(i)'
  BY <1>1, <1>2 DEF InHand, OnlyStage
<1>3. CASE Written(g) /\ UNCHANGED <<litter, clean>>
  <2>1. OnlyStage(g) /\ (GoesOn(writing[g], writing'[g]) \/ (Ends(writing'[g]) /\ f = NumFiles))
    BY <1>1, <1>3, WritesNext
  <2>2. FilesTypeOK'
    <3>1. clean' \in BOOLEAN
      BY <1>1, <1>3, Zenon DEF FilesTypeOK
    <3> QED
      BY <1>1, <1>3, <2>1, <3>1 DEF FilesTypeOK, OnlyStage, WritingShape
  <2>3. CopiesStay /\ CurrentStay
    BY <1>1, <1>2, <1>3, <2>1 DEF CopiesStay, CurrentStay, Copied, Current, Littered
  <2>4. BackupHeld(g)' /\ SafeToRemove(g)'
    BY <1>1, <2>1 DEF BackupHeld, SafeToRemove, GoesOn, Ends
  <2>5. ASSUME clean' PROVE clean /\ OneEdition' /\ UpToDate(g)'
    <3>1. clean /\ UpToDate(g) /\ writing[g].edition = edition
      BY <1>1, <1>3, <2>5 DEF WritingInv, UpToDate
    <3>2. \A i \in Files : i <= f => Current(i)'
      BY <1>1, <2>3, <3>1 DEF UpToDate, Through, CurrentStay, Current, Files
    <3>3. UpToDate(g)'
      <4>1. CASE Ends(writing'[g])
        BY <4>1 DEF UpToDate, Ends
      <4>2. CASE GoesOn(writing[g], writing'[g])
        BY <1>1, <3>1, <3>2, <4>2 DEF UpToDate, GoesOn, Through, Files, Current
      <4> QED
        BY <2>1, <4>1, <4>2
    <3>4. OneEdition'
      <4>1. SUFFICES ASSUME Active' = {} PROVE \A i \in Files : disk'[i] = edition
        BY DEF OneEdition
      <4>2. \A h \in Generators : writing'[h].at = "idle"
        BY <4>1 DEF Active
      <4>3. f = NumFiles
        BY <2>1, <4>2 DEF GoesOn
      <4>4. \A i \in Files : ~ InHand(i)'
        BY <4>2 DEF InHand
      <4> QED
        BY <1>1, <3>2, <4>3, <4>4 DEF Files, Current
    <3> QED
      BY <3>1, <3>3, <3>4
  <2> QED
    BY <1>1, <2>1, <2>2, <2>3, <2>4, <2>5, FileStageKeeps
<1>4. CASE litter' = litter \cup {<<f, b>>} /\ FailWriting(g)
  <2>1. OnlyStage(g) /\ Ends(writing'[g]) /\ clean' = FALSE
    BY <1>1, <1>4, FailsWriting
  <2>2. b \in 1..MaxEdits
    BY <1>1, GeneratedFilesAssumption
  <2>3. FilesTypeOK'
    <3>1. litter' \subseteq Files \X (1..MaxEdits)
      <4>1. litter \subseteq Files \X (1..MaxEdits)
        BY <1>1 DEF FilesTypeOK
      <4>2. <<f, b>> \in Files \X (1..MaxEdits)
        BY <2>2
      <4> QED
        BY <1>1, <1>4, <4>1, <4>2
    <3> QED
      BY <1>1, <1>4, <2>1, <3>1 DEF FilesTypeOK, OnlyStage, WritingShape
  <2>4. \A i \in Files : Littered(i) => Littered(i)'
    BY <1>4 DEF Littered
  <2>5. CopiesStay
    BY <1>1, <1>2, <2>1, <2>4 DEF CopiesStay, Copied
  <2>6. BackupHeld(g)' /\ SafeToRemove(g)'
    BY <2>1 DEF BackupHeld, SafeToRemove, Ends
  <2> QED
    BY <1>1, <2>1, <2>3, <2>5, <2>6, FileStageKeeps
<1> QED
  BY <1>3, <1>4 DEF RemoveBackup

LEMMA GenerateKeeps ==
    ASSUME WritingInv, NEW g \in Generators, Generate(g)
    PROVE  WritingInv' /\ CopyKept
<1>1. /\ FilesTypeOK /\ writing[g] = NotWriting /\ clean' = (clean \/ Active = {})
      /\ writing' = [writing EXCEPT ![g].at = "replace", ![g].edition = edition]
      /\ edition' = edition /\ disk' = disk /\ litter' = litter /\ stops' = stops
      /\ edition \in 1..MaxEdits
  BY DEF WritingInv, Generate, FilesTypeOK
<1>2. /\ OnlyStage(g) /\ writing'[g].at = "replace" /\ writing'[g].edition = edition
      /\ writing'[g].file = 1 /\ writing'[g].backup = 0
  <2>1. writing[g].file = 1 /\ writing[g].backup = 0
    BY <1>1 DEF NotWriting
  <2>2. writing \in [Generators -> WritingShape] /\ edition \in 0..MaxEdits
    <3>1. edition \in 0..MaxEdits
      BY <1>1, GeneratedFilesAssumption
    <3> QED
      BY <1>1, <3>1 DEF FilesTypeOK, WritingShape
  <2>3. OnlyStage(g)
    BY <1>1, <2>2 DEF WritingShape, OnlyStage
  <2> QED
    BY <1>1, <2>1, <2>2, <2>3 DEF WritingShape
<1>3. FilesTypeOK'
  <2>1. clean' \in BOOLEAN
    BY <1>1, Zenon
  <2> QED
    BY <1>1, <1>2, <2>1 DEF FilesTypeOK, WritingShape, OnlyStage
<1>4. writing[g].at = "idle"
  BY <1>1 DEF NotWriting
<1>5. \A i \in Files : InHand(i) <=> InHand(i)'
  BY <1>2, <1>4 DEF InHand, OnlyStage
<1>6. CopiesStay /\ CurrentStay
  BY <1>1, <1>5 DEF CopiesStay, CurrentStay, Copied, Current, Littered
<1>7. BackupHeld(g)' /\ SafeToRemove(g)'
  BY <1>1, <1>2, GeneratedFilesAssumption DEF BackupHeld, SafeToRemove
<1>8. OneEdition' /\ UpToDate(g)'
  <2>1. \A i \in Files : ~ (i < 1)
    BY DEF Files
  <2> QED
    BY <1>1, <1>2, <2>1 DEF OneEdition, Active, UpToDate, Through
<1>9. CASE clean
  BY <1>1, <1>2, <1>3, <1>6, <1>7, <1>8, <1>9, FileStageKeeps
<1>10. CASE ~ clean
  <2>1. CASE clean'
    <3>1. \A h \in Generators : writing[h].at = "idle"
      BY <1>1, <1>10, <2>1 DEF Active
    <3>2. ASSUME NEW h \in Generators, h # g
          PROVE  BackupHeld(h)' /\ SafeToRemove(h)' /\ UpToDate(h)'
      <4>1. writing'[h] = writing[h] /\ writing[h].at = "idle" /\ BackupHeld(h)
        BY <1>2, <3>1, <3>2 DEF OnlyStage, WritingInv
      <4> QED
        BY <4>1 DEF BackupHeld, SafeToRemove, UpToDate
    <3>3. WritingInv'
      BY <1>3, <1>7, <1>8, <3>2 DEF WritingInv
    <3>4. (\A i \in Files : HasCopy(i) <=> Copied(i))'
      BY <3>3, CopiedIsCopy, PTL
    <3> QED
      BY <1>6, <3>3, <3>4, CopiedIsCopy DEF CopyKept, CopiesStay
  <2>2. CASE ~ clean'
    BY <1>1, <1>2, <1>3, <1>6, <1>7, <2>2, FileStageKeeps
  <2> QED
    BY <2>1, <2>2
<1> QED
  BY <1>9, <1>10

LEMMA FileStopKeeps ==
    ASSUME WritingInv, Stop
    PROVE  WritingInv' /\ CopyKept
<1>1. /\ FilesTypeOK /\ edition' = edition /\ disk' = disk /\ stops' = stops + 1 /\ stops < MaxStops
      /\ writing' = [g \in Generators |-> NotWriting] /\ clean' = FALSE
      /\ litter' = litter \cup {<<writing[g].file, writing[g].backup>> :
                                  g \in {h \in Active : writing[h].backup # 0}}
  BY DEF WritingInv, Stop
<1>2. \A g \in Generators : Ends(writing'[g])
  BY <1>1, EndsNotWriting
<1>3. \A g \in Generators : BackupHeld(g)' /\ SafeToRemove(g)'
  BY <1>2 DEF Ends, BackupHeld, SafeToRemove
<1>4. ASSUME NEW g \in Generators, writing[g].backup # 0
      PROVE  <<writing[g].file, writing[g].backup>> \in litter' /\ writing[g].backup \in 1..MaxEdits
  <2>1. BackupHeld(g) /\ writing[g].backup \in 0..MaxEdits
    BY FieldsOf DEF WritingInv
  <2>2. g \in {h \in Active : writing[h].backup # 0}
    BY <1>4, <2>1 DEF BackupHeld, Active
  <2>3. writing[g].backup \in 1..MaxEdits
    BY <1>4, <2>1, GeneratedFilesAssumption
  <2> QED
    BY <1>1, <2>2, <2>3
<1>5. FilesTypeOK'
  <2>1. litter' \subseteq Files \X (1..MaxEdits)
    <3>1. \A g \in {h \in Active : writing[h].backup # 0} :
             <<writing[g].file, writing[g].backup>> \in Files \X (1..MaxEdits)
      BY <1>1, <1>4, FieldsOf DEF Active
    <3> QED
      BY <1>1, <3>1 DEF FilesTypeOK
  <2>2. writing' \in [Generators -> WritingShape]
    BY <1>1, EndsNotWriting DEF Ends
  <2>3. stops' \in 0..MaxStops
    <3>1. stops \in 0..MaxStops
      BY <1>1 DEF FilesTypeOK
    <3> QED
      BY <1>1, <3>1, GeneratedFilesAssumption
  <2> QED
    BY <1>1, <2>1, <2>2, <2>3 DEF FilesTypeOK, WritingShape
<1>6. WritingInv'
  BY <1>1, <1>3, <1>5 DEF WritingInv
<1>7. CopyKept
  <2>1. litter \subseteq litter'
    BY <1>1
  <2> QED
    BY <1>1, <1>4, <2>1 DEF CopyKept, HasCopy
<1> QED
  BY <1>6, <1>7

LEMMA FilesStep ==
    ASSUME WritingInv, [FilesNext]_fileVars
    PROVE  WritingInv' /\ CopyKept
<1>1. CASE UNCHANGED fileVars
  <2>1. WritingInv'
    <3>1. FilesTypeOK'
      BY <1>1, Zenon DEF fileVars, WritingInv, FilesTypeOK
    <3>2. \A g \in Generators : BackupHeld(g)' /\ SafeToRemove(g)'
      BY <1>1 DEF fileVars, WritingInv, BackupHeld, SafeToRemove, InHand, Littered
    <3>3. \A g \in Generators : UpToDate(g) => UpToDate(g)'
      BY <1>1 DEF fileVars, UpToDate, InHand, Through
    <3>4. OneEdition => OneEdition'
      BY <1>1 DEF fileVars, OneEdition, Active
    <3>5. clean' = clean
      BY <1>1 DEF fileVars
    <3> QED
      BY <3>1, <3>2, <3>3, <3>4, <3>5 DEF WritingInv
  <2> QED
    BY <1>1, <2>1 DEF fileVars, CopyKept, HasCopy
<1>2. CASE ChangeConfig
  <2>1. /\ FilesTypeOK /\ edition' = edition + 1 /\ edition < MaxEdits
        /\ disk' = disk /\ litter' = litter /\ writing' = writing /\ clean' = clean /\ stops' = stops
        /\ \A g \in Generators : writing[g].at = "idle"
    BY <1>2 DEF WritingInv, ChangeConfig, Active
  <2>2. FilesTypeOK'
    <3>1. clean' \in BOOLEAN
      BY <2>1, Zenon DEF FilesTypeOK
    <3>2. edition' \in 1..MaxEdits
      <4>1. edition \in 1..MaxEdits
        BY <2>1 DEF FilesTypeOK
      <4> QED
        BY <2>1, <4>1, GeneratedFilesAssumption
    <3> QED
      BY <2>1, <3>1, <3>2 DEF FilesTypeOK
  <2>3. \A g \in Generators : BackupHeld(g)' /\ SafeToRemove(g)' /\ UpToDate(g)'
    BY <2>1 DEF WritingInv, BackupHeld, SafeToRemove, UpToDate
  <2>4. clean' => OneEdition'
    BY <2>1 DEF WritingInv, OneEdition, Active
  <2> QED
    BY <2>1, <2>2, <2>3, <2>4 DEF WritingInv, CopyKept, HasCopy
<1>3. ASSUME NEW g \in Generators,
             Generate(g) \/ Replace(g) \/ BackUp(g) \/ RetryReplace(g) \/ Restore(g) \/ RemoveBackup(g)
      PROVE  WritingInv' /\ CopyKept
  BY <1>3, GenerateKeeps, FileReplaceKeeps, BackUpKeeps, RetryKeeps, RestoreKeeps, RemoveKeeps
<1> QED
  BY <1>1, <1>2, <1>3, FileStopKeeps DEF FilesNext

\* The types are right for any number of requests and files.
THEOREM FilesTypeCorrect == FilesSpec => []FilesTypeOK
<1>1. WritingInv => FilesTypeOK
  BY DEF WritingInv
<1> QED
  BY <1>1, FilesStart, FilesStep, PTL DEF FilesSpec

\* When all requests succeeded the files belong together.
THEOREM AlwaysOneEdition == FilesSpec => []OneEdition
<1>1. WritingInv => OneEdition
  <2>1. WritingInv /\ clean => OneEdition
    BY DEF WritingInv
  <2>2. ~ clean => OneEdition
    BY DEF OneEdition
  <2> QED
    BY <2>1, <2>2
<1> QED
  BY <1>1, FilesStart, FilesStep, PTL DEF FilesSpec

\* A file that was generated is never gone, whatever fails and wherever the
\* process stops.
THEOREM CopiesAlwaysKept == FilesSpec => [][CopyKept]_fileVars
<1>1. WritingInv /\ [FilesNext]_fileVars => [CopyKept]_fileVars
  BY FilesStep
<1> QED
  BY <1>1, FilesStart, FilesStep, PTL DEF FilesSpec

-----------------------------------------------------------------------------
(***************************************************************************)
(* The generator's tables (GeneratorTables).  Ids are given out once, to a *)
(* table or a column each, so whoever replaces the rows of a table and     *)
(* adds new ones keeps every row that stays with its column.               *)
(***************************************************************************)
\* The ids of a finite set of inserted rows are the next ones, one for each.
LEMMA NewIdFacts ==
    ASSUME NEW S, IsFiniteSet(S), lastId \in Nat
    PROVE  /\ Cardinality(S) \in Nat
           /\ \A x \in S : NewId(S)[x] \in (lastId + 1)..(lastId + Cardinality(S))
           /\ \A x, y \in S : NewId(S)[x] = NewId(S)[y] => x = y
<1> DEFINE n == Cardinality(S)
           inOrder == SetToSeq(S)
           at(x) == CHOOSE i \in DOMAIN inOrder : inOrder[i] = x
<1>1. /\ n \in Nat /\ inOrder \in [1..n -> S]
      /\ \A x \in S : \E i \in 1..n : inOrder[i] = x
  BY OrderIsBijection
<1>2. \A x \in S : at(x) \in 1..n /\ inOrder[at(x)] = x
  <2> HIDE DEF inOrder, n
  <2> QED
    BY <1>1
<1>3. \A x \in S : NewId(S)[x] = lastId + at(x)
  BY DEF NewId
<1>4. ASSUME NEW x \in S
      PROVE  NewId(S)[x] \in (lastId + 1)..(lastId + n)
  <2> HIDE DEF at, n
  <2> QED
    BY <1>1, <1>2, <1>3
<1>5. ASSUME NEW x \in S, NEW y \in S, NewId(S)[x] = NewId(S)[y]
      PROVE  x = y
  <2>1. at(x) = at(y)
    <3> HIDE DEF at, n
    <3> QED
      BY <1>1, <1>2, <1>3, <1>5
  <2> HIDE DEF at
  <2> QED
    BY <1>2, <2>1
<1> QED
  BY <1>1, <1>4, <1>5

\* The rows inserted for columns: their ids are the next ones, there is one for
\* each column, and each is of its own column.
LEMMA NewRowsFacts ==
    ASSUME lastId \in Nat, MaxGenId \in Nat,
           NEW new \in SUBSET (Tables \X Columns), IsFiniteSet(new),
           NEW version \in [Tables -> [Columns -> Nat]],
           NEW tableId,
           \A p \in new : tableId[p[1]] \in 1..MaxGenId,
           \A p, q \in new : tableId[p[1]] = tableId[q[1]] => p[1] = q[1],
           lastId + Cardinality(new) <= MaxGenId
    PROVE  /\ Cardinality(new) \in Nat
           /\ NewRows(new, tableId, version) \subseteq ColumnRow
           /\ \A r \in NewRows(new, tableId, version) :
                 /\ lastId < r.id /\ r.id <= lastId + Cardinality(new)
                 /\ \E p \in new : r.table = tableId[p[1]] /\ r.name = p[2]
           /\ \A p \in new : \E r \in NewRows(new, tableId, version) : r.table = tableId[p[1]] /\ r.name = p[2]
           /\ \A r1, r2 \in NewRows(new, tableId, version) :
                 r1.id = r2.id \/ (r1.table = r2.table /\ r1.name = r2.name) => r1 = r2
<1> DEFINE id == NewId(new)
           of(p) == [id |-> id[p], table |-> tableId[p[1]], name |-> p[2],
                     version |-> version[p[1]][p[2]], setting |-> "initial"]
           n == Cardinality(new)
<1>1. /\ n \in Nat
      /\ \A p \in new : id[p] \in (lastId + 1)..(lastId + n)
      /\ \A p, q \in new : id[p] = id[q] => p = q
  BY NewIdFacts
<1>2. NewRows(new, tableId, version) = {of(p) : p \in new}
  BY DEF NewRows
<1>3. \A p \in new : /\ p[1] \in Tables /\ p[2] \in Columns /\ p = <<p[1], p[2]>>
                     /\ version[p[1]][p[2]] \in Nat
  OBVIOUS
<1>4. \A p \in new : /\ of(p).id = id[p] /\ of(p).table = tableId[p[1]]
                     /\ of(p).name = p[2]
  OBVIOUS
<1>5. ASSUME NEW p \in new
      PROVE  /\ of(p) \in ColumnRow
             /\ lastId < id[p] /\ id[p] <= lastId + n
  <2> HIDE DEF id, n
  <2>1. lastId < id[p] /\ id[p] <= lastId + n /\ id[p] \in 1..MaxGenId
    BY <1>1 DEF n
  <2> QED
    BY <1>3, <2>1 DEF ColumnRow
<1>6. ASSUME NEW p \in new, NEW q \in new,
             of(p).id = of(q).id \/ (of(p).table = of(q).table /\ of(p).name = of(q).name)
      PROVE  p = q
  <2>1. id[p] = id[q] \/ (tableId[p[1]] = tableId[q[1]] /\ p[2] = q[2])
    <3> HIDE DEF of
    <3> QED
      BY <1>4, <1>6
  <2> QED
    BY <1>1, <1>3, <2>1
<1> HIDE DEF of, id, n
<1>7. \A r \in NewRows(new, tableId, version) : \E p \in new : r = of(p)
  BY <1>2
<1>8. \A p \in new : of(p) \in NewRows(new, tableId, version)
  BY <1>2
<1>9. \A r1, r2 \in NewRows(new, tableId, version) :
         r1.id = r2.id \/ (r1.table = r2.table /\ r1.name = r2.name) => r1 = r2
  BY <1>6, <1>7
<1>10. \A r \in NewRows(new, tableId, version) :
          /\ r \in ColumnRow
          /\ lastId < r.id /\ r.id <= lastId + n
          /\ \E p \in new : r.table = tableId[p[1]] /\ r.name = p[2]
  BY <1>4, <1>5, <1>7
<1>11. \A p \in new : \E r \in NewRows(new, tableId, version) : r.table = tableId[p[1]] /\ r.name = p[2]
  BY <1>4, <1>8
<1> QED
  BY <1>1, <1>9, <1>10, <1>11 DEF n

\* The schema has changed as often as alters says.
SchemaKnown == \A t \in Tables, c \in Columns : schema[t][c] \in 0..alters + 1

\* Ids were given out before, those of the tables to one table each.
IdsGiven ==
    /\ \A row \in rows : row.id <= lastId
    /\ \A t \in Tables : config[t] <= lastId
    /\ \A t, u \in Tables : config[t] = config[u] /\ config[t] # 0 => t = u

\* What a form shows was there: the row of the same id, if there still is one,
\* is of the same column.
SameColumn(r1, r2) == r1.table = r2.table /\ r1.name = r2.name

FormShown ==
    /\ form.table <= lastId
    /\ \A shown \in form.rows :
          /\ shown.table = form.table /\ shown.id <= lastId
          /\ \A row \in rows : shown.id = row.id => SameColumn(shown, row)

GenInv == GenTypeOK /\ SchemaKnown /\ IdsGiven /\ FormShown /\ ColumnsConsistent

\* A row by its id and by its column.
OwnColumn(some) == \A r1, r2 \in some : r1.id = r2.id \/ SameColumn(r1, r2) => r1 = r2

\* Rows that descend from old ones, and new ones.
Descends(some, old) == \A r1 \in some : \E r2 \in old : r1.id = r2.id /\ SameColumn(r1, r2)
New(some, old, last) ==
    /\ \A r1 \in some : r1.id > last
    /\ \A r1 \in some, r2 \in old : ~ SameColumn(r1, r2)

\* A table of rows that descend from the old ones, one from each, and of new
\* ones, one for a column, keeps the identities.
LEMMA TogetherOwn ==
    ASSUME NEW old, NEW kept, NEW new, NEW last \in Nat,
           \A r \in old : r.id \in Nat /\ r.id <= last,
           OwnColumn(old), OwnColumn(new),
           \A r1, r2 \in kept : r1.id = r2.id => r1 = r2,
           Descends(kept, old), New(new, old, last)
    PROVE  /\ OwnColumn(kept \cup new)
           /\ \A r1 \in old, r2 \in kept \cup new : r1.id = r2.id <=> SameColumn(r1, r2)
<1>1. \A r1 \in old, r2 \in kept : r1.id = r2.id <=> SameColumn(r1, r2)
  BY DEF Descends, OwnColumn, SameColumn
<1>2. \A r1 \in old, r2 \in new : r1.id # r2.id /\ ~ SameColumn(r1, r2)
  BY DEF New, SameColumn
<1>3. ASSUME NEW r1 \in kept, NEW r2 \in kept, r1.id = r2.id \/ SameColumn(r1, r2)
      PROVE  r1 = r2
  <2>1. PICK o \in old : r2.id = o.id /\ SameColumn(r2, o)
    BY DEF Descends
  <2>2. r1.id = r2.id
    BY <1>1, <1>3, <2>1 DEF SameColumn
  <2> QED
    BY <2>2
<1>4. ASSUME NEW r1 \in kept, NEW r2 \in new
      PROVE  r1.id # r2.id /\ ~ SameColumn(r1, r2) /\ ~ SameColumn(r2, r1)
  BY <1>2 DEF Descends, SameColumn
<1> QED
  BY <1>1, <1>2, <1>3, <1>4 DEF OwnColumn

\* So does what is left of such a table.
LEMMA LeftOwn ==
    ASSUME NEW old, NEW kept \in SUBSET old, OwnColumn(old)
    PROVE  /\ OwnColumn(kept)
           /\ \A r1 \in old, r2 \in kept : r1.id = r2.id <=> SameColumn(r1, r2)
BY DEF OwnColumn, SameColumn

\* What a form shows stays so while the rows keep their identities.
LEMMA StillShown ==
    ASSUME NEW shown, NEW kept, NEW new, NEW old, NEW last \in Nat,
           \A s \in shown, row \in old : s.id = row.id => SameColumn(s, row),
           \A s \in shown : s.id \in Nat /\ s.id <= last,
           Descends(kept, old), \A r \in new : r.id > last /\ r.id \in Nat
    PROVE  \A s \in shown, row \in kept \cup new : s.id = row.id => SameColumn(s, row)
<1>1. \A s \in shown, row \in kept : s.id = row.id => SameColumn(s, row)
  BY DEF Descends, SameColumn
<1>2. \A s \in shown, row \in new : s.id # row.id
  <2> TAKE s \in shown, row \in new
  <2>1. s.id \in Nat /\ s.id <= last /\ row.id > last /\ row.id \in Nat
    OBVIOUS
  <2> QED
    BY <2>1
<1> QED
  BY <1>1, <1>2

LEMMA OwnColumnIs == ColumnsConsistent <=>
    /\ \A row \in rows : row.table \in Imported
    /\ \A t \in Tables : config[t] # 0 => Of(config[t]) # {}
    /\ OwnColumn(rows)
BY DEF ColumnsConsistent, OwnColumn, SameColumn

LEMMA GenStarts == GenInit => GenInv
<1> SUFFICES ASSUME GenInit PROVE GenInv
  OBVIOUS
<1>0. MaxGenId \in Nat /\ MaxAlters \in Nat
  BY GeneratorTablesAssumption
<1>1. PICK cs \in SUBSET (Tables \X Columns) :
         schema = [t \in Tables |-> [c \in Columns |-> IF <<t, c>> \in cs THEN 1 ELSE 0]]
  BY DEF GenInit
<1>2. /\ config = [t \in Tables |-> 0] /\ rows = {} /\ lastId = 0 /\ alters = 0
      /\ form = NoForm
  BY DEF GenInit
<1>3. schema \in [Tables -> [Columns -> 0..MaxAlters + 1]] /\ SchemaKnown
  BY <1>0, <1>1, <1>2 DEF SchemaKnown
<1>4. form \in [table: 0..MaxGenId, rows: SUBSET ColumnRow, read: BOOLEAN]
  BY <1>0, <1>2 DEF NoForm
<1>5. GenTypeOK
  BY <1>0, <1>2, <1>3, <1>4 DEF GenTypeOK
<1>6. IdsGiven
  BY <1>2 DEF IdsGiven
<1>7. FormShown
  BY <1>2 DEF FormShown, NoForm
<1>8. ColumnsConsistent
  BY <1>2 DEF ColumnsConsistent
<1> QED
  BY <1>3, <1>5, <1>6, <1>7, <1>8 DEF GenInv

\* Whatever a writer leaves of the rows and adds to them, so done, keeps the
\* invariant of them and of a form.
LEMMA Renewed ==
    ASSUME GenInv, NEW kept, NEW new, rows' = kept \cup new, rows' \subseteq ColumnRow,
           form' = form, lastId' \in Nat, lastId <= lastId',
           \A r1, r2 \in kept : r1.id = r2.id => r1 = r2,
           Descends(kept, rows), New(new, rows, lastId), OwnColumn(new),
           \A r \in new : r.id <= lastId'
    PROVE  /\ OwnColumn(rows')
           /\ \A r1 \in rows, r2 \in rows' : r1.id = r2.id <=> SameColumn(r1, r2)
           /\ \A row \in rows' : row.id <= lastId'
           /\ FormShown'
<1>1. /\ lastId \in Nat /\ MaxGenId \in Nat /\ rows \subseteq ColumnRow
      /\ form \in [table: 0..MaxGenId, rows: SUBSET ColumnRow, read: BOOLEAN]
  BY GeneratorTablesAssumption DEF GenInv, GenTypeOK
<1>2. \A r \in ColumnRow : r.id \in Nat
  BY <1>1 DEF ColumnRow
<1>3. \A r \in rows : r.id \in Nat /\ r.id <= lastId
  BY <1>1, <1>2 DEF GenInv, IdsGiven
<1>4. OwnColumn(rows)
  BY OwnColumnIs DEF GenInv
<1>5. /\ OwnColumn(kept \cup new)
      /\ \A r1 \in rows, r2 \in kept \cup new : r1.id = r2.id <=> SameColumn(r1, r2)
  <2>1. \A r1 \in kept, r2 \in kept : r1.id = r2.id => r1 = r2
    OBVIOUS
  <2> QED
    BY <1>1, <1>3, <1>4, <2>1, TogetherOwn
<1>6. ASSUME NEW row \in kept \cup new
      PROVE  row.id <= lastId'
  <2>1. CASE row \in new
    BY <2>1
  <2>2. CASE row \in kept
    <3>1. PICK old \in rows : row.id = old.id
      BY <2>2 DEF Descends
    <3>2. old.id \in Nat /\ old.id <= lastId
      BY <1>3
    <3> QED
      BY <1>1, <3>1, <3>2
  <2> QED
    BY <2>1, <2>2
<1>7. FormShown'
  <2>1. form.table \in Nat /\ form.table <= lastId /\ form.rows \subseteq ColumnRow
    BY <1>1 DEF GenInv, FormShown
  <2>2. \A s \in form.rows : s.id \in Nat /\ s.id <= lastId /\ s.table = form.table
    BY <1>2, <2>1 DEF GenInv, FormShown
  <2>3. \A r \in new : r.id > lastId /\ r.id \in Nat
    BY <1>2 DEF New
  <2>4. \A s \in form.rows, row \in rows : s.id = row.id => SameColumn(s, row)
    BY DEF GenInv, FormShown
  <2>5. \A s \in form.rows, row \in kept \cup new : s.id = row.id => SameColumn(s, row)
    BY <1>1, <2>2, <2>3, <2>4, StillShown
  <2>6. form.table <= lastId'
    BY <1>1, <2>1
  <2>7. \A s \in form.rows : s.id <= lastId'
    BY <1>1, <2>2
  <2> QED
    BY <2>2, <2>5, <2>6, <2>7 DEF FormShown
<1> QED
  BY <1>5, <1>6, <1>7

\* InsertGenTables keeps the invariant of the rows, and all identities.
LEMMA TablesInserted ==
    ASSUME GenInv, NEW ts \in SUBSET Tables, NEW columns \in SUBSET (ts \X Columns),
           NEW version \in [Tables -> [Columns -> Nat]],
           \A t \in ts : config[t] = 0 /\ \E c \in Columns : <<t, c>> \in columns,
           InsertTables(ts, columns, version), form' = form
    PROVE  /\ rows' \subseteq ColumnRow /\ lastId' \in 0..MaxGenId
           /\ config' \in [Tables -> 0..MaxGenId]
           /\ IdsGiven' /\ FormShown' /\ ColumnsConsistent' /\ IdentityKept
<1> DEFINE tableId == NewId(ts)
           new == NewRows(columns, tableId, version)
           n == Cardinality(columns)
<1>1. /\ lastId \in 0..MaxGenId /\ lastId \in Nat /\ MaxGenId \in Nat /\ rows \subseteq ColumnRow
      /\ config \in [Tables -> 0..MaxGenId]
  BY GeneratorTablesAssumption DEF GenInv, GenTypeOK
<1>2. IsFiniteSet(ts) /\ IsFiniteSet(columns)
  <2>1. IsFiniteSet(ts)
    BY GeneratorTablesAssumption, FS_Subset
  <2>2. IsFiniteSet(ts \X Columns)
    BY <2>1, GeneratorTablesAssumption, FS_Product
  <2> QED
    BY <2>1, <2>2, FS_Subset
<1>3. n \in Nat /\ Cardinality(ts) \in Nat /\ Cardinality(ts) <= n
  <2> DEFINE f == [p \in columns |-> p[1]]
  <2>1. f \in [columns -> ts]
    OBVIOUS
  <2>2. \A t \in ts : \E p \in columns : f[p] = t
    <3> TAKE t \in ts
    <3>1. PICK c \in Columns : <<t, c>> \in columns
      OBVIOUS
    <3>2. f[<<t, c>>] = t
      BY <3>1
    <3> QED
      BY <3>1, <3>2
  <2>3. f \in Surjection(columns, ts)
    BY <2>1, <2>2 DEF Surjection
  <2> HIDE DEF f
  <2>4. Cardinality(ts) <= Cardinality(columns)
    BY <1>2, <2>3, FS_Surjection
  <2> QED
    BY <1>2, <2>4, FS_CardinalityType
<1>4. /\ lastId + n <= MaxGenId
      /\ config' = [t \in Tables |-> IF t \in ts THEN tableId[t] ELSE config[t]]
      /\ rows' = rows \cup new
      /\ lastId' = lastId + n
  BY DEF InsertTables
<1>5. /\ \A t \in ts : tableId[t] \in (lastId + 1)..(lastId + Cardinality(ts))
      /\ \A t, u \in ts : tableId[t] = tableId[u] => t = u
  BY <1>1, <1>2, NewIdFacts
<1> HIDE DEF tableId, n
<1>6. \A t \in ts : /\ tableId[t] \in 1..MaxGenId
                    /\ lastId < tableId[t] /\ tableId[t] <= lastId + n
  BY <1>1, <1>3, <1>4, <1>5
<1>7. columns \in SUBSET (Tables \X Columns) /\ \A p \in columns : p[1] \in ts
  OBVIOUS
<1>8. /\ new \subseteq ColumnRow
      /\ \A r \in new :
            /\ lastId < r.id /\ r.id <= lastId + n
            /\ \E p \in columns : r.table = tableId[p[1]] /\ r.name = p[2]
      /\ \A p \in columns : \E r \in new : r.table = tableId[p[1]] /\ r.name = p[2]
      /\ OwnColumn(new)
  <2>1. \A p \in columns : tableId[p[1]] \in 1..MaxGenId
    BY <1>6, <1>7
  <2>2. \A p, q \in columns : tableId[p[1]] = tableId[q[1]] => p[1] = q[1]
    BY <1>5, <1>7
  <2>3. columns \in SUBSET (Tables \X Columns) /\ lastId + Cardinality(columns) <= MaxGenId
    BY <1>4, <1>7 DEF n
  <2>4. /\ new \subseteq ColumnRow
        /\ \A r \in new :
              /\ lastId < r.id /\ r.id <= lastId + Cardinality(columns)
              /\ \E p \in columns : r.table = tableId[p[1]] /\ r.name = p[2]
        /\ \A p \in columns : \E r \in new : r.table = tableId[p[1]] /\ r.name = p[2]
        /\ \A r1, r2 \in new : r1.id = r2.id \/ (r1.table = r2.table /\ r1.name = r2.name) => r1 = r2
    BY <1>1, <1>2, <2>1, <2>2, <2>3, NewRowsFacts
  <2> QED
    BY <2>4 DEF n, OwnColumn, SameColumn
<1> HIDE DEF new
<1>9. lastId' \in Nat /\ lastId <= lastId' /\ lastId' \in 0..MaxGenId
  BY <1>1, <1>3, <1>4
<1>10. \A r \in rows : r.table \in Nat /\ r.table <= lastId /\ r.table # 0
  <2> TAKE r \in rows
  <2>1. PICK t \in Tables : r.table = config[t] /\ config[t] # 0
    BY DEF GenInv, ColumnsConsistent, Imported
  <2> QED
    BY <1>1, <2>1 DEF GenInv, IdsGiven
<1>11. New(new, rows, lastId)
  <2>1. ASSUME NEW r1 \in new, NEW r2 \in rows
        PROVE  r1.table # r2.table
    <3>1. PICK t \in ts : r1.table = tableId[t]
      BY <1>7, <1>8
    <3>2. r1.table \in Nat /\ lastId < r1.table
      BY <1>6, <3>1
    <3> QED
      BY <1>1, <1>10, <3>2
  <2>2. \A r1 \in new : r1.id \in Nat /\ r1.id > lastId
    BY <1>1, <1>8 DEF ColumnRow
  <2> QED
    BY <2>1, <2>2 DEF New, SameColumn
<1>12. /\ OwnColumn(rows')
       /\ \A r1 \in rows, r2 \in rows' : r1.id = r2.id <=> SameColumn(r1, r2)
       /\ \A row \in rows' : row.id <= lastId'
       /\ FormShown'
  <2>1. \A r1, r2 \in rows : r1.id = r2.id => r1 = r2
    BY DEF GenInv, ColumnsConsistent
  <2>2. Descends(rows, rows)
    BY DEF Descends, SameColumn
  <2>3. \A r \in new : r.id <= lastId'
    BY <1>4, <1>8
  <2>4. rows' \subseteq ColumnRow
    BY <1>1, <1>4, <1>8
  <2> QED
    BY <1>4, <1>8, <1>9, <1>11, <2>1, <2>2, <2>3, <2>4, Renewed
<1>13. \A t \in Tables : /\ config'[t] \in 0..MaxGenId /\ config'[t] <= lastId'
                         /\ t \in ts => config'[t] = tableId[t]
                         /\ t \notin ts => config'[t] = config[t] /\ config[t] <= lastId
  <2> TAKE t \in Tables
  <2>1. CASE t \in ts
    <3>1. config'[t] = tableId[t]
      BY <1>4, <2>1
    <3>2. tableId[t] \in 0..MaxGenId /\ tableId[t] <= lastId'
      BY <1>4, <1>6, <2>1
    <3> QED
      BY <2>1, <3>1, <3>2
  <2>2. CASE t \notin ts
    <3>1. config'[t] = config[t] /\ config[t] \in 0..MaxGenId /\ config[t] <= lastId
      BY <1>1, <1>4, <2>2 DEF GenInv, IdsGiven
    <3> QED
      BY <1>9, <1>1, <2>2, <3>1
  <2> QED
    BY <2>1, <2>2
<1>14. IdsGiven'
  <2>1. ASSUME NEW t \in Tables, NEW u \in Tables, config'[t] = config'[u], config'[t] # 0
        PROVE  t = u
    <3>1. \A a \in Tables \ ts, b \in ts : config'[a] # config'[b]
      <4> TAKE a \in Tables \ ts, b \in ts
      <4>1. config'[a] <= lastId /\ config'[a] \in Nat
        BY <1>1, <1>13
      <4>2. config'[b] = tableId[b] /\ lastId < tableId[b] /\ tableId[b] \in Nat
        BY <1>6, <1>13
      <4> QED
        BY <1>1, <4>1, <4>2
    <3>2. CASE t \in ts /\ u \in ts
      BY <1>5, <1>13, <2>1, <3>2
    <3>3. CASE t \notin ts /\ u \notin ts
      BY <1>13, <2>1, <3>3 DEF GenInv, IdsGiven
    <3> QED
      BY <2>1, <3>1, <3>2, <3>3
  <2> QED
    BY <1>12, <1>13, <2>1 DEF IdsGiven
<1>15. ColumnsConsistent'
  <2>1. ASSUME NEW row \in rows'
        PROVE  \E t \in Tables : row.table = config'[t] /\ config'[t] # 0
    <3>1. CASE row \in rows
      <4>1. PICK t \in Tables : row.table = config[t] /\ config[t] # 0
        BY <3>1 DEF GenInv, ColumnsConsistent, Imported
      <4> QED
        BY <1>13, <4>1
    <3>2. CASE row \in new
      <4>1. PICK t \in ts : row.table = tableId[t]
        BY <1>7, <1>8, <3>2
      <4>2. tableId[t] # 0
        BY <1>6
      <4> QED
        BY <1>13, <4>1, <4>2
    <3> QED
      BY <1>4, <3>1, <3>2
  <2>2. ASSUME NEW t \in Tables, config'[t] # 0
        PROVE  \E row \in rows' : row.table = config'[t]
    <3>1. CASE t \in ts
      <4>1. PICK c \in Columns : <<t, c>> \in columns
        BY <3>1
      <4>2. PICK r \in new : r.table = tableId[t]
        BY <1>8, <4>1
      <4> QED
        BY <1>4, <1>13, <3>1, <4>2
    <3>2. CASE t \notin ts
      <4>1. config[t] # 0
        BY <1>13, <2>2, <3>2
      <4>2. PICK r \in rows : r.table = config[t]
        BY <4>1 DEF GenInv, ColumnsConsistent, Of
      <4> QED
        BY <1>4, <1>13, <3>2, <4>2
    <3> QED
      BY <3>1, <3>2
  <2> QED
    BY <1>12, <2>1, <2>2 DEF ColumnsConsistent, Imported, Of, OwnColumn, SameColumn
<1>16. IdentityKept
  <2>1. ASSUME NEW r1 \in rows, NEW r2 \in rows', r1.id = r2.id
        PROVE  r1 = r2
    <3>1. r1 \in rows' /\ SameColumn(r1, r2)
      BY <1>4, <1>12, <2>1
    <3> QED
      BY <1>12, <2>1, <3>1 DEF OwnColumn
  <2> QED
    BY <1>12, <2>1 DEF IdentityKept, SameColumn
<1>17. config' \in [Tables -> 0..MaxGenId]
  <2>1. \A t \in Tables : config'[t] \in 0..MaxGenId
    BY <1>13
  <2>2. config' = [t \in Tables |-> config'[t]]
    BY <1>4
  <2> QED
    BY <2>1, <2>2
<1> QED
  BY <1>1, <1>4, <1>8, <1>9, <1>12, <1>14, <1>15, <1>16, <1>17

\* A step that leaves the tables and the rows alone.
LEMMA RowsAlone ==
    ASSUME GenInv, UNCHANGED <<config, rows, lastId>>
    PROVE  IdsGiven' /\ ColumnsConsistent' /\ IdentityKept
<1>1. IdsGiven' /\ ColumnsConsistent'
  BY DEF GenInv, IdsGiven, ColumnsConsistent, Imported, Of
<1>2. ASSUME NEW r1 \in rows, NEW r2 \in rows, r1.id = r2.id \/ SameColumn(r1, r2)
      PROVE  r1 = r2
  BY <1>2, OwnColumnIs DEF GenInv, OwnColumn
<1>3. IdentityKept
  BY <1>2 DEF IdentityKept, SameColumn
<1> QED
  BY <1>1, <1>3

LEMMA GenDeleteKeeps ==
    ASSUME GenInv, NEW ts \in SUBSET Tables, DeleteGenTables(ts)
    PROVE  GenInv' /\ IdentityKept
<1> DEFINE kept == WithoutTables(ts)
<1>1. /\ rows' = kept /\ UNCHANGED <<schema, lastId, alters, form>>
      /\ config' = [t \in Tables |-> IF t \in ts THEN 0 ELSE config[t]]
  BY DEF DeleteGenTables
<1>2. kept \subseteq rows /\ \A row \in rows : row \in kept <=> \A t \in ts : row.table # config[t]
  BY DEF WithoutTables
<1> HIDE DEF kept
<1>3. /\ lastId \in 0..MaxGenId /\ lastId \in Nat /\ MaxGenId \in Nat /\ rows \subseteq ColumnRow
      /\ config \in [Tables -> 0..MaxGenId]
  BY GeneratorTablesAssumption DEF GenInv, GenTypeOK
<1>4. OwnColumn(rows)
  BY OwnColumnIs DEF GenInv
<1>5. /\ OwnColumn(rows')
      /\ \A r1 \in rows, r2 \in rows' : r1.id = r2.id <=> SameColumn(r1, r2)
      /\ \A row \in rows' : row.id <= lastId'
      /\ FormShown'
  <2>1. \A r1, r2 \in kept : r1.id = r2.id => r1 = r2
    BY <1>2, <1>4 DEF OwnColumn
  <2>2. Descends(kept, rows)
    BY <1>2 DEF Descends, SameColumn
  <2>3. New({}, rows, lastId) /\ OwnColumn({}) /\ \A r \in {} : r.id <= lastId'
    BY DEF New, OwnColumn
  <2>4. rows' = kept \cup {} /\ rows' \subseteq ColumnRow /\ form' = form
    BY <1>1, <1>2, <1>3
  <2>5. lastId' \in Nat /\ lastId <= lastId'
    BY <1>1, <1>3
  <2> QED
    BY <2>1, <2>2, <2>3, <2>4, <2>5, Renewed
<1>6. \A t \in Tables : config'[t] = IF t \in ts THEN 0 ELSE config[t]
  BY <1>1
<1>7. config' \in [Tables -> 0..MaxGenId]
  BY <1>1, <1>3
<1>8. IdsGiven'
  <2>1. \A t \in Tables : config'[t] <= lastId'
    BY <1>1, <1>3, <1>6 DEF GenInv, IdsGiven
  <2>2. \A t, u \in Tables : config'[t] = config'[u] /\ config'[t] # 0 => t = u
    BY <1>6 DEF GenInv, IdsGiven
  <2> QED
    BY <1>5, <2>1, <2>2 DEF IdsGiven
<1>9. ColumnsConsistent'
  <2>1. ASSUME NEW row \in rows'
        PROVE  \E t \in Tables : row.table = config'[t] /\ config'[t] # 0
    <3>1. PICK t \in Tables : row.table = config[t] /\ config[t] # 0
      BY <1>1, <1>2 DEF GenInv, ColumnsConsistent, Imported
    <3>2. t \notin ts
      BY <1>1, <1>2, <3>1
    <3> QED
      BY <1>6, <3>1, <3>2
  <2>2. ASSUME NEW t \in Tables, config'[t] # 0
        PROVE  \E row \in rows' : row.table = config'[t]
    <3>1. t \notin ts /\ config'[t] = config[t]
      BY <1>6, <2>2
    <3>2. PICK row \in rows : row.table = config[t]
      BY <2>2, <3>1 DEF GenInv, ColumnsConsistent, Of
    <3>3. \A u \in ts : config[t] # config[u]
      BY <2>2, <3>1 DEF GenInv, IdsGiven
    <3>4. row \in rows'
      BY <1>1, <1>2, <3>2, <3>3
    <3> QED
      BY <3>1, <3>2, <3>4
  <2> QED
    BY <1>5, <2>1, <2>2 DEF ColumnsConsistent, Imported, Of, OwnColumn, SameColumn
<1>10. IdentityKept
  <2>1. \A r1 \in rows, r2 \in rows' : r1.id = r2.id => r1 = r2
    BY <1>1, <1>2, <1>4 DEF OwnColumn
  <2> QED
    BY <1>5, <2>1 DEF IdentityKept, SameColumn
<1>11. GenTypeOK' /\ SchemaKnown'
  BY <1>1, <1>2, <1>3, <1>7 DEF GenInv, GenTypeOK, SchemaKnown
<1> QED
  BY <1>5, <1>8, <1>9, <1>10, <1>11 DEF GenInv

LEMMA EditKeeps ==
    ASSUME GenInv, NEW edited, Edit(edited)
    PROVE  GenInv' /\ IdentityKept
<1> DEFINE table == form.table
           old == rows \ Of(table)
           sent == {Sent(row, edited) : row \in Of(table)}
<1>1. /\ form.table \in Imported
      /\ {row.id : row \in form.rows} = {row.id : row \in Of(table)}
      /\ rows' = old \cup sent /\ UNCHANGED <<schema, config, lastId, alters, form>>
  BY DEF Edit
<1>2. /\ lastId \in 0..MaxGenId /\ lastId \in Nat /\ MaxGenId \in Nat /\ rows \subseteq ColumnRow
      /\ form.rows \subseteq ColumnRow
  BY GeneratorTablesAssumption DEF GenInv, GenTypeOK
<1>3. OwnColumn(rows)
  BY OwnColumnIs DEF GenInv
<1>4. ASSUME NEW row \in Of(table)
      PROVE  /\ row \in rows /\ row.table = table
             /\ Sent(row, edited) \in ColumnRow
             /\ Sent(row, edited).id = row.id /\ SameColumn(Sent(row, edited), row)
             /\ \E r \in form.rows : r.id = row.id /\ r.name = row.name
  <2>1. row \in rows /\ row.table = table
    BY DEF Of
  <2>2. row.id \in {r.id : r \in form.rows}
    BY <1>1
  <2> DEFINE s == CHOOSE r \in form.rows : r.id = row.id
  <2>3. s \in form.rows /\ s.id = row.id
    BY <2>2
  <2>4. Sent(row, edited) = [s EXCEPT !.name = row.name,
                                      !.setting = IF row.id \in edited THEN "edited" ELSE @]
    BY DEF Sent
  <2> HIDE DEF s
  <2>5. s \in ColumnRow /\ s.table = table /\ s.name = row.name
    BY <1>2, <2>1, <2>3 DEF GenInv, FormShown, SameColumn
  <2>6. row.name \in Columns
    BY <1>2, <2>1 DEF ColumnRow
  <2>7. /\ Sent(row, edited) \in ColumnRow
        /\ Sent(row, edited).id = s.id /\ Sent(row, edited).table = s.table
        /\ Sent(row, edited).name = row.name
    BY <2>4, <2>5, <2>6 DEF ColumnRow
  <2> QED
    BY <2>1, <2>3, <2>5, <2>7 DEF SameColumn
<1>5. \A r \in sent : \E row \in Of(table) : r = Sent(row, edited)
  OBVIOUS
<1>6. \A row \in Of(table) : Sent(row, edited) \in sent
  OBVIOUS
<1>7. old \subseteq rows /\ Of(table) \subseteq rows /\ old = rows \ Of(table)
  BY DEF Of
<1> HIDE DEF old, sent
<1>8. Descends(rows', rows)
  <2> SUFFICES ASSUME NEW r \in rows' PROVE \E row \in rows : r.id = row.id /\ SameColumn(r, row)
    BY DEF Descends
  <2>1. CASE r \in old
    BY <1>7, <2>1 DEF SameColumn
  <2>2. CASE r \in sent
    BY <1>4, <1>5, <2>2
  <2> QED
    BY <1>1, <2>1, <2>2
<1>9. ASSUME NEW r1 \in rows', NEW r2 \in rows', r1.id = r2.id
      PROVE  r1 = r2
  <2>1. CASE r1 \in old /\ r2 \in old
    BY <1>3, <1>7, <1>9, <2>1 DEF OwnColumn
  <2>2. CASE r1 \in sent /\ r2 \in sent
    <3>1. PICK o1 \in Of(table), o2 \in Of(table) : r1 = Sent(o1, edited) /\ r2 = Sent(o2, edited)
      BY <1>5, <2>2
    <3>2. o1 = o2
      BY <1>3, <1>4, <1>9, <3>1 DEF OwnColumn
    <3> QED
      BY <3>1, <3>2
  <2>3. ASSUME NEW a \in old, NEW b \in sent, a.id = b.id
        PROVE  FALSE
    <3>1. PICK o \in Of(table) : b = Sent(o, edited)
      BY <1>5
    <3>2. a = o
      BY <1>3, <1>4, <1>7, <2>3, <3>1 DEF OwnColumn
    <3> QED
      BY <1>7, <3>2
  <2> QED
    BY <1>1, <1>9, <2>1, <2>2, <2>3
<1>10. rows' \subseteq ColumnRow
  BY <1>1, <1>2, <1>4, <1>5, <1>7
<1>11. /\ OwnColumn(rows')
       /\ \A r1 \in rows, r2 \in rows' : r1.id = r2.id <=> SameColumn(r1, r2)
       /\ \A row \in rows' : row.id <= lastId'
       /\ FormShown'
  <2>1. New({}, rows, lastId) /\ OwnColumn({}) /\ \A r \in {} : r.id <= lastId'
    BY DEF New, OwnColumn
  <2>2. lastId' \in Nat /\ lastId <= lastId' /\ form' = form /\ rows' = rows' \cup {}
    BY <1>1, <1>2
  <2>3. PICK kept : kept = rows'
    OBVIOUS
  <2> QED
    BY <1>8, <1>9, <1>10, <2>1, <2>2, <2>3, Renewed
<1>12. IdsGiven'
  BY <1>1, <1>11 DEF GenInv, IdsGiven
<1>13. \A row \in rows : \E r \in rows' : r.table = row.table
  <2> TAKE row \in rows
  <2>1. CASE row \in Of(table)
    BY <1>1, <1>4, <1>6, <2>1 DEF SameColumn
  <2>2. CASE row \notin Of(table)
    BY <1>1, <1>7, <2>2
  <2> QED
    BY <2>1, <2>2
<1>14. ColumnsConsistent'
  <2>1. ASSUME NEW row \in rows'
        PROVE  \E t \in Tables : row.table = config'[t] /\ config'[t] # 0
    <3>1. PICK o \in rows : row.table = o.table
      BY <1>8 DEF Descends, SameColumn
    <3> QED
      BY <1>1, <3>1 DEF GenInv, ColumnsConsistent, Imported
  <2>2. ASSUME NEW t \in Tables, config'[t] # 0
        PROVE  \E row \in rows' : row.table = config'[t]
    <3>1. PICK o \in rows : o.table = config[t]
      BY <1>1, <2>2 DEF GenInv, ColumnsConsistent, Of
    <3> QED
      BY <1>1, <1>13, <3>1
  <2> QED
    BY <1>11, <2>1, <2>2 DEF ColumnsConsistent, Imported, Of, OwnColumn, SameColumn
<1>15. IdentityKept
  <2>1. ASSUME NEW r1 \in rows, NEW r2 \in rows', r1.id = r2.id, r1.setting # r2.setting
        PROVE  \E r \in form.rows : r.id = r1.id /\ r.name = r1.name
    <3>1. CASE r2 \in old
      <4>1. r1 = r2
        BY <1>3, <1>7, <2>1, <3>1 DEF OwnColumn
      <4> QED
        BY <2>1, <4>1
    <3>2. CASE r2 \in sent
      <4>1. PICK o \in Of(table) : r2 = Sent(o, edited)
        BY <1>5, <3>2
      <4>2. o = r1
        BY <1>3, <1>4, <2>1, <4>1 DEF OwnColumn
      <4> QED
        BY <1>4, <4>2
    <3> QED
      BY <1>1, <3>1, <3>2
  <2> QED
    BY <1>11, <2>1 DEF IdentityKept, SameColumn
<1>16. GenTypeOK' /\ SchemaKnown'
  BY <1>1, <1>10 DEF GenInv, GenTypeOK, SchemaKnown
<1> QED
  BY <1>11, <1>12, <1>14, <1>15, <1>16 DEF GenInv

LEMMA SyncKeeps ==
    ASSUME GenInv, NEW t \in Tables, Sync(t)
    PROVE  GenInv' /\ IdentityKept
<1> DEFINE table == config[t]
           still == {r \in Of(table) : r.name \in Physical(t)}
           columns == {t} \X (Physical(t) \ {row.name : row \in Kept(t)})
           new == NewRows(columns, config, schema)
           old == rows \ Of(table)
           n == Cardinality(columns)
           renewed(row) == [row EXCEPT !.version = schema[t][row.name]]
<1>1. /\ table # 0 /\ Physical(t) # {}
      /\ lastId + n <= MaxGenId
      /\ rows' = (old \cup Kept(t)) \cup new
      /\ lastId' = lastId + n
      /\ UNCHANGED <<schema, config, alters, form>>
  BY DEF Sync
<1>2. /\ lastId \in 0..MaxGenId /\ lastId \in Nat /\ MaxGenId \in Nat /\ rows \subseteq ColumnRow
      /\ config \in [Tables -> 0..MaxGenId] /\ MaxAlters \in Nat
      /\ schema \in [Tables -> [Columns -> 0..MaxAlters + 1]]
  BY GeneratorTablesAssumption DEF GenInv, GenTypeOK
<1>3. schema \in [Tables -> [Columns -> Nat]]
  <2>1. \A u \in Tables : schema[u] \in [Columns -> Nat]
    BY <1>2
  <2> QED
    BY <1>2, <2>1
<1>4. OwnColumn(rows)
  BY OwnColumnIs DEF GenInv
<1>5. Kept(t) = {renewed(row) : row \in still}
  BY DEF Kept
<1>6. ASSUME NEW row \in still
      PROVE  /\ row \in rows /\ row.table = table /\ row.name \in Physical(t)
             /\ renewed(row) \in ColumnRow
             /\ renewed(row).id = row.id /\ renewed(row).table = row.table
             /\ renewed(row).name = row.name /\ renewed(row).setting = row.setting
  <2>1. row \in ColumnRow /\ row \in rows /\ row.table = table /\ row.name \in Physical(t)
    BY <1>2 DEF Of
  <2>2. schema[t][row.name] \in Nat
    BY <1>3, <2>1 DEF ColumnRow
  <2> QED
    BY <2>1, <2>2 DEF ColumnRow
<1> HIDE DEF renewed
<1>7. \A r \in Kept(t) : \E row \in still : r = renewed(row)
  BY <1>5
<1>8. \A row \in still : renewed(row) \in Kept(t)
  BY <1>5
<1>9. \A row \in rows : row.table = table /\ row.name \in Physical(t) => row \in still
  BY DEF Of
<1>10. old \subseteq rows /\ \A row \in old : row.table # table
  BY DEF Of
<1>11. /\ columns \in SUBSET (Tables \X Columns)
       /\ \A p \in columns : /\ p[1] = t /\ p[2] \in Physical(t)
                             /\ \A row \in Kept(t) : row.name # p[2]
       /\ \A c \in Physical(t) : (\A row \in Kept(t) : row.name # c) => <<t, c>> \in columns
  BY DEF Physical
<1>12. IsFiniteSet(columns)
  <2>1. IsFiniteSet(Tables \X Columns)
    BY GeneratorTablesAssumption, FS_Product
  <2> HIDE DEF columns
  <2> QED
    BY <1>11, <2>1, FS_Subset
<1> HIDE DEF columns, still, old
<1>13. /\ n \in Nat /\ new \subseteq ColumnRow
       /\ \A r \in new :
             /\ lastId < r.id /\ r.id <= lastId + n
             /\ \E p \in columns : r.table = config[p[1]] /\ r.name = p[2]
       /\ \A p \in columns : \E r \in new : r.table = config[p[1]] /\ r.name = p[2]
       /\ OwnColumn(new)
  <2>0. lastId \in Nat /\ MaxGenId \in Nat /\ columns \in SUBSET (Tables \X Columns)
    BY <1>2, <1>11
  <2>1. \A p \in columns : config[p[1]] \in 1..MaxGenId
    BY <1>1, <1>2, <1>11
  <2>2. \A p, q \in columns : config[p[1]] = config[q[1]] => p[1] = q[1]
    BY <1>11
  <2>3. lastId + Cardinality(columns) <= MaxGenId
    BY <1>1
  <2>4. /\ Cardinality(columns) \in Nat /\ new \subseteq ColumnRow
        /\ \A r \in new :
              /\ lastId < r.id /\ r.id <= lastId + Cardinality(columns)
              /\ \E p \in columns : r.table = config[p[1]] /\ r.name = p[2]
        /\ \A p \in columns : \E r \in new : r.table = config[p[1]] /\ r.name = p[2]
        /\ \A r1, r2 \in new : r1.id = r2.id \/ (r1.table = r2.table /\ r1.name = r2.name) => r1 = r2
    BY <1>3, <1>12, <2>0, <2>1, <2>2, <2>3, NewRowsFacts
  <2> QED
    BY <2>4 DEF OwnColumn, SameColumn
<1> HIDE DEF new, n
<1>14. lastId' \in Nat /\ lastId <= lastId' /\ lastId' \in 0..MaxGenId
  BY <1>1, <1>2, <1>13
<1>15. New(new, rows, lastId)
  <2>1. ASSUME NEW r1 \in new, NEW r2 \in rows, SameColumn(r1, r2)
        PROVE  FALSE
    <3>1. PICK p \in columns : r1.table = config[p[1]] /\ r1.name = p[2]
      BY <1>13
    <3>2. /\ r1.table = table /\ r1.name \in Physical(t)
          /\ \A row \in Kept(t) : row.name # r1.name
      BY <1>11, <3>1
    <3>3. r2 \in still
      BY <1>9, <2>1, <3>2 DEF SameColumn
    <3>4. renewed(r2) \in Kept(t) /\ renewed(r2).name = r1.name
      BY <1>6, <1>8, <2>1, <3>3 DEF SameColumn
    <3> QED
      BY <3>2, <3>4
  <2>2. \A r1 \in new : r1.id \in Nat /\ r1.id > lastId
    BY <1>2, <1>13 DEF ColumnRow
  <2> QED
    BY <2>1, <2>2 DEF New
<1>16. \A r \in old \cup Kept(t) :
          /\ r \in ColumnRow
          /\ \E row \in rows : r.id = row.id /\ SameColumn(r, row) /\ r.setting = row.setting
  <2> TAKE r \in old \cup Kept(t)
  <2>1. CASE r \in old
    BY <1>2, <1>10, <2>1 DEF SameColumn
  <2>2. CASE r \in Kept(t)
    BY <1>6, <1>7, <2>2 DEF SameColumn
  <2> QED
    BY <2>1, <2>2
<1>17. ASSUME NEW r1 \in old \cup Kept(t), NEW r2 \in old \cup Kept(t), r1.id = r2.id
       PROVE  r1 = r2
  <2>1. CASE r1 \in old /\ r2 \in old
    BY <1>4, <1>10, <1>17, <2>1 DEF OwnColumn
  <2>2. CASE r1 \in Kept(t) /\ r2 \in Kept(t)
    <3>1. PICK o1 \in still, o2 \in still : r1 = renewed(o1) /\ r2 = renewed(o2)
      BY <1>7, <2>2
    <3>2. o1 = o2
      BY <1>4, <1>6, <1>17, <3>1 DEF OwnColumn
    <3> QED
      BY <3>1, <3>2
  <2>3. ASSUME NEW a \in old, NEW b \in Kept(t), a.id = b.id
        PROVE  FALSE
    <3>1. PICK o \in still : b = renewed(o)
      BY <1>7
    <3>2. a = o
      BY <1>4, <1>6, <1>10, <2>3, <3>1 DEF OwnColumn
    <3> QED
      BY <1>6, <1>10, <3>2
  <2> QED
    BY <1>17, <2>1, <2>2, <2>3
<1>18. rows' \subseteq ColumnRow
  BY <1>1, <1>13, <1>16
<1>19. /\ OwnColumn(rows')
       /\ \A r1 \in rows, r2 \in rows' : r1.id = r2.id <=> SameColumn(r1, r2)
       /\ \A row \in rows' : row.id <= lastId'
       /\ FormShown'
  <2>1. Descends(old \cup Kept(t), rows)
    BY <1>16 DEF Descends
  <2>2. \A r \in new : r.id <= lastId'
    BY <1>1, <1>13
  <2>3. form' = form
    BY <1>1
  <2>4. PICK kept : kept = old \cup Kept(t)
    OBVIOUS
  <2>5. rows' = kept \cup new
    BY <1>1, <2>4
  <2> QED
    BY <1>13, <1>14, <1>15, <1>17, <1>18, <2>1, <2>2, <2>3, <2>4, <2>5, Renewed
<1>20. IdsGiven'
  <2>1. \A u \in Tables : config'[u] <= lastId'
    <3> TAKE u \in Tables
    <3>1. config[u] \in Nat /\ config[u] <= lastId /\ config' = config
      BY <1>1, <1>2 DEF GenInv, IdsGiven
    <3> QED
      BY <1>2, <1>14, <3>1
  <2>2. \A u, v \in Tables : config'[u] = config'[v] /\ config'[u] # 0 => u = v
    BY <1>1 DEF GenInv, IdsGiven
  <2> QED
    BY <1>19, <2>1, <2>2 DEF IdsGiven
<1>21. ColumnsConsistent'
  <2>1. ASSUME NEW row \in rows'
        PROVE  \E u \in Tables : row.table = config'[u] /\ config'[u] # 0
    <3>1. CASE row \in old \cup Kept(t)
      <4>1. PICK o \in rows : row.table = o.table
        BY <1>16, <3>1 DEF SameColumn
      <4> QED
        BY <1>1, <4>1 DEF GenInv, ColumnsConsistent, Imported
    <3>2. CASE row \in new
      <4>1. row.table = table
        BY <1>11, <1>13, <3>2
      <4> QED
        BY <1>1, <4>1
    <3> QED
      BY <1>1, <3>1, <3>2
  <2>2. ASSUME NEW u \in Tables, config'[u] # 0
        PROVE  \E row \in rows' : row.table = config'[u]
    <3>1. CASE config[u] = table
      <4>1. PICK c \in Columns : c \in Physical(t)
        BY <1>1 DEF Physical
      <4>2. CASE \E row \in Kept(t) : row.name = c
        <5>1. PICK row \in Kept(t) : row.name = c
          BY <4>2
        <5>2. row.table = table /\ row \in rows'
          BY <1>1, <1>6, <1>7
        <5> QED
          BY <1>1, <3>1, <5>2
      <4>3. CASE \A row \in Kept(t) : row.name # c
        <5>1. <<t, c>> \in columns
          BY <1>11, <4>1, <4>3
        <5>2. PICK r \in new : r.table = config[<<t, c>>[1]]
          BY <1>13, <5>1
        <5> QED
          BY <1>1, <3>1, <5>2
      <4> QED
        BY <4>2, <4>3
    <3>2. CASE config[u] # table
      <4>1. PICK row \in rows : row.table = config[u]
        BY <1>1, <2>2 DEF GenInv, ColumnsConsistent, Of
      <4>2. row \in old
        BY <3>2, <4>1 DEF old, Of
      <4> QED
        BY <1>1, <4>1, <4>2
    <3> QED
      BY <3>1, <3>2
  <2> QED
    BY <1>19, <2>1, <2>2 DEF ColumnsConsistent, Imported, Of, OwnColumn, SameColumn
<1>22. IdentityKept
  <2>1. ASSUME NEW r1 \in rows, NEW r2 \in rows', r1.id = r2.id
        PROVE  r1.setting = r2.setting
    <3>1. r2 \notin new
      BY <1>15, <1>19, <2>1 DEF New, SameColumn
    <3>2. PICK row \in rows : r2.id = row.id /\ r2.setting = row.setting
      BY <1>1, <1>16, <3>1
    <3>3. row = r1
      BY <1>4, <2>1, <3>2 DEF OwnColumn
    <3> QED
      BY <3>2, <3>3
  <2> QED
    BY <1>19, <2>1 DEF IdentityKept, SameColumn
<1>23. GenTypeOK' /\ SchemaKnown'
  BY <1>1, <1>14, <1>18 DEF GenInv, GenTypeOK, SchemaKnown
<1> QED
  BY <1>19, <1>20, <1>21, <1>22, <1>23 DEF GenInv

LEMMA ImportKeeps ==
    ASSUME GenInv, NEW ts \in SUBSET Tables, Import(ts)
    PROVE  GenInv' /\ IdentityKept
<1> DEFINE columns == UNION {{t} \X Physical(t) : t \in ts}
<1>1. /\ \A t \in ts : config[t] = 0 /\ Physical(t) # {}
      /\ InsertTables(ts, columns, schema)
      /\ UNCHANGED <<schema, alters, form>>
  BY DEF Import
<1>2. columns \in SUBSET (ts \X Columns)
  BY DEF Physical
<1>3. \A t \in ts : \E c \in Columns : <<t, c>> \in columns
  <2> TAKE t \in ts
  <2>1. PICK c \in Columns : c \in Physical(t)
    BY <1>1 DEF Physical
  <2>2. <<t, c>> \in {t} \X Physical(t)
    BY <2>1
  <2> QED
    BY <2>2
<1>4. schema \in [Tables -> [Columns -> Nat]]
  <2>1. /\ schema \in [Tables -> [Columns -> 0..MaxAlters + 1]] /\ MaxAlters \in Nat
    BY GeneratorTablesAssumption DEF GenInv, GenTypeOK
  <2>2. \A t \in Tables : schema[t] \in [Columns -> Nat]
    BY <2>1
  <2> QED
    BY <2>1, <2>2
<1> HIDE DEF columns
<1>5. /\ rows' \subseteq ColumnRow /\ lastId' \in 0..MaxGenId
      /\ config' \in [Tables -> 0..MaxGenId]
      /\ IdsGiven' /\ FormShown' /\ ColumnsConsistent' /\ IdentityKept
  BY <1>1, <1>2, <1>3, <1>4, TablesInserted
<1>6. GenTypeOK' /\ SchemaKnown'
  BY <1>1, <1>5 DEF GenInv, GenTypeOK, SchemaKnown
<1> QED
  BY <1>5, <1>6 DEF GenInv

LEMMA GenCreateKeeps ==
    ASSUME GenInv, NEW ts \in SUBSET Tables, NEW columns \in SUBSET Columns, CreateTables(ts, columns)
    PROVE  GenInv' /\ IdentityKept
<1>1. /\ columns # {} /\ alters < MaxAlters
      /\ schema' = Created(ts, columns) /\ alters' = alters + 1 /\ form' = form
  BY DEF CreateTables
<1>2. /\ schema \in [Tables -> [Columns -> 0..MaxAlters + 1]] /\ MaxAlters \in Nat
      /\ alters \in 0..MaxAlters
  BY GeneratorTablesAssumption DEF GenInv, GenTypeOK
<1>3. \A t \in Tables, c \in Columns :
         Created(ts, columns)[t][c] = IF t \in ts THEN IF c \in columns THEN 1 ELSE 0 ELSE schema[t][c]
  BY DEF Created
<1>4. /\ alters' \in 0..MaxAlters
      /\ \A t \in Tables, c \in Columns :
            /\ Created(ts, columns)[t][c] \in 0..MaxAlters + 1
            /\ Created(ts, columns)[t][c] \in 0..alters' + 1
            /\ Created(ts, columns)[t][c] \in Nat
  <2>1. alters' \in 0..MaxAlters
    BY <1>1, <1>2
  <2>2. ASSUME NEW t \in Tables, NEW c \in Columns
        PROVE  Created(ts, columns)[t][c] \in 0..alters' + 1
    <3>1. schema[t][c] \in 0..alters + 1
      BY DEF GenInv, SchemaKnown
    <3> QED
      BY <1>1, <1>2, <1>3, <3>1
  <2> QED
    BY <1>2, <2>1, <2>2
<1>5. /\ schema' \in [Tables -> [Columns -> 0..MaxAlters + 1]]
      /\ Created(ts, columns) \in [Tables -> [Columns -> Nat]]
  <2>1. \A t \in Tables : Created(ts, columns)[t] \in [Columns -> 0..MaxAlters + 1]
    <3> TAKE t \in Tables
    <3>1. Created(ts, columns)[t] = [c \in Columns |-> Created(ts, columns)[t][c]]
      BY <1>2 DEF Created
    <3> QED
      BY <1>4, <3>1
  <2>2. \A t \in Tables : Created(ts, columns)[t] \in [Columns -> Nat]
    BY <1>2, <2>1
  <2>3. Created(ts, columns) = [t \in Tables |-> Created(ts, columns)[t]]
    BY DEF Created
  <2> QED
    BY <1>1, <2>1, <2>2, <2>3
<1>6. SchemaKnown'
  BY <1>1, <1>4 DEF SchemaKnown
<1>7. CASE UNCHANGED <<config, rows, lastId>>
  <2>1. IdsGiven' /\ ColumnsConsistent' /\ IdentityKept
    BY <1>7, RowsAlone
  <2>2. FormShown'
    BY <1>1, <1>7 DEF GenInv, FormShown
  <2>3. GenTypeOK'
    BY <1>1, <1>4, <1>5, <1>7 DEF GenInv, GenTypeOK
  <2> QED
    BY <1>6, <2>1, <2>2, <2>3 DEF GenInv
<1>8. CASE /\ \A t \in ts : config[t] = 0
           /\ InsertTables(ts, ts \X columns, Created(ts, columns))
  <2>1. ts \X columns \in SUBSET (ts \X Columns)
    OBVIOUS
  <2>2. \A t \in ts : config[t] = 0 /\ \E c \in Columns : <<t, c>> \in ts \X columns
    BY <1>1, <1>8
  <2>3. /\ rows' \subseteq ColumnRow /\ lastId' \in 0..MaxGenId
        /\ config' \in [Tables -> 0..MaxGenId]
        /\ IdsGiven' /\ FormShown' /\ ColumnsConsistent' /\ IdentityKept
    BY <1>1, <1>5, <1>8, <2>1, <2>2, TablesInserted
  <2>4. GenTypeOK'
    BY <1>1, <1>4, <1>5, <2>3 DEF GenInv, GenTypeOK
  <2> QED
    BY <1>6, <2>3, <2>4 DEF GenInv
<1> QED
  BY <1>7, <1>8 DEF CreateTables

LEMMA AlterKeeps ==
    ASSUME GenInv, NEW t \in Tables, NEW c \in Columns, Alter(t, c)
    PROVE  GenInv' /\ IdentityKept
<1>1. /\ alters < MaxAlters /\ alters' = alters + 1
      /\ UNCHANGED <<config, rows, lastId, form>>
  BY DEF Alter
<1>2. /\ schema \in [Tables -> [Columns -> 0..MaxAlters + 1]] /\ MaxAlters \in Nat
      /\ alters \in 0..MaxAlters
  BY GeneratorTablesAssumption DEF GenInv, GenTypeOK
<1>3. PICK v \in Nat : schema' = [schema EXCEPT ![t][c] = v] /\ v <= alters + 2
  <2>1. schema[t][c] \in 0..alters + 1
    BY DEF GenInv, SchemaKnown
  <2>2. CASE schema' = [schema EXCEPT ![t][c] = IF @ = 0 THEN 1 ELSE 0]
    <3>1. schema' = [schema EXCEPT ![t][c] = IF schema[t][c] = 0 THEN 1 ELSE 0]
      BY <1>2, <2>2
    <3>2. PICK v \in Nat : v = IF schema[t][c] = 0 THEN 1 ELSE 0
      OBVIOUS
    <3>3. v <= alters + 2
      BY <1>2, <3>2
    <3> QED
      BY <3>1, <3>2, <3>3
  <2>3. CASE schema' = [schema EXCEPT ![t][c] = @ + 1]
    <3>1. PICK v \in Nat : v = schema[t][c] + 1
      BY <1>2
    <3>2. schema' = [schema EXCEPT ![t][c] = v]
      BY <1>2, <2>3, <3>1
    <3>3. v <= alters + 2
      BY <1>2, <2>1, <3>1
    <3> QED
      BY <3>2, <3>3
  <2> QED
    BY <2>2, <2>3 DEF Alter
<1>4. alters' \in 0..MaxAlters
  BY <1>1, <1>2
<1>5. \A u \in Tables, d \in Columns :
         /\ schema'[u][d] = IF u = t /\ d = c THEN v ELSE schema[u][d]
         /\ schema'[u][d] \in 0..alters' + 1
  <2> TAKE u \in Tables, d \in Columns
  <2>1. schema'[u][d] = IF u = t /\ d = c THEN v ELSE schema[u][d]
    BY <1>2, <1>3
  <2>2. schema[u][d] \in 0..alters + 1
    BY DEF GenInv, SchemaKnown
  <2> QED
    BY <1>1, <1>2, <1>3, <2>1, <2>2
<1>6. schema' \in [Tables -> [Columns -> 0..MaxAlters + 1]]
  <2>1. v \in 0..MaxAlters + 1
    BY <1>1, <1>2, <1>3
  <2> QED
    BY <1>2, <1>3, <2>1
<1>7. SchemaKnown'
  BY <1>5 DEF SchemaKnown
<1>8. IdsGiven' /\ ColumnsConsistent' /\ IdentityKept
  BY <1>1, RowsAlone
<1>9. FormShown' /\ GenTypeOK'
  BY <1>1, <1>4, <1>6 DEF GenInv, FormShown, GenTypeOK
<1> QED
  BY <1>7, <1>8, <1>9 DEF GenInv

LEMMA OpenKeeps ==
    ASSUME GenInv, NEW t \in Tables, OpenForm(t)
    PROVE  GenInv' /\ IdentityKept
<1>1. /\ form' = [table |-> config[t], rows |-> {}, read |-> FALSE]
      /\ UNCHANGED <<schema, config, rows, lastId, alters>>
  BY DEF OpenForm
<1>2. config[t] \in 0..MaxGenId /\ config[t] <= lastId
  BY DEF GenInv, GenTypeOK, IdsGiven
<1>3. FormShown'
  BY <1>1, <1>2 DEF FormShown
<1>4. IdsGiven' /\ ColumnsConsistent' /\ IdentityKept
  BY <1>1, RowsAlone
<1>5. GenTypeOK' /\ SchemaKnown'
  BY <1>1, <1>2 DEF GenInv, GenTypeOK, SchemaKnown
<1> QED
  BY <1>3, <1>4, <1>5 DEF GenInv

LEMMA ReadKeeps ==
    ASSUME GenInv, ReadColumns
    PROVE  GenInv' /\ IdentityKept
<1>1. /\ form' = [form EXCEPT !.rows = Of(form.table), !.read = TRUE]
      /\ UNCHANGED <<schema, config, rows, lastId, alters>>
  BY DEF ReadColumns
<1>2. /\ rows \subseteq ColumnRow
      /\ form \in [table: 0..MaxGenId, rows: SUBSET ColumnRow, read: BOOLEAN]
  BY DEF GenInv, GenTypeOK
<1>3. Of(form.table) \subseteq rows /\ \A row \in Of(form.table) : row.table = form.table
  BY DEF Of
<1>4. /\ form' \in [table: 0..MaxGenId, rows: SUBSET ColumnRow, read: BOOLEAN]
      /\ form'.table = form.table /\ form'.rows = Of(form.table)
  BY <1>1, <1>2, <1>3
<1>5. FormShown'
  <2>1. \A shown \in Of(form.table), row \in rows : shown.id = row.id => SameColumn(shown, row)
    BY <1>3, OwnColumnIs DEF GenInv, OwnColumn, SameColumn
  <2>2. \A shown \in Of(form.table) : shown.id <= lastId
    BY <1>3 DEF GenInv, IdsGiven
  <2> QED
    BY <1>1, <1>3, <1>4, <2>1, <2>2 DEF GenInv, FormShown
<1>6. IdsGiven' /\ ColumnsConsistent' /\ IdentityKept
  BY <1>1, RowsAlone
<1>7. GenTypeOK' /\ SchemaKnown'
  BY <1>1, <1>4 DEF GenInv, GenTypeOK, SchemaKnown
<1> QED
  BY <1>5, <1>6, <1>7 DEF GenInv

LEMMA GenKept == GenInv /\ [GenNext]_genVars => GenInv' /\ IdentityKept
<1> SUFFICES ASSUME GenInv, [GenNext]_genVars PROVE GenInv' /\ IdentityKept
  OBVIOUS
<1>1. ASSUME NEW ts \in SUBSET Tables, Import(ts) \/ DeleteGenTables(ts)
      PROVE  GenInv' /\ IdentityKept
  BY <1>1, ImportKeeps, GenDeleteKeeps
<1>2. ASSUME NEW ts \in SUBSET Tables, NEW columns \in SUBSET Columns, CreateTables(ts, columns)
      PROVE  GenInv' /\ IdentityKept
  BY <1>2, GenCreateKeeps
<1>3. ASSUME NEW t \in Tables, OpenForm(t) \/ Sync(t)
      PROVE  GenInv' /\ IdentityKept
  BY <1>3, OpenKeeps, SyncKeeps
<1>4. ASSUME NEW t \in Tables, NEW c \in Columns, Alter(t, c)
      PROVE  GenInv' /\ IdentityKept
  BY <1>4, AlterKeeps
<1>5. ASSUME NEW edited, Edit(edited)
      PROVE  GenInv' /\ IdentityKept
  BY <1>5, EditKeeps
<1>6. CASE UNCHANGED genVars
  <2>1. UNCHANGED <<config, rows, lastId>> /\ UNCHANGED <<schema, alters, form>>
    BY <1>6 DEF genVars
  <2>2. IdsGiven' /\ ColumnsConsistent' /\ IdentityKept
    BY <2>1, RowsAlone
  <2>3. GenTypeOK' /\ SchemaKnown' /\ FormShown'
    BY <2>1 DEF GenInv, GenTypeOK, SchemaKnown, FormShown
  <2> QED
    BY <2>2, <2>3 DEF GenInv
<1> QED
  BY <1>1, <1>2, <1>3, <1>4, <1>5, <1>6, ReadKeeps DEF GenNext

LEMMA GenSafe == GenSpec => []GenInv
<1> QED
  BY GenStarts, GenKept, PTL DEF GenSpec

\* The generator's tables, and a form of them, keep their types.
THEOREM GeneratorTypeCorrect == GenSpec => []GenTypeOK
<1>1. GenInv => GenTypeOK
  BY DEF GenInv
<1> QED
  BY <1>1, GenSafe, PTL

\* The rows are those of imported tables, each of which has some, one for a
\* column, whatever is imported, created, deleted, edited and brought up to date
\* (internal/service/gen.go).
THEOREM ColumnsAlwaysConsistent == GenSpec => []ColumnsConsistent
<1>1. GenInv => ColumnsConsistent
  BY DEF GenInv
<1> QED
  BY <1>1, GenSafe, PTL

\* A column keeps its row and its settings through a synchronisation, and a form
\* sent late changes no other column than it showed (SyncGenTableColumns,
\* UpdateGenTableWithColumns).
THEOREM ColumnsAlwaysKept == GenSpec => [][IdentityKept]_genVars
<1> QED
  BY GenSafe, GenStarts, GenKept, PTL DEF GenSpec

-----------------------------------------------------------------------------
(***************************************************************************)
(* The users to revoke (RevocationQueue).  Every pending user has a mark   *)
(* in the heap and is in the queue or in a batch, and a worker that sleeps *)
(* leaves nobody to himself: that is what the worker knew when it found    *)
(* its batch empty, so it is carried from there on (Dozing => Handled).    *)
(***************************************************************************)
\* What is in a sequence, by its positions.
LEMMA InSequence ==
    ASSUME NEW T, NEW s \in Seq(T)
    PROVE  /\ Len(s) \in Nat
           /\ ToSet(s) \subseteq T
           /\ \A x : x \in ToSet(s) <=> \E i \in 1..Len(s) : s[i] = x
<1>1. Len(s) \in Nat /\ DOMAIN s = 1..Len(s) /\ s \in [1..Len(s) -> T]
  BY LenProperties
<1> QED
  BY <1>1 DEF ToSet

LEMMA InConcat ==
    ASSUME NEW T, NEW s \in Seq(T), NEW t \in Seq(T)
    PROVE  s \o t \in Seq(T) /\ ToSet(s \o t) = ToSet(s) \cup ToSet(t)
<1> DEFINE both == s \o t
<1>1. /\ both \in Seq(T) /\ Len(s) \in Nat /\ Len(t) \in Nat /\ Len(both) = Len(s) + Len(t)
      /\ \A i \in 1..(Len(s) + Len(t)) : both[i] = IF i <= Len(s) THEN s[i] ELSE t[i - Len(s)]
  BY ConcatProperties, InSequence
<1> HIDE DEF both
<1>2. \A x : x \in ToSet(both) <=> \E i \in 1..Len(both) : both[i] = x
  BY <1>1, InSequence
<1>3. /\ \A x : x \in ToSet(s) <=> \E i \in 1..Len(s) : s[i] = x
      /\ \A x : x \in ToSet(t) <=> \E i \in 1..Len(t) : t[i] = x
  BY InSequence
<1>4. ASSUME NEW x \in ToSet(both) PROVE x \in ToSet(s) \cup ToSet(t)
  <2>1. PICK i \in 1..(Len(s) + Len(t)) : both[i] = x
    BY <1>1, <1>2
  <2>2. CASE i <= Len(s)
    BY <1>1, <1>3, <2>1, <2>2
  <2>3. CASE ~ (i <= Len(s))
    <3>1. i - Len(s) \in 1..Len(t) /\ t[i - Len(s)] = x
      BY <1>1, <2>1, <2>3
    <3> QED
      BY <1>3, <3>1
  <2> QED
    BY <2>2, <2>3
<1>5. ASSUME NEW x \in ToSet(s) PROVE x \in ToSet(both)
  <2>1. PICK i \in 1..Len(s) : s[i] = x
    BY <1>3
  <2>2. i \in 1..Len(both) /\ both[i] = x
    BY <1>1, <2>1
  <2> QED
    BY <1>2, <2>2
<1>6. ASSUME NEW x \in ToSet(t) PROVE x \in ToSet(both)
  <2>1. PICK i \in 1..Len(t) : t[i] = x
    BY <1>3
  <2>2. Len(s) + i \in 1..Len(both) /\ both[Len(s) + i] = x
    BY <1>1, <2>1
  <2> QED
    BY <1>2, <2>2
<1>7. ToSet(both) = ToSet(s) \cup ToSet(t)
  BY <1>4, <1>5, <1>6
<1> QED
  BY <1>1, <1>7 DEF both

\* Which positions of S there are up to n.
UpTo(S, n) == {i \in 1..n : i \in S}

LEMMA NextPosition ==
    ASSUME NEW n \in Nat, NEW S
    PROVE  /\ Cardinality(UpTo(S, n)) \in Nat
           /\ Cardinality(UpTo(S, n + 1)) = Cardinality(UpTo(S, n)) + (IF n + 1 \in S THEN 1 ELSE 0)
<1> DEFINE below == {i \in 1..n : i \in S}
           upTo == {i \in 1..(n + 1) : i \in S}
<1>1. IsFiniteSet(1..n)
  BY FS_Interval
<1>2. below \subseteq 1..n /\ n + 1 \notin below
  OBVIOUS
<1>3. upTo = IF n + 1 \in S THEN below \cup {n + 1} ELSE below
  OBVIOUS
<1> HIDE DEF below, upTo
<1>4. IsFiniteSet(below) /\ Cardinality(below) \in Nat
  BY <1>1, <1>2, FS_Subset, FS_CardinalityType
<1>5. Cardinality(below \cup {n + 1}) = Cardinality(below) + 1
  BY <1>2, <1>4, FS_AddElement
<1>6. Cardinality(upTo) = Cardinality(below) + (IF n + 1 \in S THEN 1 ELSE 0)
  <2>1. CASE n + 1 \in S
    <3>1. upTo = below \cup {n + 1}
      BY <1>3, <2>1
    <3> QED
      BY <1>5, <2>1, <3>1
  <2>2. CASE n + 1 \notin S
    <3>1. upTo = below
      BY <1>3, <2>2
    <3> QED
      BY <1>4, <2>2, <3>1
  <2> QED
    BY <2>1, <2>2
<1> QED
  BY <1>4, <1>6 DEF below, upTo, UpTo

\* Filtered keeps what is wanted, as often as it is there.
LEMMA FilteredIs ==
    ASSUME NEW T, NEW s \in Seq(T), NEW wanted
    PROVE  /\ Filtered(s, wanted) \in Seq(T)
           /\ ToSet(Filtered(s, wanted)) = ToSet(s) \cap wanted
           /\ Len(Filtered(s, wanted)) = Cardinality({i \in 1..Len(s) : s[i] \in wanted})
<1> DEFINE size == Len(s)
           V == Seq(T)
           Taking == [n \in 1..size |-> [v \in V |-> IF s[n] \in wanted THEN Append(v, s[n]) ELSE v]]
           Grown(c) == [n \in 0..Len(s) |->
                IF n = 0 THEN << >>
                ELSE IF s[n] \in wanted THEN Append(c[n - 1], s[n]) ELSE c[n - 1]]
           some == CHOOSE c : c = Grown(c)
<1>1. size \in Nat /\ \A n \in 1..size : s[n] \in T
  BY LenProperties, ElementOfSeq
<1>2. \A n \in 1..size, v \in V :
         (IF s[n] \in wanted THEN Append(v, s[n]) ELSE v) \in V
  BY <1>1, AppendProperties
<1>3. Taking \in Steps(size, V) /\ \A n \in 1..size, v \in V :
         Taking[n][v] = IF s[n] \in wanted THEN Append(v, s[n]) ELSE v
  BY <1>2 DEF Steps
<1>4. << >> \in V
  BY EmptySeq
<1> HIDE DEF Taking, V
<1>5. PICK g \in [0..size -> V] : Iterated(g, << >>, size, Taking)
  BY <1>1, <1>3, <1>4, Iterates
<1>6. g = Grown(g)
  <2>1. ASSUME NEW n \in 0..size
        PROVE  g[n] = IF n = 0 THEN << >>
                      ELSE IF s[n] \in wanted THEN Append(g[n - 1], s[n]) ELSE g[n - 1]
    <3>1. CASE n = 0
      BY <1>5, <3>1 DEF Iterated
    <3>2. CASE n # 0
      <4>1. n \in 1..size /\ n - 1 \in 0..size
        BY <1>1, <3>2
      <4>2. g[n] = Taking[n][g[n - 1]] /\ g[n - 1] \in V
        BY <1>5, <4>1 DEF Iterated
      <4> QED
        BY <1>3, <3>2, <4>1, <4>2
    <3> QED
      BY <3>1, <3>2
  <2>2. g = [n \in 0..size |-> g[n]]
    BY <1>5
  <2> QED
    BY <2>1, <2>2
<1>7. some = Grown(some)
  <2> HIDE DEF Grown
  <2> QED
    BY <1>6, Zenon
<1>8. Filtered(s, wanted) = some[Len(s)]
  BY Zenon DEF Filtered
<1> HIDE DEF some
<1>9. some[0] = << >> /\ \A n \in 1..size :
         some[n] = IF s[n] \in wanted THEN Append(some[n - 1], s[n]) ELSE some[n - 1]
  <2> DEFINE next(n) == IF s[n] \in wanted THEN Append(some[n - 1], s[n]) ELSE some[n - 1]
  <2>1. \A n \in 0..size : some[n] = IF n = 0 THEN << >> ELSE next(n)
    BY <1>7
  <2> HIDE DEF next
  <2>2. some[0] = << >>
    <3>1. 0 \in 0..size
      BY <1>1
    <3> QED
      BY <2>1, <3>1
  <2>3. \A n \in 1..size : some[n] = next(n)
    <3>1. \A n \in 1..size : n \in 0..size /\ n # 0
      BY <1>1
    <3> QED
      BY <2>1, <3>1
  <2> QED
    BY <2>2, <2>3 DEF next
<1> HIDE DEF Grown
<1> DEFINE At == {i \in 1..size : s[i] \in wanted}
           Found(n) == UpTo(At, n)
           Right(n) == /\ some[n] \in Seq(T)
                       /\ \A x : x \in ToSet(some[n]) <=> \E i \in 1..n : s[i] = x /\ x \in wanted
                       /\ Len(some[n]) = Cardinality(Found(n))
           Good == {n \in Nat : n <= size => Right(n)}
<1>10. 0 \in Good
  <2>1. Found(0) = {} /\ << >> \in Seq(T) /\ Len(<< >>) = 0
    BY EmptySeq DEF UpTo
  <2>2. Cardinality(Found(0)) = 0
    BY <2>1, FS_EmptySet
  <2>3. \A x : x \in ToSet(<< >>) <=> FALSE
    BY DEF ToSet
  <2>4. \A x : ~ \E i \in 1..0 : s[i] = x /\ x \in wanted
    OBVIOUS
  <2> HIDE DEF At, Found
  <2>5. Right(0)
    BY <1>9, <2>1, <2>2, <2>3, <2>4
  <2> QED
    BY <2>5
<1>11. ASSUME NEW n \in Nat, n \in Good
       PROVE  n + 1 \in Good
  <2>1. SUFFICES ASSUME n + 1 <= size PROVE Right(n + 1)
    BY <1>11
  <2>2. n + 1 \in 1..size /\ (n + 1) - 1 = n /\ n <= size
    BY <1>1, <2>1
  <2>3. Right(n)
    BY <1>11, <2>2
  <2>4. /\ Cardinality(Found(n)) \in Nat
        /\ Cardinality(Found(n + 1)) = Cardinality(Found(n)) + (IF n + 1 \in At THEN 1 ELSE 0)
    <3> HIDE DEF At
    <3> QED
      BY NextPosition
  <2>5. n + 1 \in At <=> s[n + 1] \in wanted
    BY <2>2
  <2> HIDE DEF At, Found
  <2>6. CASE s[n + 1] \in wanted
    <3>1. some[n + 1] = Append(some[n], s[n + 1]) /\ s[n + 1] \in T
      BY <1>1, <1>9, <2>2, <2>6
    <3> DEFINE more == Append(some[n], s[n + 1])
    <3>2. /\ more \in Seq(T) /\ Len(more) = Len(some[n]) + 1 /\ Len(some[n]) \in Nat
          /\ \A i \in 1..Len(some[n]) : more[i] = some[n][i]
          /\ more[Len(some[n]) + 1] = s[n + 1]
      BY <2>3, <3>1, AppendProperties, LenProperties
    <3> HIDE DEF more
    <3>3. /\ \A x : x \in ToSet(more) <=> \E i \in 1..Len(more) : more[i] = x
          /\ \A x : x \in ToSet(some[n]) <=> \E i \in 1..Len(some[n]) : some[n][i] = x
      BY <2>3, <3>2, InSequence
    <3>4. \A x : x \in ToSet(more) <=> x \in ToSet(some[n]) \/ x = s[n + 1]
      <4> TAKE x
      <4>1. \A i : i \in 1..Len(more) <=> i \in 1..Len(some[n]) \/ i = Len(some[n]) + 1
        BY <3>2
      <4> QED
        BY <3>2, <3>3, <4>1
    <3>5. \A x : x \in ToSet(more) <=> \E i \in 1..(n + 1) : s[i] = x /\ x \in wanted
      <4> TAKE x
      <4>1. x \in ToSet(some[n]) <=> \E i \in 1..n : s[i] = x /\ x \in wanted
        BY <2>3
      <4>2. \A i : i \in 1..(n + 1) <=> i \in 1..n \/ i = n + 1
        OBVIOUS
      <4> QED
        BY <2>6, <3>4, <4>1, <4>2
    <3>6. Len(more) = Cardinality(Found(n + 1))
      BY <2>3, <2>4, <2>5, <2>6, <3>2
    <3> QED
      BY <3>1, <3>2, <3>5, <3>6 DEF more
  <2>7. CASE s[n + 1] \notin wanted
    <3>1. some[n + 1] = some[n]
      BY <1>9, <2>2, <2>7
    <3>2. \A x : x \in ToSet(some[n]) <=> \E i \in 1..(n + 1) : s[i] = x /\ x \in wanted
      <4> TAKE x
      <4>1. x \in ToSet(some[n]) <=> \E i \in 1..n : s[i] = x /\ x \in wanted
        BY <2>3
      <4>2. \A i : i \in 1..(n + 1) <=> i \in 1..n \/ i = n + 1
        OBVIOUS
      <4> QED
        BY <2>7, <4>1, <4>2
    <3>3. Len(some[n]) = Cardinality(Found(n + 1))
      BY <2>3, <2>4, <2>5, <2>7
    <3> QED
      BY <2>3, <3>1, <3>2, <3>3
  <2> QED
    BY <2>6, <2>7
<1> HIDE DEF Good
<1>12. Nat \subseteq Good
  BY <1>10, <1>11, NatInduct
<1>13. Right(size)
  <2> HIDE DEF Right
  <2> QED
    BY <1>1, <1>12 DEF Good
<1>14. Found(size) = {i \in 1..Len(s) : s[i] \in wanted}
  BY DEF UpTo
<1>15. \A x : x \in ToSet(s) <=> \E i \in 1..Len(s) : s[i] = x
  BY InSequence
<1> QED
  BY <1>8, <1>13, <1>14, <1>15

LEMMA QueueTypes ==
    ASSUME QueueTypeOK
    PROVE  /\ pending \in [Users -> Nat] /\ order \in Seq(Users) /\ Len(order) \in Nat
           /\ clock \in Nat /\ BatchSize \in Nat /\ BatchSize # 0
           /\ \A u \in Users : u \in Pending <=> pending[u] # 0
<1>1. pending \in [Users -> Nat]
  BY DEF QueueTypeOK
<1>2. order \in Seq(Users) /\ Len(order) \in Nat
  BY LenProperties DEF QueueTypeOK
<1> QED
  BY <1>1, <1>2, LimitAssumption DEF QueueTypeOK, Pending

\* takeBatch stops at the first position by which it has a whole batch.
LEMMA PoppedIs ==
    ASSUME QueueTypeOK
    PROVE  /\ Popped \in 0..Len(order)
           /\ Cardinality({i \in 1..Popped : order[i] \in Pending}) \in 0..BatchSize
           /\ \/ Cardinality({i \in 1..Popped : order[i] \in Pending}) = BatchSize
              \/ Popped = Len(order)
<1> DEFINE size == Len(order)
           At == {i \in 1..size : order[i] \in Pending}
           had(n) == Cardinality(UpTo(At, n))
           found(n) == Cardinality({i \in 1..n : pending[order[i]] # 0})
           Halts == {n \in 0..size : had(n) = BatchSize \/ n = size}
           First(n) == /\ had(n) = BatchSize \/ n = size
                       /\ \A k \in 0..(n - 1) : had(k) < BatchSize
<1>1. /\ size \in Nat /\ BatchSize \in Nat /\ BatchSize # 0
      /\ \A i \in 1..size : order[i] \in Users /\ (pending[order[i]] # 0 <=> i \in At)
  <2>1. \A i \in 1..size : order[i] \in Users
    BY QueueTypes, ElementOfSeq
  <2> QED
    BY <2>1, QueueTypes
<1>2. \A n \in 0..size : {i \in 1..n : pending[order[i]] # 0} = UpTo(At, n)
  <2> TAKE n \in 0..size
  <2>1. \A i \in 1..n : i \in 1..size
    BY <1>1
  <2> HIDE DEF At
  <2> QED
    BY <1>1, <2>1 DEF UpTo
<1>3. \A n \in 0..size : found(n) = had(n)
  BY <1>2
<1>4. \A n \in 0..size : {i \in 1..n : order[i] \in Pending} = UpTo(At, n)
  <2> TAKE n \in 0..size
  <2>1. \A i \in 1..n : i \in 1..size
    BY <1>1
  <2> QED
    BY <2>1 DEF UpTo
<1> HIDE DEF At, size
<1>5. ASSUME NEW n \in Nat
      PROVE  /\ had(n) \in Nat
             /\ had(n + 1) = had(n) + (IF n + 1 \in At THEN 1 ELSE 0)
  BY NextPosition
<1>6. had(0) = 0
  <2>1. UpTo(At, 0) = {}
    BY DEF UpTo
  <2> QED
    BY <2>1, FS_EmptySet
<1> HIDE DEF had, found
<1>7. \E n \in 0..size : First(n)
  <2>1. Halts \subseteq Nat /\ Halts # {}
    BY <1>1
  <2>2. PICK n \in Halts : \A m \in Halts : n <= m
    <3> HIDE DEF Halts
    <3> QED
      BY <2>1, NatMin
  <2>3. n \in 0..size /\ n \in Nat
    BY <1>1
  <2> DEFINE Less == {k \in Nat : k < n => had(k) < BatchSize}
  <2>4. 0 \in Less
    BY <1>1, <1>6
  <2>5. ASSUME NEW k \in Nat, k \in Less
        PROVE  k + 1 \in Less
    <3>1. SUFFICES ASSUME k + 1 < n PROVE had(k + 1) < BatchSize
      BY <2>5
    <3>2. k < n
      BY <2>3, <3>1
    <3>3. had(k) < BatchSize
      BY <2>5, <3>2
    <3>4. k + 1 \notin Halts
      BY <2>2, <2>3, <3>1
    <3>5. k + 1 \in 0..size
      BY <1>1, <2>3, <3>1
    <3>6. had(k + 1) # BatchSize
      BY <3>4, <3>5
    <3> QED
      BY <1>1, <1>5, <3>3, <3>6
  <2> HIDE DEF Less
  <2>6. Nat \subseteq Less
    BY <2>4, <2>5, NatInduct
  <2>7. \A k \in 0..(n - 1) : had(k) < BatchSize
    <3> TAKE k \in 0..(n - 1)
    <3>1. k \in Nat /\ k < n
      BY <2>3
    <3> QED
      BY <2>6, <3>1 DEF Less
  <2>8. had(n) = BatchSize \/ n = size
    OBVIOUS
  <2> QED
    BY <2>3, <2>7, <2>8
<1>8. \A n \in 0..size : First(n) <=> /\ found(n) = BatchSize \/ n = size
                                      /\ \A k \in 0..(n - 1) : found(k) < BatchSize
  <2> TAKE n \in 0..size
  <2>1. \A k \in 0..(n - 1) : k \in 0..size
    BY <1>1
  <2> QED
    BY <1>3, <2>1
<1> DEFINE n == Popped
<1>9. n \in 0..size /\ First(n)
  <2>1. Popped = CHOOSE m \in 0..size : /\ found(m) = BatchSize \/ m = size
                                        /\ \A k \in 0..(m - 1) : found(k) < BatchSize
    BY DEF Popped, found, size
  <2>2. \E m \in 0..size : /\ found(m) = BatchSize \/ m = size
                           /\ \A k \in 0..(m - 1) : found(k) < BatchSize
    <3> HIDE DEF First
    <3> QED
      BY <1>7, <1>8
  <2>3. /\ n \in 0..size
        /\ found(n) = BatchSize \/ n = size
        /\ \A k \in 0..(n - 1) : found(k) < BatchSize
    BY <2>1, <2>2, Zenon
  <2> HIDE DEF n, First
  <2> QED
    BY <1>8, <2>3
<1> HIDE DEF n
<1>10. had(n) \in 0..BatchSize
  <2>1. CASE n = 0
    BY <1>1, <1>6, <2>1
  <2>2. CASE n # 0
    <3>1. n - 1 \in 0..(n - 1) /\ n - 1 \in Nat /\ (n - 1) + 1 = n
      BY <1>1, <1>9, <2>2
    <3>2. had(n - 1) < BatchSize
      BY <1>9, <3>1
    <3>3. /\ had(n - 1) \in Nat /\ had(n) \in Nat
          /\ had(n) = had(n - 1) + (IF n \in At THEN 1 ELSE 0)
      BY <1>1, <1>5, <1>9, <3>1
    <3> QED
      BY <1>1, <3>2, <3>3
  <2> QED
    BY <2>1, <2>2
<1>11. {i \in 1..n : order[i] \in Pending} = UpTo(At, n)
  BY <1>4, <1>9
<1> QED
  BY <1>9, <1>10, <1>11 DEF n, size, had

\* A batch has the pending users of what is popped, and no more than it may.
LEMMA BatchIs ==
    ASSUME QueueTypeOK, NEW batch, batch = Filtered(SubSeq(order, 1, Popped), Pending)
    PROVE  /\ batch \in Batches
           /\ SubSeq(order, Popped + 1, Len(order)) \in Seq(Users)
           /\ \A u \in Pending : u \in ToSet(order) =>
                 u \in ToSet(batch) \/ u \in ToSet(SubSeq(order, Popped + 1, Len(order)))
           /\ batch = << >> => Pending \cap ToSet(order) = {}
<1> DEFINE n == Popped
           size == Len(order)
           front == SubSeq(order, 1, n)
           rest == SubSeq(order, n + 1, size)
<1>1. /\ order \in Seq(Users) /\ size \in Nat /\ BatchSize \in Nat /\ BatchSize # 0
      /\ \A i \in 1..size : order[i] \in Users
  BY QueueTypes, ElementOfSeq
<1>2. n \in 0..size /\ n \in Int /\ Cardinality({i \in 1..n : order[i] \in Pending}) \in 0..BatchSize
      /\ (Cardinality({i \in 1..n : order[i] \in Pending}) = BatchSize \/ n = size)
  BY <1>1, PoppedIs
<1> HIDE DEF n
<1>3. /\ front \in Seq(Users) /\ Len(front) = n /\ \A i \in 1..n : front[i] = order[i]
  <2>1. \A i \in 1..n : i \in 1..size
    BY <1>1, <1>2
  <2>2. \A i \in 1..n : order[i] \in Users
    BY <1>1, <2>1
  <2>3. n - 1 + 1 = n /\ \A i \in 1..n : 1 + i - 1 = i
    BY <1>2
  <2> QED
    BY <1>2, <2>2, <2>3, SubSeqProperties
<1>4. /\ rest \in Seq(Users) /\ Len(rest) = size - n
      /\ \A i \in 1..(size - n) : rest[i] = order[n + i]
  <2>1. \A i \in (n + 1)..size : i \in 1..size
    BY <1>1, <1>2
  <2>2. \A i \in (n + 1)..size : order[i] \in Users
    BY <1>1, <2>1
  <2>3. n + 1 \in Int /\ size \in Int
    BY <1>1, <1>2
  <2>4. /\ rest \in Seq(Users) /\ Len(rest) = IF n + 1 <= size THEN size - (n + 1) + 1 ELSE 0
        /\ \A i \in 1..(size - (n + 1) + 1) : rest[i] = order[(n + 1) + i - 1]
    BY <2>2, <2>3, SubSeqProperties
  <2>5. /\ size - (n + 1) + 1 = size - n
        /\ \A i \in 1..(size - n) : (n + 1) + i - 1 = n + i
    BY <1>1, <1>2
  <2>6. Len(rest) = size - n
    BY <1>1, <1>2, <2>4
  <2> QED
    BY <2>4, <2>5, <2>6
<1>5. /\ batch \in Seq(Users) /\ ToSet(batch) = ToSet(front) \cap Pending
      /\ Len(batch) = Cardinality({i \in 1..Len(front) : front[i] \in Pending})
  <2>1. batch = Filtered(front, Pending)
    BY DEF n
  <2> HIDE DEF front
  <2> QED
    BY <1>3, <2>1, FilteredIs
<1> HIDE DEF front, rest
<1>6. {i \in 1..Len(front) : front[i] \in Pending} = {i \in 1..n : order[i] \in Pending}
  BY <1>3
<1>7. Len(batch) \in 0..BatchSize
  BY <1>2, <1>5, <1>6
<1>8. batch \in Batches
  <2>1. batch \in [1..Len(batch) -> Users]
    BY <1>5, LenProperties
  <2> QED
    BY <1>7, <2>1 DEF Batches
<1>9. ASSUME NEW u \in Pending, u \in ToSet(order)
      PROVE  u \in ToSet(batch) \/ u \in ToSet(rest)
  <2>1. PICK i \in 1..size : order[i] = u
    BY <1>1, <1>9, InSequence
  <2>2. CASE i <= n
    <3>1. i \in 1..n
      BY <1>1, <1>2, <2>2
    <3>2. u \in ToSet(front)
      BY <1>3, <2>1, <3>1, InSequence
    <3> QED
      BY <1>5, <3>2
  <2>3. CASE ~ (i <= n)
    <3>1. i - n \in 1..(size - n) /\ n + (i - n) = i
      BY <1>1, <1>2, <2>3
    <3>2. rest[i - n] = u
      BY <1>4, <2>1, <3>1
    <3>3. u \in ToSet(rest)
      BY <1>4, <3>1, <3>2, InSequence
    <3> QED
      BY <3>3
  <2> QED
    BY <2>2, <2>3
<1>10. ASSUME batch = << >>
       PROVE  Pending \cap ToSet(order) = {}
  <2>1. Len(batch) = 0 /\ ToSet(batch) = {}
    BY <1>10 DEF ToSet
  <2>2. n = size
    BY <1>1, <1>2, <1>5, <1>6, <2>1
  <2>3. Len(rest) = 0
    BY <1>1, <1>4, <2>2
  <2>4. \A u : u \notin ToSet(rest)
    <3>1. \A u : u \in ToSet(rest) => \E i \in 1..0 : rest[i] = u
      BY <1>4, <2>3, InSequence
    <3> QED
      BY <3>1
  <2> QED
    BY <1>9, <2>1, <2>4
<1> QED
  BY <1>4, <1>8, <1>9, <1>10 DEF rest, n

-----------------------------------------------------------------------------
\* The heap is in the order of time, and has the mark of everybody pending.
Sorted(heap) == \A i, j \in 1..Len(heap) : i <= j => heap[i].at <= heap[j].at
MarkedIn(heap) ==
    \A u \in Users : pending[u] # 0 =>
        \E i \in 1..Len(heap) : heap[i].user = u /\ heap[i].at = pending[u]

HeapInv == Sorted(oldest) /\ MarkedIn(oldest)

HeapOf(c) == Seq([user: Users, at: 1..c])

LEMMA EntriesAre ==
    ASSUME NEW c \in Nat, NEW heap \in HeapOf(c)
    PROVE  /\ Len(heap) \in Nat /\ DOMAIN heap = 1..Len(heap)
           /\ \A i \in 1..Len(heap) : heap[i].user \in Users /\ heap[i].at \in Nat /\ heap[i].at <= c /\ heap[i].at # 0
<1>1. /\ Len(heap) \in Nat /\ DOMAIN heap = 1..Len(heap)
      /\ \A i \in 1..Len(heap) : heap[i] \in [user: Users, at: 1..c]
  BY LenProperties, ElementOfSeq DEF HeapOf
<1> QED
  BY <1>1

\* What stats pops are marks that are over, so what is left is still such a heap,
\* with the earliest mark that is not over on top.
LEMMA TrimmedIs ==
    ASSUME QueueTypeOK, HeapInv
    PROVE  /\ Trimmed \in HeapOf(clock) /\ Sorted(Trimmed) /\ MarkedIn(Trimmed)
           /\ Pending # {} => Trimmed # << >> /\ Head(Trimmed).at = Min({pending[u] : u \in Pending})
<1> DEFINE valid == {i \in DOMAIN oldest : pending[oldest[i].user] = oldest[i].at}
           size == Len(oldest)
           low == Min(valid)
           rest == SubSeq(oldest, low, size)
<1>1. /\ oldest \in HeapOf(clock) /\ clock \in Nat /\ pending \in [Users -> Nat]
      /\ \A u \in Users : u \in Pending <=> pending[u] # 0
      /\ size \in Nat /\ DOMAIN oldest = 1..size
      /\ \A i \in 1..size : /\ oldest[i].user \in Users /\ oldest[i].at \in Nat
                            /\ oldest[i].at <= clock /\ oldest[i].at # 0
  BY QueueTypes, EntriesAre DEF QueueTypeOK, HeapOf
<1>2. Trimmed = IF valid = {} THEN << >> ELSE rest
  BY DEF Trimmed
<1>3. \A u \in Pending : \E i \in valid : oldest[i].user = u /\ oldest[i].at = pending[u]
  BY <1>1 DEF HeapInv, MarkedIn, Pending
<1>4. CASE valid = {}
  <2>1. Pending = {}
    BY <1>3, <1>4
  <2>2. Trimmed = << >> /\ Len(<< >>) = 0
    BY <1>2, <1>4
  <2>3. Trimmed \in HeapOf(clock)
    BY <2>2, EmptySeq DEF HeapOf
  <2>4. Sorted(Trimmed)
    BY <2>2 DEF Sorted
  <2>5. MarkedIn(Trimmed)
    BY <1>1, <2>1 DEF MarkedIn
  <2> QED
    BY <2>1, <2>3, <2>4, <2>5
<1>5. CASE valid # {}
  <2>1. valid \subseteq Nat /\ valid \subseteq 1..size
    BY <1>1
  <2>2. low \in valid /\ \A i \in valid : low <= i
    <3>1. \E n \in valid : \A m \in valid : n <= m
      <4> HIDE DEF valid
      <4> QED
        BY <1>5, <2>1, NatMin
    <3> HIDE DEF valid
    <3> QED
      BY <3>1 DEF Min
  <2> HIDE DEF low
  <2>3. low \in 1..size /\ low \in Nat
    BY <2>1, <2>2
  <2>4. /\ rest \in HeapOf(clock) /\ Len(rest) = size - low + 1
        /\ \A i \in 1..(size - low + 1) : rest[i] = oldest[low + i - 1]
    <3>1. \A i \in low..size : oldest[i] \in [user: Users, at: 1..clock]
      <4>1. \A i \in low..size : i \in 1..size
        BY <1>1, <2>3
      <4> QED
        BY <1>1, <4>1, ElementOfSeq DEF HeapOf
    <3>2. low \in Int /\ size \in Int /\ low <= size
      BY <1>1, <2>3
    <3> QED
      BY <3>1, <3>2, SubSeqProperties DEF HeapOf
  <2>5. Trimmed = rest
    BY <1>2, <1>5
  <2> HIDE DEF rest
  <2>6. \A i \in 1..(size - low + 1) : low + i - 1 \in 1..size
    BY <1>1, <2>3
  <2>7. Sorted(rest)
    <3> SUFFICES ASSUME NEW i \in 1..(size - low + 1), NEW j \in 1..(size - low + 1), i <= j
                 PROVE  rest[i].at <= rest[j].at
      BY <2>4 DEF Sorted
    <3>1. low + i - 1 <= low + j - 1
      BY <1>1, <2>3
    <3>2. oldest[low + i - 1].at <= oldest[low + j - 1].at
      BY <2>6, <3>1 DEF HeapInv, Sorted
    <3> QED
      BY <2>4, <3>2
  <2>8. ASSUME NEW i \in valid
        PROVE  i - low + 1 \in 1..(size - low + 1) /\ rest[i - low + 1] = oldest[i]
    <3>1. i \in 1..size /\ low <= i
      BY <2>1, <2>2
    <3>2. i - low + 1 \in 1..(size - low + 1) /\ low + (i - low + 1) - 1 = i
      BY <1>1, <2>3, <3>1
    <3> HIDE DEF valid
    <3> QED
      BY <2>4, <3>2
  <2>9. MarkedIn(rest)
    <3> HIDE DEF valid
    <3> QED
      BY <1>1, <1>3, <2>4, <2>8 DEF MarkedIn
  <2>10. ASSUME Pending # {}
         PROVE  rest # << >> /\ Head(rest).at = Min({pending[u] : u \in Pending})
    <3> DEFINE times == {pending[u] : u \in Pending}
               first == oldest[low].at
    <3>1. first \in times
      <4>1. oldest[low].user \in Users /\ pending[oldest[low].user] = first /\ first # 0
        BY <1>1, <2>2, <2>3
      <4>2. oldest[low].user \in Pending
        BY <1>1, <4>1
      <4> QED
        BY <4>1, <4>2
    <3>2. ASSUME NEW t \in times PROVE first <= t
      <4>1. PICK u \in Pending : t = pending[u]
        OBVIOUS
      <4>2. PICK i \in valid : oldest[i].at = t
        BY <1>3, <4>1
      <4>3. low <= i /\ i \in 1..size
        BY <2>1, <2>2
      <4> QED
        BY <2>3, <4>2, <4>3 DEF HeapInv, Sorted
    <3>3. times \subseteq Nat
      BY <1>1 DEF Pending
    <3>4. rest # << >> /\ Head(rest) = rest[1] /\ rest[1] = oldest[low]
      <4>1. Len(rest) # 0 /\ 1 \in 1..(size - low + 1) /\ low + 1 - 1 = low
        BY <1>1, <2>3, <2>4
      <4>2. rest # << >>
        BY <4>1
      <4>3. Head(rest) = rest[1]
        BY <2>4, <4>2 DEF HeapOf
      <4> QED
        BY <2>4, <4>1, <4>2, <4>3
    <3> HIDE DEF times
    <3>5. Min(times) \in times /\ \A t \in times : Min(times) <= t
      BY <3>1, <3>2 DEF Min
    <3>6. Min(times) = first
      <4>1. Min(times) <= first /\ first <= Min(times) /\ first \in Nat /\ Min(times) \in Nat
        BY <3>1, <3>2, <3>3, <3>5
      <4> QED
        BY <4>1
    <3> QED
      BY <3>4, <3>6 DEF times
  <2> QED
    BY <2>4, <2>5, <2>7, <2>9, <2>10
<1> QED
  BY <1>4, <1>5

\* What mark does to the queue: users of us become pending, are queued and have
\* their mark in the heap, at a time later than all others.
LEMMA MarkIs ==
    ASSUME QueueTypeOK, HeapInv, NEW us \in SUBSET Users, NEW dropped, Mark(us, dropped)
    PROVE  /\ clock' \in Nat /\ pending' \in [Users -> 0..clock'] /\ order' \in Seq(Users)
           /\ oldest' \in HeapOf(clock') /\ HeapInv'
           /\ Pending' \subseteq Pending \cup us
           /\ Pending' \subseteq Pending \cup ToSet(order') /\ ToSet(order) \subseteq ToSet(order')
<1> DEFINE new == (us \ Pending) \ dropped
<1>1. /\ clock \in Nat /\ pending \in [Users -> 0..clock] /\ order \in Seq(Users)
      /\ oldest \in HeapOf(clock)
      /\ \A u \in Users : u \in Pending <=> pending[u] # 0
  BY QueueTypes DEF QueueTypeOK, HeapOf
<1>2. CASE new = {}
  <2>1. UNCHANGED <<pending, order, oldest, clock>>
    BY <1>2 DEF Mark, queue
  <2> QED
    BY <1>1, <2>1 DEF HeapInv, Sorted, MarkedIn, Pending
<1>3. CASE new # {}
  <2>1. /\ clock' = clock + Cardinality(new)
        /\ pending' = [u \in Users |-> IF u \in new THEN clock' ELSE pending[u]]
        /\ \E s \in SetToSeqs(new) :
              /\ order' = order \o s
              /\ oldest' = oldest \o [i \in DOMAIN s |-> [user |-> s[i], at |-> clock']]
    BY <1>3 DEF Mark
  <2>2. PICK s \in SetToSeqs(new) :
              /\ order' = order \o s
              /\ oldest' = oldest \o [i \in DOMAIN s |-> [user |-> s[i], at |-> clock']]
    BY <2>1
  <2>3. new \subseteq Users /\ new \subseteq us /\ new \cap Pending = {} /\ IsFiniteSet(new)
    <3>1. new \subseteq Users /\ new \subseteq us /\ new \cap Pending = {}
      OBVIOUS
    <3> HIDE DEF new
    <3> QED
      BY <3>1, LimitAssumption, FS_Subset
  <2> HIDE DEF new
  <2> DEFINE n == Cardinality(new)
             now == clock + n
             marks == [i \in 1..n |-> [user |-> s[i], at |-> now]]
             Entry == [user: Users, at: 1..now]
             size == Len(oldest)
  <2>4. /\ s \in Seq(new) /\ ToSet(s) = new /\ DOMAIN s = 1..n /\ n \in Nat
        /\ \A i \in 1..n : s[i] \in new
    BY <2>3, EnumerationIs
  <2>5. n # 0
    BY <1>3, <2>3, FS_EmptySet
  <2>6. clock' = now /\ now \in Nat /\ now > clock /\ now # 0
    BY <1>1, <2>1, <2>4, <2>5
  <2> HIDE DEF n, now
  <2>7. oldest' = oldest \o marks
    BY <2>2, <2>4, <2>6
  <2>8. pending' = [u \in Users |-> IF u \in new THEN now ELSE pending[u]]
    BY <2>1, <2>6
  <2>9. pending' \in [Users -> 0..clock']
    <3>1. \A u \in Users : pending[u] \in 0..now
      BY <1>1, <2>6
    <3>2. now \in 0..now
      BY <2>6
    <3> QED
      BY <2>6, <2>8, <3>1, <3>2
  <2>10. \A u \in Users : /\ pending'[u] = (IF u \in new THEN now ELSE pending[u])
                          /\ u \in Pending' <=> u \in Pending \cup new
    <3> TAKE u \in Users
    <3>1. pending'[u] = IF u \in new THEN now ELSE pending[u]
      BY <2>8
    <3>2. u \in Pending' <=> pending'[u] # 0
      BY DEF Pending
    <3> QED
      BY <1>1, <2>6, <3>1, <3>2
  <2>11. Pending' \subseteq Users
    BY DEF Pending
  <2>12. s \in Seq(Users)
    BY <2>3, <2>4, SeqMonotonic
  <2>13. order' \in Seq(Users) /\ ToSet(order') = ToSet(order) \cup new
    BY <1>1, <2>2, <2>4, <2>12, InConcat
  <2>14. marks \in Seq(Entry) /\ Len(marks) = n /\ \A i \in 1..n : marks[i] = [user |-> s[i], at |-> now]
    <3>1. now \in 1..now
      BY <2>6
    <3>2. \A i \in 1..n : [user |-> s[i], at |-> now] \in Entry
      BY <2>3, <2>4, <3>1
    <3>3. marks \in [1..n -> Entry]
      BY <3>2
    <3>4. \A i \in 1..n : marks[i] = [user |-> s[i], at |-> now]
      OBVIOUS
    <3> HIDE DEF marks, Entry
    <3> QED
      BY <2>4, <3>3, <3>4
  <2> HIDE DEF marks
  <2>15. oldest \in Seq(Entry)
    <3>1. [user: Users, at: 1..clock] \subseteq Entry
      <4>1. 1..clock \subseteq 1..now
        BY <1>1, <2>6
      <4> QED
        BY <4>1
    <3> QED
      BY <1>1, <3>1, SeqMonotonic DEF HeapOf
  <2> HIDE DEF Entry
  <2>16. /\ oldest' \in Seq(Entry) /\ Len(oldest') = size + n /\ size \in Nat
         /\ \A i \in 1..(size + n) : oldest'[i] = IF i <= size THEN oldest[i] ELSE marks[i - size]
    BY <2>7, <2>14, <2>15, ConcatProperties, LenProperties
  <2>17. \A i \in 1..size : oldest[i].at \in Nat /\ oldest[i].at <= clock
    BY <1>1, EntriesAre
  <2> HIDE DEF size
  <2>18. \A i \in 1..(size + n) : /\ i <= size => i \in 1..size /\ oldest'[i] = oldest[i]
                                  /\ ~ (i <= size) => oldest'[i].at = now
    <3> TAKE i \in 1..(size + n)
    <3>1. CASE i <= size
      BY <2>16, <3>1
    <3>2. CASE ~ (i <= size)
      <4>1. i - size \in 1..n
        BY <2>4, <2>16, <3>2
      <4> QED
        BY <2>14, <2>16, <3>2, <4>1
    <3> QED
      BY <3>1, <3>2
  <2>19. Sorted(oldest')
    <3> SUFFICES ASSUME NEW i \in 1..(size + n), NEW j \in 1..(size + n), i <= j
                 PROVE  oldest'[i].at <= oldest'[j].at
      BY <2>16 DEF Sorted
    <3>1. CASE j <= size
      <4>1. i <= size
        BY <2>4, <2>16, <3>1
      <4> QED
        BY <2>18, <3>1, <4>1 DEF HeapInv, Sorted, size
    <3>2. CASE ~ (j <= size)
      <4>1. oldest'[j].at = now
        BY <2>18, <3>2
      <4>2. CASE i <= size
        <5>1. oldest'[i].at \in Nat /\ oldest'[i].at <= clock
          BY <2>17, <2>18, <4>2
        <5> QED
          BY <1>1, <2>6, <4>1, <5>1
      <4>3. CASE ~ (i <= size)
        BY <2>6, <2>18, <4>1, <4>3
      <4> QED
        BY <4>2, <4>3
    <3> QED
      BY <3>1, <3>2
  <2>20. MarkedIn(oldest)'
    <3> SUFFICES ASSUME NEW u \in Users, pending'[u] # 0
                 PROVE  \E i \in 1..(size + n) : oldest'[i].user = u /\ oldest'[i].at = pending'[u]
      BY <2>16 DEF MarkedIn
    <3>1. CASE u \in new
      <4>1. PICK i \in 1..n : s[i] = u
        BY <2>4, <3>1 DEF ToSet
      <4>2. size + i \in 1..(size + n) /\ ~ (size + i <= size) /\ (size + i) - size = i
        BY <2>4, <2>16
      <4>3. oldest'[size + i] = marks[i]
        BY <2>16, <4>2
      <4>4. marks[i] = [user |-> u, at |-> now]
        BY <2>14, <4>1
      <4>5. pending'[u] = now
        BY <2>10, <3>1
      <4> QED
        BY <4>2, <4>3, <4>4, <4>5
    <3>2. CASE u \notin new
      <4>1. pending'[u] = pending[u]
        BY <2>10, <3>2
      <4>2. PICK i \in 1..size : oldest[i].user = u /\ oldest[i].at = pending[u]
        BY <4>1 DEF HeapInv, MarkedIn, size
      <4>3. i \in 1..(size + n) /\ i <= size
        BY <2>4, <2>16
      <4> QED
        BY <2>18, <4>1, <4>2, <4>3
    <3> QED
      BY <3>1, <3>2
  <2>21. HeapInv'
    BY <2>19, <2>20 DEF HeapInv, Sorted
  <2> QED
    BY <2>3, <2>6, <2>9, <2>10, <2>11, <2>13, <2>16, <2>21 DEF HeapOf, Entry
<1> QED
  BY <1>2, <1>3

-----------------------------------------------------------------------------
\* The caller compensates while it has an attempt, and remembers nobody else's
\* failures.
CallerAt ==
    /\ attempt["caller"].pc # "idle" <=> caller.pc = "compensate"
    /\ caller.pc # "refresh" => caller.ids = {} /\ caller.failed = {}

Carries(g) == attempt[g].pc \in {"revoke", "finish"}
Carrying == \A g \in Goroutines : Carries(g) => attempt[g].batch # << >>

\* Whoever is pending is the caller's, or the worker is or will be told. A worker
\* that found nobody goes to sleep, so it holds for it from then on.
Handled == Pending \subseteq caller.ids \cup caller.failed \/ wake \/ attempt["caller"].pc # "idle"
Dozing == \/ attempt["worker"].pc = "idle"
          \/ attempt["worker"].pc = "stats" /\ attempt["worker"].batch = << >>

QueueInv ==
    /\ QueueTypeOK /\ HeapInv /\ CallerAt /\ Carrying
    /\ PendingQueued /\ (Dozing => Handled)

\* What OldestReported says of a step.
Reported ==
    \A g \in Goroutines :
        attempt[g].pc = "stats" /\ attempt'[g].pc # "stats" /\ Pending # {} =>
           oldest' # << >> /\ Head(oldest').at = Min({pending[u] : u \in Pending})

InHands(u) == \E g \in Goroutines : Carries(g) /\ u \in ToSet(attempt[g].batch)

LEMMA QueuedIs == PendingQueued <=> \A u \in Pending : u \in ToSet(order) \/ InHands(u)
<1>1. \A u : u \in InFlight <=> InHands(u)
  BY DEF InFlight, InHands, Carries
<1> QED
  BY <1>1 DEF PendingQueued

LEMMA QueueStarts == QueueInit => QueueInv
<1> SUFFICES ASSUME QueueInit PROVE QueueInv
  OBVIOUS
<1>1. /\ pending = [u \in Users |-> 0] /\ order = << >> /\ oldest = << >> /\ clock = 0
      /\ wake = FALSE /\ stopped = FALSE /\ attemptMu = "free" /\ caller = NoCaller
      /\ attempt = [g \in Goroutines |-> NoAttempt]
  BY DEF QueueInit
<1>2. << >> \in Batches
  <2>1. << >> \in [1..0 -> Users] /\ 0 \in 0..BatchSize
    BY LimitAssumption
  <2> QED
    BY <2>1 DEF Batches
<1>3. attempt \in [Goroutines -> [pc: AttemptPC, batch: Batches, failures: SUBSET Users]]
  BY <1>1, <1>2 DEF NoAttempt, AttemptPC
<1>4. << >> \in Seq(Users) /\ << >> \in Seq([user: Users, at: 1..clock]) /\ Len(<< >>) = 0
  BY EmptySeq
<1>5. pending \in [Users -> 0..clock]
  BY <1>1
<1>6. caller \in [pc: {"idle", "refresh", "compensate"}, ids: SUBSET Users, failed: SUBSET Users]
  BY <1>1 DEF NoCaller
<1>7. QueueTypeOK
  BY <1>1, <1>3, <1>4, <1>5, <1>6 DEF QueueTypeOK
<1>8. Pending = {}
  BY <1>1 DEF Pending
<1>9. HeapInv
  BY <1>1, <1>4 DEF HeapInv, Sorted, MarkedIn
<1>10. CallerAt /\ Carrying
  BY <1>1 DEF CallerAt, Carrying, Carries, NoAttempt, NoCaller, Goroutines
<1> QED
  BY <1>7, <1>8, <1>9, <1>10 DEF QueueInv, PendingQueued, Handled

\* Who is released is not pending any more, and his mark stays in the heap.
LEMMA ReleasedIs ==
    ASSUME QueueTypeOK, HeapInv, UNCHANGED <<oldest, clock>>,
           pending' \in [Users -> Nat], \A u \in Users : pending'[u] \in {pending[u], 0}
    PROVE  pending' \in [Users -> 0..clock'] /\ HeapInv' /\ Pending' \subseteq Pending
<1>1. pending \in [Users -> 0..clock] /\ clock \in Nat
  BY DEF QueueTypeOK
<1>2. \A u \in Users : pending'[u] \in 0..clock'
  BY <1>1
<1>3. MarkedIn(oldest)'
  BY DEF HeapInv, MarkedIn
<1>4. Sorted(oldest)'
  BY DEF HeapInv, Sorted
<1>5. \A u \in Pending' : u \in Users /\ pending'[u] # 0
  BY DEF Pending
<1>6. Pending' \subseteq Pending
  BY <1>5 DEF Pending
<1> QED
  BY <1>2, <1>3, <1>4, <1>6 DEF HeapInv

\* A step of the caller that is not in an attempt.
LEMMA CallerStep ==
    ASSUME QueueInv, UNCHANGED <<wake, attemptMu, attempt>>, stopped' \in BOOLEAN,
           clock' \in Nat, pending' \in [Users -> 0..clock'], order' \in Seq(Users),
           oldest' \in HeapOf(clock'), HeapInv', CallerAt',
           caller' \in [pc: {"idle", "refresh", "compensate"}, ids: SUBSET Users, failed: SUBSET Users],
           Pending' \subseteq Pending \cup ToSet(order'), ToSet(order) \subseteq ToSet(order'),
           Pending \subseteq caller.ids \cup caller.failed => Pending' \subseteq caller'.ids \cup caller'.failed
    PROVE  QueueInv' /\ Reported
<1>1. QueueTypeOK'
  <2>1. wake' \in BOOLEAN
    <3>1. wake \in BOOLEAN /\ wake' = wake
      BY DEF QueueInv, QueueTypeOK
    <3> QED
      BY <3>1, Zenon
  <2>2. /\ attemptMu' \in Goroutines \cup {"free"}
        /\ attempt' \in [Goroutines -> [pc: AttemptPC, batch: Batches, failures: SUBSET Users]]
    BY DEF QueueInv, QueueTypeOK
  <2> QED
    BY <2>1, <2>2 DEF QueueTypeOK, HeapOf
<1>2. Carrying'
  BY DEF QueueInv, Carrying, Carries
<1>3. \A u \in Pending' : u \in ToSet(order') \/ InHands(u)'
  <2>1. \A u : InHands(u)' <=> InHands(u)
    BY DEF InHands, Carries
  <2>2. \A u \in Pending : u \in ToSet(order) \/ InHands(u)
    BY QueuedIs DEF QueueInv
  <2> QED
    BY <2>1, <2>2
<1>4. PendingQueued'
  <2>1. (\A u \in Pending : u \in ToSet(order) \/ InHands(u))'
    BY <1>3
  <2> QED
    BY <2>1, QueuedIs, PTL
<1>5. Dozing' => Handled'
  BY DEF QueueInv, Dozing, Handled
<1>6. Reported
  BY DEF Reported
<1> QED
  BY <1>1, <1>2, <1>4, <1>5, <1>6 DEF QueueInv

LEMMA CallerTypes ==
    ASSUME QueueTypeOK
    PROVE  /\ caller \in [pc: {"idle", "refresh", "compensate"}, ids: SUBSET Users, failed: SUBSET Users]
           /\ pending \in [Users -> 0..clock] /\ pending \in [Users -> Nat] /\ clock \in Nat
           /\ order \in Seq(Users) /\ oldest \in HeapOf(clock)
BY QueueTypes DEF QueueTypeOK, HeapOf

LEMMA StartRefreshKeeps ==
    ASSUME QueueInv, NEW us \in SUBSET Users, StartRefresh(us)
    PROVE  QueueInv' /\ Reported
<1>1. /\ caller.pc = "idle" /\ UNCHANGED <<wake, stopped, attemptMu, attempt>>
      /\ caller' = [NoCaller EXCEPT !.pc = "refresh", !.ids = us]
  BY DEF StartRefresh
<1>2. PICK dropped \in SUBSET us : Mark(us, dropped)
  BY DEF StartRefresh
<1>3. /\ clock' \in Nat /\ pending' \in [Users -> 0..clock'] /\ order' \in Seq(Users)
      /\ oldest' \in HeapOf(clock') /\ HeapInv'
      /\ Pending' \subseteq Pending \cup us
      /\ Pending' \subseteq Pending \cup ToSet(order') /\ ToSet(order) \subseteq ToSet(order')
  BY <1>2, MarkIs DEF QueueInv
<1>4. /\ caller'.pc = "refresh" /\ caller'.ids = us /\ caller'.failed = {}
      /\ caller' \in [pc: {"idle", "refresh", "compensate"}, ids: SUBSET Users, failed: SUBSET Users]
  BY <1>1 DEF NoCaller
<1>5. CallerAt' /\ caller.ids = {} /\ caller.failed = {}
  BY <1>1, <1>4 DEF QueueInv, CallerAt
<1>6. stopped' \in BOOLEAN
  <2>1. stopped \in BOOLEAN /\ stopped' = stopped
    BY <1>1 DEF QueueInv, QueueTypeOK
  <2> QED
    BY <2>1, Zenon
<1> QED
  BY <1>1, <1>3, <1>4, <1>5, <1>6, CallerStep

\* A step of the caller that releases u, or nobody.
LEMMA CallerReleases ==
    ASSUME QueueInv, NEW u \in Users, ClearMark(u) \/ UNCHANGED queue,
           UNCHANGED <<wake, attemptMu, attempt>>, stopped' \in BOOLEAN,
           caller' \in [pc: {"idle", "refresh", "compensate"}, ids: SUBSET Users, failed: SUBSET Users],
           CallerAt',
           \A v \in Pending' : v \in caller.ids \cup caller.failed => v \in caller'.ids \cup caller'.failed
    PROVE  QueueInv' /\ Reported
<1>1. UNCHANGED <<order, oldest, clock>>
  BY DEF ClearMark, queue
<1>2. pending' \in [Users -> Nat] /\ \A v \in Users : pending'[v] \in {pending[v], 0}
  <2>1. pending \in [Users -> Nat]
    BY CallerTypes DEF QueueInv
  <2>2. pending' = [pending EXCEPT ![u] = 0] \/ pending' = pending
    BY DEF ClearMark, queue
  <2> QED
    BY <2>1, <2>2
<1>3. pending' \in [Users -> 0..clock'] /\ HeapInv' /\ Pending' \subseteq Pending
  BY <1>1, <1>2, ReleasedIs DEF QueueInv
<1>4. clock' \in Nat /\ order' \in Seq(Users) /\ oldest' \in HeapOf(clock')
  BY <1>1, CallerTypes DEF QueueInv, HeapOf
<1>5. Pending' \subseteq Pending \cup ToSet(order') /\ ToSet(order) \subseteq ToSet(order')
  BY <1>1, <1>3
<1> QED
  BY <1>3, <1>4, <1>5, CallerStep

LEMMA RefreshKeeps ==
    ASSUME QueueInv, NEW u \in Users, RefreshUser(u) \/ FailUser(u) \/ LazyRefreshed(u)
    PROVE  QueueInv' /\ Reported
<1>1. UNCHANGED <<wake, attemptMu, attempt>> /\ stopped' = stopped /\ (ClearMark(u) \/ UNCHANGED queue)
  BY DEF RefreshUser, FailUser, LazyRefreshed
<1>2. stopped' \in BOOLEAN
  <2>1. stopped \in BOOLEAN
    BY DEF QueueInv, QueueTypeOK
  <2> QED
    BY <1>1, <2>1, Zenon
<1>3. caller \in [pc: {"idle", "refresh", "compensate"}, ids: SUBSET Users, failed: SUBSET Users]
  BY CallerTypes DEF QueueInv
<1>4. ClearMark(u) => u \notin Pending'
  <2>1. ASSUME ClearMark(u) PROVE pending'[u] = 0
    BY <2>1, CallerTypes DEF QueueInv, ClearMark
  <2> QED
    BY <2>1 DEF Pending
<1>5. CASE LazyRefreshed(u)
  <2>1. caller' = caller
    BY <1>5 DEF LazyRefreshed
  <2>2. CallerAt'
    BY <1>1, <2>1 DEF QueueInv, CallerAt
  <2> QED
    BY <1>1, <1>2, <1>3, <2>1, <2>2, CallerReleases
<1>6. CASE RefreshUser(u)
  <2>1. caller.pc = "refresh" /\ ClearMark(u) /\ caller' = [caller EXCEPT !.ids = @ \ {u}]
    BY <1>6 DEF RefreshUser
  <2>2. /\ caller'.pc = "refresh" /\ caller'.ids = caller.ids \ {u} /\ caller'.failed = caller.failed
        /\ caller' \in [pc: {"idle", "refresh", "compensate"}, ids: SUBSET Users, failed: SUBSET Users]
    BY <1>3, <2>1
  <2>3. CallerAt'
    BY <1>1, <2>1, <2>2 DEF QueueInv, CallerAt
  <2> QED
    BY <1>1, <1>2, <1>4, <2>1, <2>2, <2>3, CallerReleases
<1>7. CASE FailUser(u)
  <2>1. caller.pc = "refresh" /\ caller' = [caller EXCEPT !.ids = @ \ {u}, !.failed = @ \cup {u}]
    BY <1>7 DEF FailUser
  <2>2. /\ caller'.pc = "refresh" /\ caller'.ids = caller.ids \ {u} /\ caller'.failed = caller.failed \cup {u}
        /\ caller' \in [pc: {"idle", "refresh", "compensate"}, ids: SUBSET Users, failed: SUBSET Users]
    BY <1>3, <2>1
  <2>3. CallerAt'
    BY <1>1, <2>1, <2>2 DEF QueueInv, CallerAt
  <2> QED
    BY <1>1, <1>2, <2>2, <2>3, CallerReleases
<1> QED
  BY <1>5, <1>6, <1>7

-----------------------------------------------------------------------------
Attempts == [pc: AttemptPC, batch: Batches, failures: SUBSET Users]
TookOver(u, g) == u \in ToSet(order') \/ (Carries(g)' /\ u \in ToSet(attempt'[g].batch))

\* A step of an attempt: the pending users of the queue and of the batch are
\* in the queue or in the batch afterwards.
LEMMA AttemptStep ==
    ASSUME QueueInv, NEW g \in Goroutines,
           attempt' \in [Goroutines -> Attempts], \A h \in Goroutines : h # g => attempt'[h] = attempt[h],
           Carries(g)' => attempt'[g].batch # << >>,
           wake' \in BOOLEAN, stopped' = stopped, attemptMu' \in Goroutines \cup {"free"},
           clock' \in Nat, pending' \in [Users -> 0..clock'], order' \in Seq(Users),
           oldest' \in HeapOf(clock'), HeapInv', CallerAt',
           caller' \in [pc: {"idle", "refresh", "compensate"}, ids: SUBSET Users, failed: SUBSET Users],
           \A u \in Pending' : u \in Pending \/ u \in ToSet(order'),
           \A u \in Pending' : u \in ToSet(order) => TookOver(u, g),
           \A u \in Pending' : Carries(g) /\ u \in ToSet(attempt[g].batch) => TookOver(u, g),
           Dozing' => Handled', Reported
    PROVE  QueueInv' /\ Reported
<1>1. QueueTypeOK'
  <2>1. stopped' \in BOOLEAN
    <3>1. stopped \in BOOLEAN
      BY DEF QueueInv, QueueTypeOK
    <3> QED
      BY <3>1, Zenon
  <2>2. attempt' \in [Goroutines -> [pc: AttemptPC, batch: Batches, failures: SUBSET Users]]
    BY DEF Attempts
  <2> QED
    BY <2>1, <2>2 DEF QueueTypeOK, HeapOf
<1>2. Carrying'
  <2> SUFFICES ASSUME NEW h \in Goroutines, Carries(h)' PROVE attempt'[h].batch # << >>
    BY DEF Carrying
  <2>1. CASE h = g
    BY <2>1
  <2>2. CASE h # g
    BY <2>2 DEF QueueInv, Carrying, Carries
  <2> QED
    BY <2>1, <2>2
<1>3. \A u \in Pending' : u \in ToSet(order') \/ InHands(u)'
  <2> TAKE u \in Pending'
  <2>1. TookOver(u, g) => u \in ToSet(order') \/ InHands(u)'
    BY DEF TookOver, InHands
  <2>2. CASE u \in Pending
    <3>1. u \in ToSet(order) \/ InHands(u)
      BY <2>2, QueuedIs DEF QueueInv
    <3>2. CASE u \in ToSet(order)
      BY <2>1, <3>2
    <3>3. CASE InHands(u)
      <4>1. PICK h \in Goroutines : Carries(h) /\ u \in ToSet(attempt[h].batch)
        BY <3>3 DEF InHands
      <4>2. CASE h = g
        BY <2>1, <4>1, <4>2
      <4>3. CASE h # g
        <5>1. Carries(h)' /\ u \in ToSet(attempt'[h].batch)
          BY <4>1, <4>3 DEF Carries
        <5> QED
          BY <5>1 DEF InHands
      <4> QED
        BY <4>2, <4>3
    <3> QED
      BY <3>1, <3>2, <3>3
  <2>3. CASE u \in ToSet(order')
    BY <2>3
  <2> QED
    BY <2>2, <2>3
<1>4. PendingQueued'
  <2>1. (\A u \in Pending : u \in ToSet(order) \/ InHands(u))'
    BY <1>3
  <2> QED
    BY <2>1, QueuedIs, PTL
<1> QED
  BY <1>1, <1>2, <1>4 DEF QueueInv

LEMMA GotoIs ==
    ASSUME QueueTypeOK, NEW g \in Goroutines, NEW pc \in AttemptPC, Goto(g, pc)
    PROVE  /\ attempt' \in [Goroutines -> Attempts]
           /\ attempt'[g].pc = pc /\ attempt'[g].batch = attempt[g].batch
           /\ attempt'[g].failures = attempt[g].failures
           /\ \A h \in Goroutines : h # g => attempt'[h] = attempt[h]
<1>1. attempt \in [Goroutines -> Attempts]
  BY DEF QueueTypeOK, Attempts
<1>2. attempt' = [attempt EXCEPT ![g] = [attempt[g] EXCEPT !.pc = pc]]
  BY DEF Goto
<1>3. attempt[g] \in Attempts
  BY <1>1
<1>4. /\ [attempt[g] EXCEPT !.pc = pc] \in Attempts
      /\ [attempt[g] EXCEPT !.pc = pc].pc = pc
      /\ [attempt[g] EXCEPT !.pc = pc].batch = attempt[g].batch
      /\ [attempt[g] EXCEPT !.pc = pc].failures = attempt[g].failures
  BY <1>3 DEF Attempts
<1>5. attempt'[g] = [attempt[g] EXCEPT !.pc = pc] /\ \A h \in Goroutines : h # g => attempt'[h] = attempt[h]
  BY <1>1, <1>2
<1>6. attempt' \in [Goroutines -> Attempts]
  BY <1>1, <1>2, <1>4
<1> QED
  BY <1>4, <1>5, <1>6

\* A step of the worker that leaves the queue as it is.
LEMMA WorkerGoes ==
    ASSUME QueueInv, NEW pc \in AttemptPC, Goto("worker", pc), pc \notin {"idle", "stats", "revoke", "finish"},
           attempt["worker"].pc \in {"idle", "backoff"},
           wake' \in BOOLEAN, UNCHANGED <<queue, stopped, attemptMu, caller>>
    PROVE  QueueInv' /\ Reported
<1> DEFINE g == "worker"
<1>1. g \in Goroutines /\ "caller" \in Goroutines
  BY DEF Goroutines
<1>2. QueueTypeOK
  BY DEF QueueInv
<1>3. /\ attempt' \in [Goroutines -> Attempts] /\ attempt'[g].pc = pc
      /\ \A h \in Goroutines : h # g => attempt'[h] = attempt[h]
  BY <1>1, <1>2, GotoIs
<1>4. /\ attemptMu' \in Goroutines \cup {"free"} /\ clock' \in Nat /\ pending' \in [Users -> 0..clock']
      /\ order' \in Seq(Users) /\ oldest' \in HeapOf(clock')
      /\ caller' \in [pc: {"idle", "refresh", "compensate"}, ids: SUBSET Users, failed: SUBSET Users]
  BY <1>2, CallerTypes DEF QueueTypeOK, queue, HeapOf
<1>5. HeapInv'
  BY DEF QueueInv, HeapInv, Sorted, MarkedIn, queue
<1>6. CallerAt'
  BY <1>1, <1>3 DEF QueueInv, CallerAt
<1>7. Pending' = Pending /\ order' = order
  BY DEF Pending, queue
<1>8. ~ Carries(g) /\ ~ Carries(g)' /\ ~ Dozing'
  BY <1>3 DEF Carries, Dozing
<1>9. Reported
  BY <1>3 DEF Reported
<1>10. \A u \in Pending' : u \in ToSet(order) => TookOver(u, g)
  BY <1>7 DEF TookOver
<1> QED
  BY <1>1, <1>3, <1>4, <1>5, <1>6, <1>7, <1>8, <1>9, <1>10, AttemptStep

\* WakeUp, Retry and StopWorker: the worker turns to something else.
LEMMA WorkerTurns ==
    ASSUME QueueInv, WakeUp \/ Retry \/ StopWorker
    PROVE  QueueInv' /\ Reported
<1>1. wake' \in BOOLEAN
  <2>1. wake \in BOOLEAN
    BY DEF QueueInv, QueueTypeOK
  <2>2. wake' = FALSE \/ wake' = wake
    BY Zenon DEF WakeUp, Retry, StopWorker
  <2> QED
    BY <2>1, <2>2, Zenon
<1>2. "attempt" \in AttemptPC /\ "done" \in AttemptPC
  BY DEF AttemptPC
<1>3. /\ Goto("worker", "attempt") \/ Goto("worker", "done")
      /\ attempt["worker"].pc \in {"idle", "backoff"}
      /\ UNCHANGED <<queue, stopped, attemptMu, caller>>
  BY DEF WakeUp, Retry, StopWorker
<1> QED
  BY <1>1, <1>2, <1>3, WorkerGoes

LEMMA ShutdownKeeps ==
    ASSUME QueueInv, Shutdown \/ FinishRefresh
    PROVE  QueueInv' /\ Reported
<1>1. UNCHANGED <<queue, wake, attemptMu, attempt>>
  BY DEF Shutdown, FinishRefresh
<1>2. stopped' \in BOOLEAN
  <2>1. stopped \in BOOLEAN
    BY DEF QueueInv, QueueTypeOK
  <2>2. stopped' = TRUE \/ stopped' = stopped
    BY Zenon DEF Shutdown, FinishRefresh
  <2> QED
    BY <2>1, <2>2, Zenon
<1>3. caller \in [pc: {"idle", "refresh", "compensate"}, ids: SUBSET Users, failed: SUBSET Users]
  BY CallerTypes DEF QueueInv
<1>4. /\ caller' \in [pc: {"idle", "refresh", "compensate"}, ids: SUBSET Users, failed: SUBSET Users]
      /\ CallerAt'
      /\ Pending \subseteq caller.ids \cup caller.failed => Pending \subseteq caller'.ids \cup caller'.failed
  <2>1. CASE Shutdown
    BY <1>1, <1>3, <2>1 DEF Shutdown, QueueInv, CallerAt
  <2>2. CASE FinishRefresh
    <3>1. /\ caller.pc = "refresh" /\ caller.ids = {} /\ caller.failed = {}
          /\ caller' = [pc |-> "idle", ids |-> {}, failed |-> {}]
      BY <2>2 DEF FinishRefresh, NoCaller
    <3> QED
      BY <1>1, <3>1 DEF QueueInv, CallerAt
  <2> QED
    BY <2>1, <2>2
<1>5. UNCHANGED <<pending, order, oldest, clock>> /\ Pending' = Pending
  BY <1>1 DEF queue, Pending
<1>6. HeapInv'
  BY <1>5 DEF QueueInv, HeapInv, Sorted, MarkedIn
<1>7. /\ clock' \in Nat /\ pending' \in [Users -> 0..clock'] /\ order' \in Seq(Users)
      /\ oldest' \in HeapOf(clock')
  BY <1>5, CallerTypes DEF QueueInv, HeapOf
<1> QED
  BY <1>1, <1>2, <1>4, <1>5, <1>6, <1>7, CallerStep

\* compensate marks whoever failed, and starts an attempt.
LEMMA CompensateKeeps ==
    ASSUME QueueInv, NEW us \in SUBSET Users, Compensate(us)
    PROVE  QueueInv' /\ Reported
<1> DEFINE g == "caller"
<1>1. /\ Goto(g, "attempt") /\ caller' = [pc |-> "compensate", ids |-> {}, failed |-> {}]
      /\ caller.pc \in {"refresh", "idle"} /\ stopped' = stopped /\ wake' = wake /\ attemptMu' = attemptMu
  BY DEF Compensate, NoCaller
<1>2. PICK dropped \in SUBSET us : Mark(us, dropped)
  BY DEF Compensate
<1>3. /\ clock' \in Nat /\ pending' \in [Users -> 0..clock'] /\ order' \in Seq(Users)
      /\ oldest' \in HeapOf(clock') /\ HeapInv'
      /\ Pending' \subseteq Pending \cup ToSet(order') /\ ToSet(order) \subseteq ToSet(order')
  BY <1>2, MarkIs DEF QueueInv
<1>4. g \in Goroutines /\ "attempt" \in AttemptPC
  BY DEF Goroutines, AttemptPC
<1>5. /\ attempt' \in [Goroutines -> Attempts] /\ attempt'[g].pc = "attempt"
      /\ \A h \in Goroutines : h # g => attempt'[h] = attempt[h]
  BY <1>1, <1>4, GotoIs DEF QueueInv
<1>6. attempt[g].pc = "idle"
  BY <1>1 DEF QueueInv, CallerAt
<1>7. CallerAt' /\ Handled'
  BY <1>1, <1>5 DEF CallerAt, Handled
<1>8. wake' \in BOOLEAN
  <2>1. wake \in BOOLEAN
    BY DEF QueueInv, QueueTypeOK
  <2> QED
    BY <1>1, <2>1, Zenon
<1>9. attemptMu' \in Goroutines \cup {"free"}
  BY <1>1 DEF QueueInv, QueueTypeOK
<1>10. ~ Carries(g) /\ ~ Carries(g)'
  BY <1>5, <1>6 DEF Carries
<1>11. Reported
  BY <1>5, <1>6 DEF Reported
<1>12. \A u \in Pending' : u \in ToSet(order) => TookOver(u, g)
  BY <1>3 DEF TookOver
<1>13. caller' \in [pc: {"idle", "refresh", "compensate"}, ids: SUBSET Users, failed: SUBSET Users]
  BY <1>1
<1> QED
  BY <1>1, <1>3, <1>4, <1>5, <1>7, <1>8, <1>9, <1>10, <1>11, <1>12, <1>13, AttemptStep

\* What both goroutines do after a batch: stats has popped what is over.
LEMMA StatsKeeps ==
    ASSUME QueueInv, NEW g \in Goroutines, NEW pc \in AttemptPC, Goto(g, pc),
           attempt[g].pc = "stats", pc \in {"idle", "attempt", "backoff"},
           oldest' = Trimmed, UNCHANGED <<pending, order, clock, stopped, attemptMu>>,
           wake' \in BOOLEAN, CallerAt',
           caller' \in [pc: {"idle", "refresh", "compensate"}, ids: SUBSET Users, failed: SUBSET Users],
           Dozing' => Handled'
    PROVE  QueueInv' /\ Reported
<1>1. QueueTypeOK /\ HeapInv
  BY DEF QueueInv
<1>2. /\ attempt' \in [Goroutines -> Attempts] /\ attempt'[g].pc = pc
      /\ \A h \in Goroutines : h # g => attempt'[h] = attempt[h]
  BY <1>1, GotoIs
<1>3. /\ attemptMu' \in Goroutines \cup {"free"} /\ clock' \in Nat /\ pending' \in [Users -> 0..clock']
      /\ order' \in Seq(Users)
  BY <1>1, CallerTypes DEF QueueTypeOK
<1>4. /\ Trimmed \in HeapOf(clock) /\ Sorted(Trimmed) /\ MarkedIn(Trimmed)
      /\ Pending # {} => Trimmed # << >> /\ Head(Trimmed).at = Min({pending[u] : u \in Pending})
  BY <1>1, TrimmedIs
<1>5. oldest' \in HeapOf(clock')
  BY <1>4 DEF HeapOf
<1>6. HeapInv'
  <2>1. Sorted(oldest)'
    BY <1>4 DEF Sorted
  <2>2. MarkedIn(oldest)'
    BY <1>4 DEF MarkedIn
  <2> QED
    BY <2>1, <2>2 DEF HeapInv
<1>7. Reported
  BY <1>2, <1>4 DEF Reported
<1>8. Pending' = Pending
  BY DEF Pending
<1>9. ~ Carries(g) /\ ~ Carries(g)'
  BY <1>2 DEF Carries
<1>10. \A u \in Pending' : u \in ToSet(order) => TookOver(u, g)
  BY DEF TookOver
<1> QED
  BY <1>2, <1>3, <1>5, <1>6, <1>7, <1>8, <1>9, <1>10, AttemptStep

LEMMA ReturnKeeps ==
    ASSUME QueueInv, Return
    PROVE  QueueInv' /\ Reported
<1> DEFINE g == "caller"
<1>1. /\ attempt[g].pc = "stats" /\ oldest' = Trimmed /\ Goto(g, "idle")
      /\ caller' = [pc |-> "idle", ids |-> {}, failed |-> {}]
      /\ UNCHANGED <<pending, order, clock, stopped, attemptMu>>
  BY DEF Return, NoCaller
<1>2. wake' = (wake \/ Pending # {})
  BY DEF Return
<1>3. g \in Goroutines /\ "idle" \in AttemptPC
  BY DEF Goroutines, AttemptPC
<1>4. attempt'[g].pc = "idle"
  BY <1>1, <1>3, GotoIs DEF QueueInv
<1>5. CallerAt'
  BY <1>1, <1>4 DEF CallerAt
<1>6. wake' \in BOOLEAN
  BY <1>2, Zenon
<1>7. Handled'
  <2>1. Pending' = Pending
    BY <1>1 DEF Pending
  <2>2. wake' \/ Pending' = {}
    BY <1>2, <2>1, Zenon
  <2>3. CASE wake'
    BY <2>3, Zenon DEF Handled
  <2>4. CASE Pending' = {}
    BY <2>4 DEF Handled
  <2> QED
    BY <2>2, <2>3, <2>4
<1>8. caller' \in [pc: {"idle", "refresh", "compensate"}, ids: SUBSET Users, failed: SUBSET Users]
  BY <1>1
<1> QED
  BY <1>1, <1>3, <1>5, <1>6, <1>7, <1>8, StatsKeeps

\* The worker goes to sleep when its batch was empty, or when nobody is pending.
LEMMA AfterBatchKeeps ==
    ASSUME QueueInv, AfterBatch
    PROVE  QueueInv' /\ Reported
<1> DEFINE g == "worker"
<1>1. PICK pc \in {"idle", "attempt", "backoff"} :
         /\ Goto(g, pc)
         /\ pc = "idle" => attempt[g].batch = << >> \/ Pending = {}
  <2>1. LET pc == IF attempt[g].batch = << >> \/ Pending = {} THEN "idle"
                  ELSE IF attempt[g].failures = {} THEN "attempt" ELSE "backoff"
        IN Goto(g, pc)
    BY DEF AfterBatch
  <2>2. CASE attempt[g].batch = << >> \/ Pending = {}
    BY <2>1, <2>2
  <2>3. CASE ~ (attempt[g].batch = << >> \/ Pending = {}) /\ attempt[g].failures = {}
    BY <2>1, <2>3
  <2>4. CASE ~ (attempt[g].batch = << >> \/ Pending = {}) /\ attempt[g].failures # {}
    BY <2>1, <2>4
  <2> QED
    BY <2>2, <2>3, <2>4
<1>2. /\ attempt[g].pc = "stats" /\ oldest' = Trimmed
      /\ UNCHANGED <<pending, order, clock, wake, stopped, attemptMu, caller>>
  BY DEF AfterBatch
<1>3. g \in Goroutines /\ "caller" \in Goroutines /\ pc \in AttemptPC
  BY DEF Goroutines, AttemptPC
<1>4. attempt'[g].pc = pc /\ \A h \in Goroutines : h # g => attempt'[h] = attempt[h]
  BY <1>1, <1>3, GotoIs DEF QueueInv
<1>5. CallerAt'
  BY <1>2, <1>3, <1>4 DEF QueueInv, CallerAt
<1>6. wake' \in BOOLEAN
  <2>1. wake \in BOOLEAN
    BY DEF QueueInv, QueueTypeOK
  <2> QED
    BY <1>2, <2>1, Zenon
<1>7. Dozing' => Handled'
  <2>1. SUFFICES ASSUME Dozing' PROVE Handled'
    OBVIOUS
  <2>2. pc = "idle"
    BY <1>1, <1>4, <2>1 DEF Dozing
  <2>3. CASE attempt[g].batch = << >>
    <3>1. Handled
      BY <1>2, <2>3 DEF QueueInv, Dozing
    <3> QED
      BY <1>2, <1>3, <1>4, <3>1 DEF Handled, Pending
  <2>4. CASE Pending = {}
    BY <1>2, <2>4 DEF Handled, Pending
  <2> QED
    BY <1>1, <2>2, <2>3, <2>4
<1>8. caller' \in [pc: {"idle", "refresh", "compensate"}, ids: SUBSET Users, failed: SUBSET Users]
  BY <1>2, CallerTypes DEF QueueInv
<1> QED
  BY <1>1, <1>2, <1>3, <1>5, <1>6, <1>7, <1>8, StatsKeeps

\* A batch takes over the pending users that it popped. That it is empty means
\* that nobody is pending but whom the other goroutine has in its hands.
LEMMA TakeBatchKeeps ==
    ASSUME QueueInv, NEW g \in Goroutines, TakeBatch(g)
    PROVE  QueueInv' /\ Reported
<1> DEFINE rest == SubSeq(order, Popped + 1, Len(order))
<1>1. PICK batch : batch = Filtered(SubSeq(order, 1, Popped), Pending)
  OBVIOUS
<1>2. /\ attempt[g].pc = "attempt" /\ order' = rest
      /\ attempt' = [attempt EXCEPT ![g] =
            [pc |-> IF batch = << >> THEN "stats" ELSE "revoke", batch |-> batch, failures |-> {}]]
      /\ attemptMu' = (IF batch = << >> THEN "free" ELSE g)
      /\ UNCHANGED <<pending, oldest, clock, wake, stopped, caller>>
  BY <1>1 DEF TakeBatch
<1>3. /\ batch \in Batches /\ rest \in Seq(Users)
      /\ \A u \in Pending : u \in ToSet(order) => u \in ToSet(batch) \/ u \in ToSet(rest)
      /\ batch = << >> => Pending \cap ToSet(order) = {}
  BY <1>1, BatchIs DEF QueueInv
<1> HIDE DEF rest
<1>4. PICK pc \in {"stats", "revoke"} : pc = IF batch = << >> THEN "stats" ELSE "revoke"
  OBVIOUS
<1>5. attempt \in [Goroutines -> Attempts] /\ "caller" \in Goroutines /\ "worker" \in Goroutines
  BY DEF QueueInv, QueueTypeOK, Attempts, Goroutines
<1>6. [pc |-> pc, batch |-> batch, failures |-> {}] \in Attempts
  BY <1>3 DEF Attempts, AttemptPC
<1>7. /\ attempt' \in [Goroutines -> Attempts]
      /\ attempt'[g] = [pc |-> pc, batch |-> batch, failures |-> {}]
      /\ \A h \in Goroutines : h # g => attempt'[h] = attempt[h]
  BY <1>2, <1>4, <1>5, <1>6
<1>8. attemptMu' \in Goroutines \cup {"free"}
  BY <1>2
<1>9. wake' \in BOOLEAN
  <2>1. wake \in BOOLEAN
    BY DEF QueueInv, QueueTypeOK
  <2> QED
    BY <1>2, <2>1, Zenon
<1>10. /\ clock' \in Nat /\ pending' \in [Users -> 0..clock'] /\ order' \in Seq(Users)
       /\ oldest' \in HeapOf(clock')
       /\ caller' \in [pc: {"idle", "refresh", "compensate"}, ids: SUBSET Users, failed: SUBSET Users]
  BY <1>2, <1>3, CallerTypes DEF QueueInv, HeapOf
<1>11. HeapInv'
  BY <1>2 DEF QueueInv, HeapInv, Sorted, MarkedIn
<1>12. CallerAt'
  BY <1>2, <1>5, <1>7 DEF QueueInv, CallerAt
<1>13. Carries(g)' => attempt'[g].batch # << >>
  BY <1>4, <1>7 DEF Carries
<1>14. Pending' = Pending
  BY <1>2 DEF Pending
<1>15. \A u \in Pending' : u \in ToSet(order) => TookOver(u, g)
  <2> TAKE u \in Pending'
  <2>1. SUFFICES ASSUME u \in ToSet(order) PROVE TookOver(u, g)
    OBVIOUS
  <2>2. batch # << >>
    BY <1>3, <1>14, <2>1
  <2>3. Carries(g)' /\ attempt'[g].batch = batch
    BY <1>4, <1>7, <2>2 DEF Carries
  <2> QED
    BY <1>2, <1>3, <1>14, <2>1, <2>3 DEF TookOver
<1>16. ~ Carries(g)
  BY <1>2 DEF Carries
<1>17. Dozing' => Handled'
  <2>1. CASE g = "caller"
    BY <1>7, <2>1 DEF Handled
  <2>2. CASE g = "worker" /\ batch # << >>
    BY <1>4, <1>7, <2>2 DEF Dozing
  <2>3. CASE g = "worker" /\ batch = << >>
    <3>1. CASE Pending = {}
      BY <1>14, <3>1 DEF Handled
    <3>2. CASE Pending # {}
      <4>1. PICK u \in Pending : TRUE
        BY <3>2
      <4>2. u \notin ToSet(order)
        BY <1>3, <2>3
      <4>3. InHands(u)
        BY <4>2, QueuedIs DEF QueueInv
      <4>4. Carries("caller")
        BY <1>16, <2>3, <4>3 DEF InHands, Goroutines
      <4>5. attempt'["caller"].pc # "idle"
        BY <1>5, <1>7, <2>3, <4>4 DEF Carries
      <4> QED
        BY <4>5 DEF Handled
    <3> QED
      BY <3>1, <3>2
  <2> QED
    BY <2>1, <2>2, <2>3 DEF Goroutines
<1>18. Reported
  BY <1>2, <1>7 DEF Reported
<1> QED
  BY <1>2, <1>7, <1>8, <1>9, <1>10, <1>11, <1>12, <1>13, <1>14, <1>15, <1>16, <1>17, <1>18, AttemptStep

\* Who is in a batch.
LEMMA BatchUsers ==
    ASSUME NEW batch \in Batches
    PROVE  batch \in Seq(Users) /\ ToSet(batch) \subseteq Users
<1>1. PICK n \in 0..BatchSize : batch \in [1..n -> Users]
  BY DEF Batches
<1>2. n \in Nat
  BY LimitAssumption
<1>3. batch \in Seq(Users)
  BY <1>1, <1>2, SeqDef
<1> QED
  BY <1>3, InSequence

\* Which users fail makes no difference to who is in the batch.
LEMMA RevokeKeeps ==
    ASSUME QueueInv, NEW g \in Goroutines, Revoke(g)
    PROVE  QueueInv' /\ Reported
<1>1. attempt[g].pc = "revoke" /\ UNCHANGED <<queue, wake, stopped, attemptMu, caller>>
  BY DEF Revoke
<1>2. PICK missed \in SUBSET ToSet(attempt[g].batch) :
         attempt' = [attempt EXCEPT ![g] = [@ EXCEPT !.pc = "finish", !.failures = missed]]
  BY DEF Revoke
<1>3. attempt \in [Goroutines -> Attempts] /\ "caller" \in Goroutines
  BY DEF QueueInv, QueueTypeOK, Attempts, Goroutines
<1>4. attempt[g] \in Attempts
  BY <1>3
<1>5. missed \subseteq Users
  BY <1>2, <1>4, BatchUsers DEF Attempts
<1>6. /\ attempt' \in [Goroutines -> Attempts]
      /\ attempt'[g].pc = "finish" /\ attempt'[g].batch = attempt[g].batch
      /\ \A h \in Goroutines : h # g => attempt'[h] = attempt[h]
  <2>1. PICK w : w = [attempt[g] EXCEPT !.pc = "finish", !.failures = missed]
    OBVIOUS
  <2>2. w \in Attempts /\ w.pc = "finish" /\ w.batch = attempt[g].batch
    BY <1>4, <1>5, <2>1 DEF Attempts, AttemptPC
  <2>3. attempt' = [attempt EXCEPT ![g] = w]
    BY <1>2, <2>1
  <2> QED
    BY <1>3, <2>2, <2>3
<1>7. attemptMu' \in Goroutines \cup {"free"}
  BY <1>1 DEF QueueInv, QueueTypeOK
<1>8. wake' \in BOOLEAN
  <2>1. wake \in BOOLEAN
    BY DEF QueueInv, QueueTypeOK
  <2> QED
    BY <1>1, <2>1, Zenon
<1>9. UNCHANGED <<pending, order, oldest, clock>> /\ Pending' = Pending
  BY <1>1 DEF queue, Pending
<1>10. /\ clock' \in Nat /\ pending' \in [Users -> 0..clock'] /\ order' \in Seq(Users)
       /\ oldest' \in HeapOf(clock')
       /\ caller' \in [pc: {"idle", "refresh", "compensate"}, ids: SUBSET Users, failed: SUBSET Users]
  BY <1>1, <1>9, CallerTypes DEF QueueInv, HeapOf
<1>11. HeapInv'
  BY <1>9 DEF QueueInv, HeapInv, Sorted, MarkedIn
<1>12. CallerAt'
  BY <1>1, <1>3, <1>6 DEF QueueInv, CallerAt
<1>13. Carries(g) /\ Carries(g)' /\ attempt'[g].batch # << >>
  BY <1>1, <1>6 DEF QueueInv, Carrying, Carries
<1>14. \A u : u \in ToSet(order) \/ u \in ToSet(attempt[g].batch) => TookOver(u, g)
  BY <1>6, <1>9, <1>13 DEF TookOver
<1>15. Dozing' => Handled'
  <2>1. CASE g = "caller"
    BY <1>6, <2>1 DEF Handled
  <2>2. CASE g = "worker"
    BY <1>6, <2>2 DEF Dozing
  <2> QED
    BY <2>1, <2>2 DEF Goroutines
<1>16. Reported
  BY <1>1, <1>6 DEF Reported
<1> QED
  BY <1>1, <1>6, <1>7, <1>8, <1>9, <1>10, <1>11, <1>12, <1>13, <1>14, <1>15, <1>16, AttemptStep

\* Who failed and is still pending is queued again; the others are released.
LEMMA FinishBatchKeeps ==
    ASSUME QueueInv, NEW g \in Goroutines, FinishBatch(g)
    PROVE  QueueInv' /\ Reported
<1>1. PICK batch, missed : batch = attempt[g].batch /\ missed = attempt[g].failures
  OBVIOUS
<1>2. /\ attempt[g].pc = "finish" /\ attemptMu' = "free" /\ Goto(g, "stats")
      /\ order' = order \o Filtered(batch, missed \cap Pending)
      /\ pending' = [u \in Users |-> IF u \in ToSet(batch) \ missed THEN 0 ELSE pending[u]]
      /\ UNCHANGED <<oldest, clock, wake, stopped, caller>>
  BY <1>1 DEF FinishBatch
<1>3. "stats" \in AttemptPC /\ "caller" \in Goroutines
  BY DEF AttemptPC, Goroutines
<1>4. /\ attempt' \in [Goroutines -> Attempts]
      /\ attempt'[g].pc = "stats" /\ attempt'[g].batch = attempt[g].batch
      /\ \A h \in Goroutines : h # g => attempt'[h] = attempt[h]
  BY <1>2, <1>3, GotoIs DEF QueueInv
<1>5. batch \in Seq(Users)
  BY <1>1, BatchUsers DEF QueueInv, QueueTypeOK
<1>6. PICK again : again = Filtered(batch, missed \cap Pending)
  OBVIOUS
<1>7. again \in Seq(Users) /\ ToSet(again) = ToSet(batch) \cap (missed \cap Pending)
  BY <1>5, <1>6, FilteredIs
<1>8. order' \in Seq(Users) /\ ToSet(order') = ToSet(order) \cup ToSet(again)
  <2>1. order \in Seq(Users) /\ order' = order \o again
    BY <1>2, <1>6, CallerTypes DEF QueueInv
  <2> QED
    BY <1>7, <2>1, InConcat
<1>9. /\ pending' \in [Users -> Nat]
      /\ \A u \in Users : pending'[u] = IF u \in ToSet(batch) \ missed THEN 0 ELSE pending[u]
  <2>1. \A u \in Users : pending[u] \in Nat
    BY CallerTypes DEF QueueInv
  <2> QED
    BY <1>2, <2>1
<1>10. /\ pending' \in [Users -> 0..clock'] /\ HeapInv' /\ Pending' \subseteq Pending
  BY <1>2, <1>9, ReleasedIs DEF QueueInv
<1>11. \A u \in Pending' : u \in ToSet(batch) => u \in missed
  <2>1. \A u \in Pending' : u \in Users /\ pending'[u] # 0
    BY DEF Pending
  <2> QED
    BY <1>9, <2>1
<1>12. clock' \in Nat /\ oldest' \in HeapOf(clock')
       /\ caller' \in [pc: {"idle", "refresh", "compensate"}, ids: SUBSET Users, failed: SUBSET Users]
  BY <1>2, CallerTypes DEF QueueInv, HeapOf
<1>13. wake' \in BOOLEAN
  <2>1. wake \in BOOLEAN
    BY DEF QueueInv, QueueTypeOK
  <2> QED
    BY <1>2, <2>1, Zenon
<1>14. CallerAt'
  BY <1>2, <1>3, <1>4 DEF QueueInv, CallerAt
<1>15. Carries(g) /\ ~ Carries(g)' /\ attempt[g].batch # << >>
  BY <1>2, <1>4 DEF QueueInv, Carrying, Carries
<1>16. \A u \in Pending' : u \in ToSet(order) \/ u \in ToSet(attempt[g].batch) => TookOver(u, g)
  BY <1>1, <1>7, <1>8, <1>10, <1>11 DEF TookOver
<1>17. Dozing' => Handled'
  <2>1. CASE g = "caller"
    BY <1>4, <2>1 DEF Handled
  <2>2. CASE g = "worker"
    BY <1>4, <1>15, <2>2 DEF Dozing
  <2> QED
    BY <2>1, <2>2 DEF Goroutines
<1>18. Reported
  BY <1>2, <1>4 DEF Reported
<1> QED
  BY <1>2, <1>4, <1>8, <1>10, <1>12, <1>13, <1>14, <1>15, <1>16, <1>17, <1>18, AttemptStep

LEMMA QueueKeeps == QueueInv /\ [QueueNext]_queueVars => QueueInv' /\ [Reported]_queueVars
<1> SUFFICES ASSUME QueueInv, [QueueNext]_queueVars PROVE QueueInv' /\ [Reported]_queueVars
  OBVIOUS
<1>1. CASE UNCHANGED queueVars
  <2>1. UNCHANGED <<pending, order, oldest, clock, wake, stopped, attemptMu, attempt, caller>>
    BY <1>1 DEF queueVars
  <2>2. QueueTypeOK'
    BY <2>1 DEF QueueInv, QueueTypeOK
  <2>3. HeapInv' /\ CallerAt' /\ Carrying' /\ PendingQueued' /\ (Dozing' => Handled')
    BY <2>1 DEF QueueInv, HeapInv, Sorted, MarkedIn, CallerAt, Carrying, Carries,
                PendingQueued, Pending, InFlight, Dozing, Handled
  <2> QED
    BY <1>1, <2>2, <2>3 DEF QueueInv
<1>2. CASE \E us \in (SUBSET Users) \ {{}} : StartRefresh(us) \/ Compensate(us)
  BY <1>2, StartRefreshKeeps, CompensateKeeps
<1>3. CASE \E u \in Users : Refresh(u) \/ LazyRefreshed(u)
  BY <1>3, RefreshKeeps DEF Refresh
<1>4. CASE ProcessBatch("caller") \/ ProcessBatch("worker")
  <2>1. \A g \in Goroutines : ProcessBatch(g) => QueueInv' /\ Reported
    BY TakeBatchKeeps, RevokeKeeps, FinishBatchKeeps DEF ProcessBatch
  <2> QED
    BY <1>4, <2>1 DEF Goroutines
<1>5. CASE FinishRefresh \/ Shutdown
  BY <1>5, ShutdownKeeps
<1>6. CASE Return \/ AfterBatch
  BY <1>6, ReturnKeeps, AfterBatchKeeps
<1>7. CASE WakeUp \/ Retry \/ StopWorker
  BY <1>7, WorkerTurns
<1> QED
  BY <1>1, <1>2, <1>3, <1>4, <1>5, <1>6, <1>7 DEF QueueNext, Worker, Caller

LEMMA QueueSound == QueueSpec => []QueueInv /\ [][Reported]_queueVars
BY QueueStarts, QueueKeeps, PTL DEF QueueSpec

\* What takeBatch and finishBatch keep in memory is of the right shape: a batch
\* never exceeds permissionRetryBatchSize (permission_recovery.go).
THEOREM QueueTypeCorrect == QueueSpec => []QueueTypeOK
<1>1. QueueInv => QueueTypeOK
  BY DEF QueueInv
<1> QED
  BY <1>1, QueueSound, PTL

LEMMA HandledServes == QueueInv => MarksServed
<1> SUFFICES ASSUME QueueInv PROVE MarksServed
  OBVIOUS
<1>1. CASE attempt["worker"].pc = "idle"
  <2>1. Handled
    BY <1>1 DEF QueueInv, Dozing
  <2> QED
    BY <2>1 DEF Handled, QueueInv, MarksServed, NoLostWakeup
<1>2. CASE attempt["worker"].pc # "idle"
  BY <1>2 DEF QueueInv, MarksServed, NoLostWakeup
<1> QED
  BY <1>1, <1>2

\* Whoever is pending is queued or in a batch, and somebody knows of him: the
\* caller, a worker at work, or a token in the wake channel (permission_recovery.go,
\* takeBatch, finishBatch, signal and run).
THEOREM MarksAlwaysServed == QueueSpec => []MarksServed
BY HandledServes, QueueSound, PTL

\* stats of permission_recovery.go reports the wait of the user marked first.
THEOREM OldestAlwaysReported == QueueSpec => OldestReported
<1>1. [Reported]_queueVars =>
        [\A g \in Goroutines :
           attempt[g].pc = "stats" /\ attempt'[g].pc # "stats" /\ Pending # {} =>
             oldest' # << >> /\ Head(oldest').at = Min({pending[u] : u \in Pending})]_queueVars
  BY DEF Reported
<1> QED
  BY <1>1, QueueSound, PTL DEF OldestReported

-----------------------------------------------------------------------------
(***************************************************************************)
(* The schedules (CronTranslation).  An item that the library takes means  *)
(* the days that Quartz means (SameDays), a field those of its items.      *)
(***************************************************************************)
ItemDays(item) ==
    {d \in 0..6 : /\ d \in FirstDay(item)..LastDay(item)
                  /\ item.step > 0 => (d - FirstDay(item)) % item.step = 0}

\* Counting on within a week.
LEMMA WithinWeek ==
    ASSUME NEW d \in 0..6
    PROVE  d % 7 = d /\ (d + 7) % 7 = d
OBVIOUS

LEMMA ItemIs ==
    ASSUME NEW item \in CronItems
    PROVE  /\ item.kind \in {"*", "?", "one", "range", "last", "nth"}
           /\ item.lo \in Int /\ item.hi \in Int /\ item.lo >= 0 /\ item.hi >= 0
           /\ item.named \in BOOLEAN /\ item.step \in Int /\ item.step >= 0
           /\ WellFormed(item)
           /\ shiftWeekdayValues(item).kind = item.kind /\ shiftWeekdayValues(item).named = item.named
           /\ shiftWeekdayValues(item).step = item.step
           /\ ~ Wild(item) => /\ FirstDay(shiftWeekdayValues(item)) = item.lo - 1
                              /\ LastDay(shiftWeekdayValues(item)) =
                                   IF item.kind = "one" /\ item.step > 0 THEN 6 ELSE item.hi - 1
           /\ Wild(item) => FirstDay(shiftWeekdayValues(item)) = 0 /\ LastDay(shiftWeekdayValues(item)) = 6
<1>1. item \in Item /\ WellFormed(item)
  BY CronAssumption
<1>2. /\ item.kind \in {"*", "?", "one", "range", "last", "nth"}
      /\ item.lo \in Int /\ item.hi \in Int /\ item.lo >= 0 /\ item.hi >= 0
      /\ item.named \in BOOLEAN /\ item.step \in Int /\ item.step >= 0
  BY <1>1 DEF Item, Numbers
<1>3. /\ shiftWeekdayValues(item).kind = item.kind /\ shiftWeekdayValues(item).named = item.named
      /\ shiftWeekdayValues(item).step = item.step
      /\ Wild(item) \/ item.named => /\ shiftWeekdayValues(item).lo = item.lo
                                     /\ shiftWeekdayValues(item).hi = item.hi
      /\ ~ (Wild(item) \/ item.named) => /\ shiftWeekdayValues(item).lo = item.lo - 1
                                         /\ shiftWeekdayValues(item).hi = item.hi - 1
  BY <1>1 DEF Item, shiftWeekdayValues
<1>4. Wild(shiftWeekdayValues(item)) <=> Wild(item)
  BY <1>3 DEF Wild
<1> QED
  BY <1>1, <1>2, <1>3, <1>4 DEF FirstDay, LastDay

\* An item that the library takes means the days that Quartz means.
LEMMA SameDays ==
    ASSUME NEW item \in CronItems, item.kind \notin {"?", "last", "nth"}, Shiftable(item),
           FirstDay(shiftWeekdayValues(item)) <= LastDay(shiftWeekdayValues(item)),
           LastDay(shiftWeekdayValues(item)) <= 6, NEW weekday \in 1..7
    PROVE  weekday - 1 \in ItemDays(shiftWeekdayValues(item)) <=> weekday \in QuartzItem(item)
<1> DEFINE given == shiftWeekdayValues(item)
<1>1. /\ item.kind \in {"*", "one", "range"}
      /\ item.lo \in Int /\ item.hi \in Int /\ item.step \in Int /\ item.step >= 0 /\ given.step = item.step
      /\ item.kind = "one" => item.lo = item.hi
      /\ ~ Wild(item) => /\ FirstDay(given) = item.lo - 1
                         /\ LastDay(given) = IF item.kind = "one" /\ item.step > 0 THEN 6 ELSE item.hi - 1
      /\ Wild(item) => FirstDay(given) = 0 /\ LastDay(given) = 6
      /\ ~ Wild(item) => item.lo \in 1..7 /\ item.hi \in 1..7
  BY ItemIs DEF WellFormed, Shiftable
<1>2. weekday - 1 \in 0..6
  OBVIOUS
<1>3. weekday - 1 \in ItemDays(given) <=>
        /\ weekday - 1 \in FirstDay(given)..LastDay(given)
        /\ item.step > 0 => ((weekday - 1) - FirstDay(given)) % item.step = 0
  BY <1>1, <1>2 DEF ItemDays
<1> HIDE DEF given
<1>4. CASE item.kind = "*"
  <2>1. (weekday - 1) - 0 = weekday - 1 /\ FirstDay(given) = 0 /\ LastDay(given) = 6
    BY <1>1, <1>4 DEF Wild
  <2>2. weekday - 1 \in 0..6
    OBVIOUS
  <2>3. weekday - 1 \in ItemDays(given) <=> (item.step > 0 => (weekday - 1) % item.step = 0)
    BY <1>3, <2>1, <2>2
  <2>4. weekday \in QuartzItem(item) <=> (item.step > 0 => (weekday - 1) % item.step = 0)
    BY <1>4 DEF QuartzItem
  <2> QED
    BY <2>3, <2>4 DEF given
<1>5. CASE item.kind = "one"
  <2>1. (weekday - 1) - (item.lo - 1) = weekday - item.lo /\ FirstDay(given) = item.lo - 1
    BY <1>1, <1>5 DEF Wild
  <2>2. LastDay(given) = IF item.step > 0 THEN 6 ELSE item.lo - 1
    BY <1>1, <1>5 DEF Wild
  <2>3. CASE item.step = 0
    <3>1. weekday - 1 \in ItemDays(given) <=> weekday = item.lo
      BY <1>1, <1>3, <2>1, <2>2, <2>3
    <3>2. weekday \in QuartzItem(item) <=> weekday = item.lo
      BY <1>5, <2>3 DEF QuartzItem
    <3> QED
      BY <3>1, <3>2 DEF given
  <2>4. CASE item.step # 0
    <3>1. item.step > 0 /\ LastDay(given) = 6
      BY <1>1, <2>2, <2>4
    <3>2. weekday - 1 \in (item.lo - 1)..6 <=> weekday \in item.lo..7
      BY <1>1
    <3>3. weekday - 1 \in ItemDays(given) <=> weekday \in item.lo..7 /\ (weekday - item.lo) % item.step = 0
      BY <1>3, <2>1, <3>1, <3>2
    <3>4. weekday \in QuartzItem(item) <=> weekday \in item.lo..7 /\ (weekday - item.lo) % item.step = 0
      BY <1>5, <2>4 DEF QuartzItem
    <3> QED
      BY <3>3, <3>4 DEF given
  <2> QED
    BY <2>3, <2>4
<1>6. CASE item.kind = "range"
  <2>1. /\ (weekday - 1) - (item.lo - 1) = weekday - item.lo /\ FirstDay(given) = item.lo - 1
        /\ LastDay(given) = item.hi - 1 /\ item.lo \in 1..7 /\ item.hi \in 1..7
    BY <1>1, <1>6 DEF Wild
  <2>2. item.lo <= item.hi
    BY <2>1 DEF given
  <2>3. weekday - 1 \in ItemDays(given) <=>
          /\ item.lo <= weekday /\ weekday <= item.hi
          /\ item.step > 0 => (weekday - item.lo) % item.step = 0
    BY <1>3, <2>1
  <2>4. (item.hi + 7 - item.lo) % 7 = item.hi - item.lo
    <3>1. item.hi - item.lo \in 0..6 /\ item.hi + 7 - item.lo = (item.hi - item.lo) + 7
      BY <2>1, <2>2
    <3> QED
      BY <3>1, WithinWeek
  <2>5. weekday \in QuartzItem(item) <=>
          \E n \in 0..6 : /\ n <= item.hi - item.lo
                          /\ item.step > 0 => n % item.step = 0
                          /\ weekday = ((item.lo + n - 1) % 7) + 1
    BY <1>6, <2>4 DEF QuartzItem
  <2>6. ASSUME NEW n \in 0..6, n <= item.hi - item.lo
        PROVE  ((item.lo + n - 1) % 7) + 1 = item.lo + n
    <3>1. item.lo + n - 1 \in 0..6
      BY <2>1, <2>6
    <3>2. (item.lo + n - 1) % 7 = item.lo + n - 1
      BY <3>1, WithinWeek
    <3> QED
      BY <2>1, <3>2
  <2>7. weekday \in QuartzItem(item) <=>
          \E n \in 0..6 : /\ n <= item.hi - item.lo
                          /\ item.step > 0 => n % item.step = 0
                          /\ weekday = item.lo + n
    BY <2>5, <2>6
  <2>8. ASSUME weekday - 1 \in ItemDays(given) PROVE weekday \in QuartzItem(item)
    <3>1. weekday - item.lo \in 0..6 /\ weekday - item.lo <= item.hi - item.lo /\ weekday = item.lo + (weekday - item.lo)
      BY <2>1, <2>3, <2>8
    <3> QED
      BY <2>3, <2>7, <2>8, <3>1
  <2>9. ASSUME weekday \in QuartzItem(item) PROVE weekday - 1 \in ItemDays(given)
    <3>1. PICK n \in 0..6 : /\ n <= item.hi - item.lo
                            /\ item.step > 0 => n % item.step = 0
                            /\ weekday = item.lo + n
      BY <2>7, <2>9
    <3>2. weekday - item.lo = n /\ item.lo <= weekday /\ weekday <= item.hi
      BY <2>1, <3>1
    <3> QED
      BY <2>3, <3>1, <3>2
  <2> QED
    BY <2>8, <2>9 DEF given
<1> QED
  BY <1>1, <1>4, <1>5, <1>6 DEF given

DayFields == {<<item>> : item \in CronItems} \cup (CronItems \X CronItems)

LEMMA FieldIs ==
    ASSUME NEW dow \in DayFields
    PROVE  /\ DOMAIN dow = 1..Len(dow) /\ Len(dow) \in {1, 2}
           /\ \A i \in DOMAIN dow : dow[i] \in CronItems
           /\ DOMAIN shiftDayOfWeek(dow) = DOMAIN dow
           /\ \A i \in DOMAIN dow : shiftDayOfWeek(dow)[i] = shiftWeekdayValues(dow[i])
<1>1. ASSUME NEW item \in CronItems, dow = <<item>>
      PROVE  DOMAIN dow = 1..Len(dow) /\ Len(dow) \in {1, 2} /\ \A i \in DOMAIN dow : dow[i] \in CronItems
  BY <1>1
<1>2. ASSUME NEW a \in CronItems, NEW b \in CronItems, dow = <<a, b>>
      PROVE  DOMAIN dow = 1..Len(dow) /\ Len(dow) \in {1, 2} /\ \A i \in DOMAIN dow : dow[i] \in CronItems
  BY <1>2
<1>3. (\E item \in CronItems : dow = <<item>>) \/ (\E a, b \in CronItems : dow = <<a, b>>)
  BY DEF DayFields
<1>4. /\ DOMAIN dow = 1..Len(dow) /\ Len(dow) \in {1, 2}
      /\ \A i \in DOMAIN dow : dow[i] \in CronItems
  BY <1>1, <1>2, <1>3
<1> QED
  BY <1>4 DEF shiftDayOfWeek

\* What a request leaves of a job.
ScheduleInv ==
    schedule # NoSchedule =>
        /\ schedule.dom \in Doms /\ schedule.month \in Months /\ schedule.year \in Years
        /\ schedule.dow \in DayFields
        /\ schedule.accepted \in BOOLEAN
        /\ schedule.accepted <=> /\ Translates(schedule.dom, schedule.month, schedule.dow, schedule.year)
                                 /\ Parses(shiftDayOfWeek(schedule.dow))
        /\ schedule.accepted => schedule.given = shiftDayOfWeek(schedule.dow)
        /\ DOMAIN schedule = DOMAIN NoSchedule

\* An accepted expression of days of the week fires when Quartz says.
LEMMA FiresAlike ==
    ASSUME NEW dow \in DayFields, NEW dom \in {"?", "*", "15"}, NEW month, NEW year,
           Translates(dom, month, dow, year), Parses(shiftDayOfWeek(dow)), QuartzLegal(dom, dow),
           NEW weekday \in 1..7, NEW today \in BOOLEAN
    PROVE  Fires(dom, shiftDayOfWeek(dow), weekday - 1, today) <=> QuartzFires(dom, dow, weekday, today)
<1> DEFINE given == shiftDayOfWeek(dow)
<1>1. /\ DOMAIN dow = 1..Len(dow) /\ Len(dow) \in {1, 2} /\ DOMAIN given = DOMAIN dow
      /\ \A i \in DOMAIN dow : dow[i] \in CronItems /\ given[i] = shiftWeekdayValues(dow[i])
  BY FieldIs
<1>2. weekday - 1 \in Weekdays(given) <=> \E i \in DOMAIN dow : weekday - 1 \in ItemDays(given[i])
  BY <1>1 DEF Weekdays, ItemDays
<1>3. CASE dom = "?"
  <2>1. \A i \in DOMAIN dow : dow[i].kind # "?"
    BY <1>3 DEF QuartzLegal
  <2>2. ASSUME NEW i \in DOMAIN dow
        PROVE  weekday - 1 \in ItemDays(given[i]) <=> weekday \in QuartzItem(dow[i])
    <3>1. dow[i].kind \notin {"?", "last", "nth"} /\ Shiftable(dow[i])
      BY <2>1 DEF Translates, Unsupported
    <3>2. FirstDay(given[i]) <= LastDay(given[i]) /\ LastDay(given[i]) <= 6
      BY <1>1 DEF Parses
    <3> HIDE DEF given
    <3> QED
      BY <1>1, <3>1, <3>2, SameDays
  <2>3. Fires(dom, given, weekday - 1, today) <=> weekday - 1 \in Weekdays(given)
    BY <1>3 DEF Fires
  <2>4. QuartzFires(dom, dow, weekday, today) <=> \E i \in DOMAIN dow : weekday \in QuartzItem(dow[i])
    BY <1>3 DEF QuartzFires
  <2> QED
    BY <1>2, <2>2, <2>3, <2>4
<1>4. CASE dom # "?"
  <2>1. Len(dow) = 1 /\ dow[1].kind = "?"
    BY <1>4 DEF QuartzLegal
  <2>2. 1 \in DOMAIN dow
    BY <1>1, <2>1
  <2>3. dow[1] \in CronItems /\ given[1] = shiftWeekdayValues(dow[1]) /\ 1 \in DOMAIN given
    BY <1>1, <2>2
  <2>4. /\ Wild(dow[1]) /\ given[1].kind = "?" /\ given[1].step = 0
        /\ FirstDay(given[1]) = 0 /\ LastDay(given[1]) = 6
    <3> HIDE DEF given
    <3> QED
      BY <2>1, <2>3, ItemIs DEF Wild, WellFormed
  <2>5. weekday - 1 \in ItemDays(given[1])
    <3>1. weekday - 1 \in 0..6
      OBVIOUS
    <3> HIDE DEF given
    <3> QED
      BY <2>4, <3>1 DEF ItemDays
  <2>6. weekday - 1 \in Weekdays(given) /\ \E i \in DOMAIN given : Wild(given[i])
    BY <1>2, <2>2, <2>3, <2>4, <2>5 DEF Wild
  <2>7. Fires(dom, given, weekday - 1, today) <=> dom = "*" \/ today
    <3> HIDE DEF given
    <3> QED
      BY <1>4, <2>6 DEF Fires
  <2>8. QuartzFires(dom, dow, weekday, today) <=> dom = "*" \/ today
    BY <1>4 DEF QuartzFires
  <2> QED
    BY <2>7, <2>8
<1> QED
  BY <1>3, <1>4

\* What is refused is Quartz's own, or no range of days.
LEMMA RefusedRightly ==
    ASSUME NEW dow \in DayFields, NEW dom \in Doms, NEW month \in Months, NEW year \in Years,
           ~ (Translates(dom, month, dow, year) /\ Parses(shiftDayOfWeek(dow)))
    PROVE  \/ dom \in {"L", "15W"} \/ month = "JUL" \/ year = "2027"
           \/ \E i \in DOMAIN dow :
                \/ dow[i].kind \in {"last", "nth"}
                \/ dow[i].named /\ 4 \in {dow[i].lo, dow[i].hi}
                \/ ~dow[i].named /\ ~({dow[i].lo, dow[i].hi} \subseteq 1..7)
                \/ dow[i].hi < dow[i].lo
<1> DEFINE given == shiftDayOfWeek(dow)
<1>1. /\ DOMAIN given = DOMAIN dow
      /\ \A i \in DOMAIN dow : dow[i] \in CronItems /\ given[i] = shiftWeekdayValues(dow[i])
  BY FieldIs
<1>2. CASE Unsupported(dom, month, dow)
  <2>1. ASSUME NEW i \in DOMAIN dow, dow[i].named, "WED" \in {DayNames[dow[i].lo], DayNames[dow[i].hi]}
        PROVE  4 \in {dow[i].lo, dow[i].hi}
    <3>1. dow[i].lo \in 1..7 /\ dow[i].hi \in 1..7
      BY <1>1, <2>1, ItemIs DEF WellFormed
    <3>2. \A n \in 1..7 : DayNames[n] = "WED" => n = 4
      BY DEF DayNames
    <3> QED
      BY <2>1, <3>1, <3>2
  <2> QED
    BY <1>2, <2>1 DEF Unsupported
<1>3. CASE ~ Unsupported(dom, month, dow) /\ \E i \in DOMAIN dow : ~ Shiftable(dow[i])
  BY <1>3 DEF Shiftable
<1>4. CASE (\A i \in DOMAIN dow : Shiftable(dow[i])) /\ ~ Parses(given)
  <2>1. PICK i \in DOMAIN dow : ~ (FirstDay(given[i]) <= LastDay(given[i]) /\ LastDay(given[i]) <= 6)
    BY <1>1, <1>4 DEF Parses
  <2>2. dow[i] \in CronItems /\ given[i] = shiftWeekdayValues(dow[i]) /\ Shiftable(dow[i])
    BY <1>1, <1>4
  <2> HIDE DEF given
  <2>3. ~ Wild(dow[i])
    <3>1. Wild(dow[i]) => FirstDay(given[i]) = 0 /\ LastDay(given[i]) = 6
      BY <2>2, ItemIs
    <3> QED
      BY <2>1, <3>1
  <2>4. dow[i].lo \in 1..7 /\ dow[i].hi \in 1..7
    BY <2>2, <2>3, ItemIs DEF WellFormed, Shiftable
  <2>5. /\ FirstDay(given[i]) = dow[i].lo - 1
        /\ LastDay(given[i]) = IF dow[i].kind = "one" /\ dow[i].step > 0 THEN 6 ELSE dow[i].hi - 1
    BY <2>2, <2>3, ItemIs
  <2>6. dow[i].hi < dow[i].lo
    BY <2>1, <2>4, <2>5
  <2> QED
    BY <2>6
<1>5. CASE year \notin {"", "*"}
  BY <1>5 DEF Years
<1> QED
  BY <1>2, <1>3, <1>4, <1>5 DEF Translates

LEMMA SchedulesStay == ScheduleInv /\ [CronNext]_cronVars => ScheduleInv'
<1> SUFFICES ASSUME ScheduleInv, [CronNext]_cronVars PROVE ScheduleInv'
  OBVIOUS
<1>1. CASE UNCHANGED cronVars
  BY <1>1 DEF cronVars, ScheduleInv
<1>2. CASE SaveJob
  <2>1. PICK dom \in Doms, month \in Months, year \in Years, dow \in DayFields, accepted \in BOOLEAN :
          /\ accepted = (Translates(dom, month, dow, year) /\ Parses(shiftDayOfWeek(dow)))
          /\ schedule' = [dom |-> dom, month |-> month, dow |-> dow, year |-> year, accepted |-> accepted,
                          given |-> IF accepted THEN shiftDayOfWeek(dow) ELSE << >>]
    BY <1>2 DEF SaveJob, DayFields
  <2>2. /\ schedule'.dom = dom /\ schedule'.month = month /\ schedule'.year = year /\ schedule'.dow = dow
        /\ schedule'.accepted = accepted /\ DOMAIN schedule' = DOMAIN NoSchedule
        /\ accepted => schedule'.given = shiftDayOfWeek(dow)
    BY <2>1 DEF NoSchedule
  <2> QED
    BY <2>1, <2>2 DEF ScheduleInv
<1> QED
  BY <1>1, <1>2 DEF CronNext

LEMMA SchedulesFollow == ScheduleInv => CronTypeOK /\ SchedulesFaithful
<1> SUFFICES ASSUME ScheduleInv PROVE CronTypeOK /\ SchedulesFaithful
  OBVIOUS
<1>1. CASE schedule = NoSchedule
  <2>1. schedule.accepted = FALSE /\ schedule.dow = << >>
    BY <1>1 DEF NoSchedule
  <2>2. CronTypeOK
    <3>1. schedule.accepted \in BOOLEAN
      BY <2>1
    <3>2. \A i \in DOMAIN << >> : FALSE
      OBVIOUS
    <3> QED
      BY <1>1, <2>1, <3>1, <3>2 DEF CronTypeOK
  <2>3. SchedulesFaithful
    BY <1>1 DEF SchedulesFaithful
  <2> QED
    BY <2>2, <2>3
<1>2. CASE schedule # NoSchedule
  <2>1. PICK dom \in Doms, month \in Months, year \in Years, dow \in DayFields :
          schedule.dom = dom /\ schedule.month = month /\ schedule.year = year /\ schedule.dow = dow
    BY <1>2 DEF ScheduleInv
  <2>2. /\ schedule.accepted \in BOOLEAN
        /\ schedule.accepted <=> Translates(dom, month, dow, year) /\ Parses(shiftDayOfWeek(dow))
        /\ schedule.accepted => schedule.given = shiftDayOfWeek(dow)
        /\ DOMAIN schedule = DOMAIN NoSchedule
    BY <1>2, <2>1 DEF ScheduleInv
  <2>3. CronTypeOK
    BY <2>1, <2>2, FieldIs, CronAssumption DEF CronTypeOK
  <2>4. ASSUME schedule.accepted, QuartzLegal(dom, dow)
        PROVE  /\ dom \notin {"L", "15W"} /\ year # "2027"
               /\ \A i \in DOMAIN dow : dow[i].kind \notin {"last", "nth"}
               /\ \A weekday \in 1..7, today \in BOOLEAN :
                    Fires(dom, schedule.given, weekday - 1, today) <=> QuartzFires(dom, dow, weekday, today)
    <3>1. Translates(dom, month, dow, year) /\ Parses(shiftDayOfWeek(dow))
      BY <2>2, <2>4
    <3>2. /\ dom \in {"?", "*", "15"} /\ year # "2027"
          /\ \A i \in DOMAIN dow : dow[i].kind \notin {"last", "nth"}
      BY <3>1 DEF Translates, Unsupported, Doms
    <3> QED
      BY <2>2, <2>4, <3>1, <3>2, FiresAlike
  <2>5. SchedulesFaithful
    BY <1>2, <2>1, <2>2, <2>4, RefusedRightly DEF SchedulesFaithful
  <2> QED
    BY <2>3, <2>5
<1> QED
  BY <1>1, <1>2

LEMMA CronSound == CronSpec => [](CronTypeOK /\ SchedulesFaithful)
<1>1. CronInit => ScheduleInv
  BY DEF CronInit, ScheduleInv
<1> QED
  BY <1>1, SchedulesStay, SchedulesFollow, PTL DEF CronSpec

\* What is kept of a job is an expression of two fields for days (service/job.go).
THEOREM CronTypeCorrect == CronSpec => []CronTypeOK
BY CronSound, PTL

\* A job that was accepted fires on the days that Quartz would, whatever days, ranges,
\* steps and names its expression is made of, and what was refused had a reason
\* (cronx.go, job.go).
THEOREM SchedulesAlwaysFaithful == CronSpec => []SchedulesFaithful
BY CronSound, PTL

-----------------------------------------------------------------------------
(* Side by side.  A behaviour of the parts is one of each component.       *)

LEMMA PartsAreLogins == PartsSpec => GuardsSpec
<1>1. PartsInit => GuardsInit
  BY DEF PartsInit
<1>2. [PartsNext]_partsVars => [GuardsNext]_loginVars
  BY DEF PartsNext, partsVars
<1> QED
  BY <1>1, <1>2, PTL DEF PartsSpec, GuardsSpec

LEMMA PartsAreRequests == PartsSpec => RequestsSpec
<1>1. PartsInit => RequestsInit
  BY DEF PartsInit
<1>2. [PartsNext]_partsVars => [RequestsNext]_requestVars
  BY DEF PartsNext, partsVars
<1> QED
  BY <1>1, <1>2, PTL DEF PartsSpec, RequestsSpec

LEMMA PartsAreNotices == PartsSpec => NoticesSpec
<1>1. PartsInit => NoticesInit
  BY DEF PartsInit
<1>2. [PartsNext]_partsVars => [NoticesNext]_noticeVars
  BY DEF PartsNext, partsVars
<1> QED
  BY <1>1, <1>2, PTL DEF PartsSpec, NoticesSpec

LEMMA PartsAreGenerators == PartsSpec => GenSpec
<1>1. PartsInit => GenInit
  BY DEF PartsInit
<1>2. [PartsNext]_partsVars => [GenNext]_genVars
  BY DEF PartsNext, partsVars
<1> QED
  BY <1>1, <1>2, PTL DEF PartsSpec, GenSpec

LEMMA PartsAreFiles == PartsSpec => FilesSpec
<1>1. PartsInit => FilesInit
  BY DEF PartsInit
<1>2. [PartsNext]_partsVars => [FilesNext]_fileVars
  BY DEF PartsNext, partsVars
<1> QED
  BY <1>1, <1>2, PTL DEF PartsSpec, FilesSpec

LEMMA PartsAreRefs == PartsSpec => RefSpec
<1>1. PartsInit => RefInit
  BY DEF PartsInit
<1>2. [PartsNext]_partsVars => [DictNext \/ ParamsNext]_refVars
  BY DEF PartsNext, partsVars
<1> QED
  BY <1>1, <1>2, PTL DEF PartsSpec, RefSpec

LEMMA PartsAreMonitors == PartsSpec => MonitorSpec
<1>1. PartsInit => MonitorInit
  BY DEF PartsInit
<1>2. [PartsNext]_partsVars => [MonitorNext]_monitorVars
  BY DEF PartsNext, partsVars
<1> QED
  BY <1>1, <1>2, PTL DEF PartsSpec, MonitorSpec

LEMMA PartsAreQueues == PartsSpec => QueueSpec
<1>1. PartsInit => QueueInit
  BY DEF PartsInit
<1>2. [PartsNext]_partsVars => [QueueNext]_queueVars
  BY DEF PartsNext, partsVars
<1> QED
  BY <1>1, <1>2, PTL DEF PartsSpec, QueueSpec

LEMMA PartsAreMenus == PartsSpec => MenusSpec
<1>1. PartsInit => MenusInit
  BY DEF PartsInit
<1>2. [PartsNext]_partsVars => [MenusNext]_menuVars
  BY DEF PartsNext, partsVars, menuVars
<1> QED
  BY <1>1, <1>2, PTL DEF PartsSpec, MenusSpec

LEMMA PartsAreSchedules == PartsSpec => CronSpec
<1>1. PartsInit => CronInit
  BY DEF PartsInit
<1>2. [PartsNext]_partsVars => [CronNext]_cronVars
  BY DEF PartsNext, partsVars
<1> QED
  BY <1>1, <1>2, PTL DEF PartsSpec, CronSpec

LEMMA PartsAreCaches == PartsSpec => Spec
<1>1. PartsInit => Init
  BY DEF PartsInit
<1>2. [PartsNext]_partsVars => [Next]_vars
  BY DEF PartsNext, partsVars
<1> QED
  BY <1>1, <1>2, PTL DEF PartsSpec, Spec

LEMMA PartsAreTrees == PartsSpec => TreeSpec
<1>1. PartsInit => TreeInit
  BY DEF PartsInit
<1>2. [PartsNext]_partsVars => [TreeNext]_treeVars
  BY DEF PartsNext, partsVars
<1> QED
  BY <1>1, <1>2, PTL DEF PartsSpec, TreeSpec

LEMMA PartsAreNames == PartsSpec => NamesSpec
<1>1. PartsInit => NamesInit
  BY DEF PartsInit
<1>2. [PartsNext]_partsVars => [NamesNext]_nameVars
  BY DEF PartsNext, partsVars
<1> QED
  BY <1>1, <1>2, PTL DEF PartsSpec, NamesSpec

LEMMA PartsAreUploads == PartsSpec => UserFilesSpec
<1>1. PartsInit => UserFilesInit
  BY DEF PartsInit
<1>2. [PartsNext]_partsVars => [UserFilesNext]_userFileVars
  BY DEF PartsNext, partsVars
<1> QED
  BY <1>1, <1>2, PTL DEF PartsSpec, UserFilesSpec

LEMMA PartsAreOnline == PartsSpec => OnlineSpec
<1>1. PartsInit => OnlineInit
  BY DEF PartsInit
<1>2. [PartsNext]_partsVars => [OnlineNext]_onlineVars
  BY DEF PartsNext, partsVars
<1> QED
  BY <1>1, <1>2, PTL DEF PartsSpec, OnlineSpec

LEMMA PartsAreLists == PartsSpec => ListSpec
<1>1. PartsInit => ListInit
  BY DEF PartsInit
<1>2. [PartsNext]_partsVars => [ListNext]_listVars
  BY DEF PartsNext, partsVars
<1> QED
  BY <1>1, <1>2, PTL DEF PartsSpec, ListSpec

\* Limits hold however many requests come at once, and a record tells what
\* happened (login.go, middleware), beside whatever else the process does.
THEOREM RequestsAlwaysGuarded == PartsSpec => RequestsGuarded
<1>1. PartsSpec => []GuardsHold
  BY PartsAreLogins, GuardsAlwaysHold, PTL
<1>2. PartsSpec => [][LockHolds]_loginVars
  BY PartsAreLogins, LockAlwaysHolds, PTL
<1>3. PartsSpec => []RequestsSound
  BY PartsAreRequests, RequestsAlwaysSound, PTL
<1>4. [LockHolds]_loginVars => [part = "login" => LockHolds]_loginVars
  OBVIOUS
<1> QED
  BY <1>1, <1>2, <1>3, <1>4, PTL DEF RequestsGuarded

\* What is marked as read is a notice, and was published then (notice.go).
THEOREM NoticesAlwaysKept == PartsSpec => NoticesKept
<1>1. PartsSpec => []ReadsHaveNotices
  BY PartsAreNotices, ReadsAlwaysHaveNotices, PTL
<1>2. PartsSpec => [][MarkedWhilePublished]_noticeVars
  BY PartsAreNotices, MarksAlwaysOnPublished, PTL
<1>3. [MarkedWhilePublished]_noticeVars => [part = "notices" => MarkedWhilePublished]_noticeVars
  OBVIOUS
<1> QED
  BY <1>1, <1>2, <1>3, PTL DEF NoticesKept

\* Types, names, keys and contracts stay right whoever writes, and clearing
\* a cache harms nothing else (config.go, dict.go, cache.go).
THEOREM ReferencesAlwaysSound == PartsSpec => ReferencesSound
<1>1. PartsSpec => [][RefTablesSound]_refVars
  BY PartsAreRefs, TablesAlwaysKept, PTL
<1>2. PartsSpec => [][MonitorHarmless]_monitorVars
  BY PartsAreMonitors, MonitorAlwaysHarmless, PTL
<1>3. [RefTablesSound]_refVars => [(part = "dicts" \/ part = "params") => RefTablesSound]_refVars
  OBVIOUS
<1>4. [MonitorHarmless]_monitorVars => [part = "monitor" => MonitorHarmless]_monitorVars
  OBVIOUS
<1> QED
  BY <1>1, <1>2, <1>3, <1>4, PTL DEF ReferencesSound

\* What the generator keeps and what it writes are consistent whatever changes
\* and fails in between (gen.go).
THEOREM GeneratorAlwaysSound == PartsSpec => GeneratorSound
<1>1. PartsSpec => []ColumnsConsistent
  BY PartsAreGenerators, ColumnsAlwaysConsistent, PTL
<1>2. PartsSpec => []OneEdition
  BY PartsAreFiles, AlwaysOneEdition, PTL
<1>3. PartsSpec => [][IdentityKept]_genVars
  BY PartsAreGenerators, ColumnsAlwaysKept, PTL
<1>4. PartsSpec => [][CopyKept]_fileVars
  BY PartsAreFiles, CopiesAlwaysKept, PTL
<1>5. [IdentityKept]_genVars => [part = "tables" => IdentityKept]_genVars
  OBVIOUS
<1>6. [CopyKept]_fileVars => [part = "files" => CopyKept]_fileVars
  OBVIOUS
<1> QED
  BY <1>1, <1>2, <1>3, <1>4, <1>5, <1>6, PTL DEF GeneratorSound

\* A pending user is always in the queue or in a batch and known to somebody who
\* will serve him, and stats reports the longest wait (permission_recovery.go),
\* beside whatever else the process does.
THEOREM QueueAlwaysKept == PartsSpec => QueueKept
<1>1. PartsSpec => []MarksServed
  BY PartsAreQueues, MarksAlwaysServed, PTL
<1>2. PartsSpec => OldestReported
  BY PartsAreQueues, OldestAlwaysReported, PTL
<1> QED
  BY <1>1, <1>2, PTL DEF QueueKept

\* Menus have distinct routes, but where one was created with the other's id; none
\* is hidden and a role's choice is restored (service/menu.go), beside whatever else
\* the process does.
THEOREM MenusConsistentAlways == PartsSpec => []MenusConsistent
BY PartsAreMenus, MenusAlwaysConsistent, PTL

\* Jobs fire on the days their expressions name (cronx.go), likewise.
THEOREM SchedulesFaithfulAlways == PartsSpec => []SchedulesFaithful
BY PartsAreSchedules, SchedulesAlwaysFaithful, PTL

\* Types of every part, for any values of the constants of all of them.
THEOREM PartsTypeCorrect == PartsSpec => []PartsTypeOK
<1>1. TreeInv => TreeTypeOK
  BY DEF TreeInv
<1>2. PartsSpec => [](TypeOK /\ QueueTypeOK /\ TreeTypeOK /\ GuardsTypeOK /\ GenTypeOK /\ FilesTypeOK)
  BY <1>1, PartsAreCaches, CacheTypeOK, PartsAreQueues, QueueTypeCorrect, PartsAreTrees, TreeInvariant,
     PartsAreLogins, GuardsTypeCorrect, PartsAreGenerators, GeneratorTypeCorrect, PartsAreFiles, FilesTypeCorrect, PTL
<1>3. PartsSpec => [](MenusTypeOK /\ NamesTypeOK /\ NoticesTypeOK /\ UserFilesTypeOK /\ RefTypeOK)
  BY PartsAreMenus, MenusTypeCorrect, PartsAreNames, NamesTypeCorrect, PartsAreNotices, NoticesTypeCorrect,
     PartsAreUploads, UploadsTypeCorrect, PartsAreRefs, TablesTypeCorrect, PTL
<1>4. PartsSpec => [](OnlineTypeOK /\ MonitorTypeOK /\ ListTypeOK /\ RequestsTypeOK /\ CronTypeOK)
  BY PartsAreOnline, OnlineTypeCorrect, PartsAreMonitors, MonitorTypeCorrect, PartsAreLists, ListTypeCorrect,
     PartsAreRequests, RequestsTypeCorrect, PartsAreSchedules, CronTypeCorrect, PTL
<1>5. (TypeOK /\ QueueTypeOK /\ TreeTypeOK /\ GuardsTypeOK /\ GenTypeOK /\ FilesTypeOK)
        /\ (MenusTypeOK /\ NamesTypeOK /\ NoticesTypeOK /\ UserFilesTypeOK /\ RefTypeOK)
        /\ (OnlineTypeOK /\ MonitorTypeOK /\ ListTypeOK /\ RequestsTypeOK /\ CronTypeOK) => PartsTypeOK
  BY DEF PartsTypeOK
<1> QED
  BY <1>2, <1>3, <1>4, <1>5, PTL

\* Who walks through a list, exports it or sees one that claims to be complete has
\* all there is (online.go, page.go, export.go), likewise.
THEOREM ListsAlwaysComplete == PartsSpec => []ListsComplete
<1>1. OnlineListed /\ PagesComplete /\ ExportWhole => ListsComplete
  BY DEF ListsComplete
<1>2. PartsSpec => []OnlineListed
  BY PartsAreOnline, OnlineAlwaysListed, PTL
<1>3. PartsSpec => [](PagesComplete /\ ExportWhole)
  BY PartsAreLists, PagesAlwaysComplete, PTL
<1> QED
  BY <1>1, <1>2, <1>3, PTL

=============================================================================
