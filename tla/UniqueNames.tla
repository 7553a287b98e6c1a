---------------------------- MODULE UniqueNames ----------------------------
(***************************************************************************)
(* Names that must not be taken twice: of users, roles and posts           *)
(* (internal/service/user.go, role.go, post.go, profile.go, register.go,   *)
(* user_import.go).  A writer counts the rows that have the name already   *)
(* and then writes its own, in two statements and without a unique index:  *)
(* the domain lock makes them one (write_locks.go).                        *)
(*                                                                         *)
(* Every row has a name that is required and a second value: a user its    *)
(* phone number or mail address, which may be missing, a role its key, a   *)
(* post its code.                                                          *)
(***************************************************************************)
EXTENDS Naturals, FiniteSets, Sequences

CONSTANTS
    NameIds, Given, Seconds, NameWriters,
    Missing,
    MaxFile     \* bound: rows of a file

\* Missing is none of the values it stands beside.
ASSUME NamesAssumption == MaxFile \in Nat /\ Missing \notin NameIds \cup NameWriters

VARIABLES
    entity,     \* "user", "role" or "post": whose names
    named,      \* id -> the row, for rows that are not deleted
    nameMu,     \* the domain lock
    naming,     \* writer -> what it has to write
    unchecked   \* ids whose row was written without a count of its values (history)

nameVars == <<entity, named, nameMu, naming, unchecked>>

Named == DOMAIN named
Unborn == NameIds \ Named
\* What a form may say; the key of a role and the code of a post are required.
NameRow == [name: Given, second: IF entity = "user" THEN Seconds \cup {Missing} ELSE Seconds]
Resting == [at |-> "rest", id |-> Missing, row |-> [name |-> Missing, second |-> Missing],
            counted |-> TRUE, file |-> <<>>, replace |-> FALSE, known |-> [n \in {} |-> Missing]]

NamesInit ==
    /\ entity \in {"user", "role", "post"}
    /\ named = [id \in {} |-> Resting.row]
    /\ nameMu = Missing
    /\ naming = [w \in NameWriters |-> Resting]
    /\ unchecked = {}

-----------------------------------------------------------------------------
\* countUser, countRole and countPost: rows other than excluded with the value.
Count(field, value, excluded) == Cardinality({id \in Named \ {excluded} : named[id][field] = value})

\* A phone number or mail address that is missing is nobody's.
checkUserUnique(row, excluded) ==
    /\ Count("name", row.name, excluded) = 0
    /\ row.second # Missing => Count("second", row.second, excluded) = 0

checkRoleUnique(row, excluded) ==
    Count("name", row.name, excluded) = 0 /\ Count("second", row.second, excluded) = 0

checkPostUnique(row, excluded) ==
    Count("name", row.name, excluded) = 0 /\ Count("second", row.second, excluded) = 0

Unique(row, excluded) ==
    CASE entity = "user" -> checkUserUnique(row, excluded)
      [] entity = "role" -> checkRoleUnique(row, excluded)
      [] entity = "post" -> checkPostUnique(row, excluded)

\* Mutant: a change of a profile does not take the lock.
UpdateProfileUnlocked(w) ==
    /\ entity = "user" /\ naming[w] = Resting
    /\ \E id \in Named, second \in Seconds :
         /\ Count("second", second, id) = 0
         /\ naming' = [naming EXCEPT ![w] =
              [@ EXCEPT !.at = "write", !.id = id, !.row = [named[id] EXCEPT !.second = second]]]
    /\ UNCHANGED <<entity, named, nameMu, unchecked>>

\* Under the lock, and the checks have passed.
Admitted(w, id, row, counted) ==
    /\ nameMu = Missing /\ naming[w] = Resting
    /\ nameMu' = w
    /\ naming' = [naming EXCEPT ![w] =
         [@ EXCEPT !.at = "write", !.id = id, !.row = row, !.counted = counted]]
    /\ UNCHANGED <<entity, named, unchecked>>

\* The request of a new role or post may carry an id, which is dropped only
\* after the count that leaves this id out.
CreateNamed(w) ==
    \E id \in Unborn, row \in NameRow :
        \E excluded \in {Missing} \cup (IF entity = "user" THEN {} ELSE Named) :
            /\ Unique(row, excluded)
            /\ Admitted(w, id, row, excluded = Missing)

UpdateNamed(w) ==
    \E id \in Named, row \in NameRow :
        /\ Unique(row, id)
        /\ Admitted(w, id, row, TRUE)

Register(w) ==
    /\ entity = "user"
    /\ \E id \in Unborn, name \in Given :
         /\ Count("name", name, Missing) = 0
         /\ Admitted(w, id, [name |-> name, second |-> Missing], TRUE)

\* A user changes its own phone number or mail address.
UpdateProfile(w) ==
    /\ entity = "user"
    /\ \E id \in Named, second \in Seconds \cup {Missing} :
         /\ second # Missing => Count("second", second, id) = 0
         /\ Admitted(w, id, [named[id] EXCEPT !.second = second], TRUE)

DeleteNamed(w) ==
    /\ nameMu = Missing /\ naming[w] = Resting
    /\ \E ids \in (SUBSET Named) \ {{}} :
         /\ named' = [id \in Named \ ids |-> named[id]]
         /\ unchecked' = unchecked \ ids
    /\ UNCHANGED <<entity, nameMu, naming>>

\* The row is written, or the write fails.
WriteNamed(w) ==
    /\ naming[w].at = "write"
    /\ LET id == naming[w].id
       IN \/ /\ named' = [other \in Named \cup {id} |-> IF other = id THEN naming[w].row ELSE named[other]]
             /\ unchecked' = IF naming[w].counted THEN unchecked \ {id} ELSE unchecked \cup {id}
          \/ UNCHANGED <<named, unchecked>>
    /\ nameMu' = IF nameMu = w THEN Missing ELSE nameMu
    /\ naming' = [naming EXCEPT ![w] = Resting]
    /\ UNCHANGED entity

-----------------------------------------------------------------------------
(* ImportUsers: the rows of a file, one by one.                            *)

\* The users the file names are read once, under the lock that is kept until
\* the last row.
ImportUsers(w) ==
    /\ entity = "user" /\ nameMu = Missing /\ naming[w] = Resting
    /\ \E file \in UNION {[1..n -> NameRow] : n \in 1..MaxFile}, replace \in BOOLEAN :
         LET known == {id \in Named : \E i \in DOMAIN file : file[i].name = named[id].name}
         IN naming' = [naming EXCEPT ![w] =
              [@ EXCEPT !.at = "import", !.file = file, !.replace = replace,
                        !.known = [n \in {named[id].name : id \in known} |->
                                       CHOOSE id \in known : named[id].name = n]]]
    /\ nameMu' = w
    /\ UNCHANGED <<entity, named, unchecked>>

\* Each row that was written is known to those after it.
Remember(known, name, id) ==
    [n \in DOMAIN known \cup {name} |-> IF n = name THEN id ELSE known[n]]

\* importOneUser: a user that is there keeps its name and is replaced only if
\* the request says so; neither way counts who has the phone number.  A row
\* that is not valid or fails is passed over.
importOneUser(w) ==
    /\ naming[w].at = "import" /\ naming[w].file # <<>>
    /\ LET row == Head(naming[w].file)
           known == naming[w].known
           rest == [naming[w] EXCEPT !.file = Tail(@)]
           written(id) == /\ named' = [other \in Named \cup {id} |-> IF other = id THEN row ELSE named[other]]
                          /\ unchecked' = unchecked \cup {id}
                          /\ naming' = [naming EXCEPT ![w] = [rest EXCEPT !.known = Remember(known, row.name, id)]]
       IN \/ row.name \notin DOMAIN known /\ \E id \in Unborn : written(id)
          \/ row.name \in DOMAIN known /\ naming[w].replace /\ written(known[row.name])
          \/ naming' = [naming EXCEPT ![w] = rest] /\ UNCHANGED <<named, unchecked>>
    /\ UNCHANGED <<entity, nameMu>>

EndImport(w) ==
    /\ naming[w].at = "import" /\ naming[w].file = <<>>
    /\ nameMu' = Missing
    /\ naming' = [naming EXCEPT ![w] = Resting]
    /\ UNCHANGED <<entity, named, unchecked>>

NamesNext ==
    \E w \in NameWriters :
        \/ CreateNamed(w) \/ UpdateNamed(w) \/ Register(w) \/ UpdateProfile(w) \/ DeleteNamed(w)
        \/ WriteNamed(w) \/ ImportUsers(w) \/ importOneUser(w) \/ EndImport(w)

NamesSpec == NamesInit /\ [][NamesNext]_nameVars

-----------------------------------------------------------------------------
NamesTypeOK ==
    /\ entity \in {"user", "role", "post"}
    /\ Named \subseteq NameIds /\ \A id \in Named : named[id] \in NameRow
    /\ nameMu \in NameWriters \cup {Missing}
    /\ \A w \in NameWriters : naming[w].at \in {"rest", "write", "import"} /\ Len(naming[w].file) <= MaxFile
    /\ unchecked \subseteq NameIds

\* However creations, edits, registrations, imports and changes of a profile
\* interleave, no name is taken twice (internal/service/write_locks.go:6): a
\* user's name never, and the other values only where a row was written that
\* nobody compared with all others, by an import or by a creation whose
\* request carried an id.
NamesDistinct ==
    \A id, other \in Named :
        /\ id # other /\ named[id].name = named[other].name => entity # "user" /\ {id, other} \cap unchecked # {}
        /\ id # other /\ named[id].second = named[other].second /\ named[id].second # Missing =>
               {id, other} \cap unchecked # {}

=============================================================================
