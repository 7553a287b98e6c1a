---------------------------- MODULE GeneratedFiles ----------------------------
(***************************************************************************)
(* Generated code that is written to disk (WriteGenCode and                *)
(* writeGeneratedFile of internal/service/gen_render.go): several requests *)
(* for one table, each file replaced through a temporary file, with a      *)
(* backup when replacing is refused, while renames fail and the process    *)
(* may stop.  Requests read under genWriteMu, writers of the               *)
(* configuration exclude them.                                             *)
(***************************************************************************)
EXTENDS Naturals

CONSTANTS
    Generators,  \* requests to write the files
    NumFiles,    \* files of a table, written in this order
    MaxEdits,    \* bound: versions of the configuration
    MaxStops     \* bound: stops of the process

ASSUME GeneratedFilesAssumption == NumFiles \in Nat \ {0} /\ MaxEdits \in Nat \ {0} /\ MaxStops \in Nat

VARIABLES
    edition,  \* version of the rendered configuration
    disk,     \* file -> version under its name, 0 when there is none
    litter,   \* backups nobody will remove: <<file, version>>
    writing,  \* request -> where it is
    clean,    \* no request failed since there was none
    stops     \* stops of the process so far

fileVars == <<edition, disk, litter, writing, clean, stops>>

Files == 1..NumFiles
NotWriting == [at |-> "idle", edition |-> 0, file |-> 1, backup |-> 0]
Active == {g \in Generators : writing[g].at # "idle"}

FilesTypeOK ==
    /\ edition \in 1..MaxEdits
    /\ disk \in [Files -> 0..MaxEdits]
    /\ litter \subseteq Files \X (1..MaxEdits)
    /\ writing \in [Generators -> [at : {"idle", "replace", "back up", "retry", "restore", "remove"},
                                   edition : 0..MaxEdits, file : Files, backup : 0..MaxEdits]]
    /\ clean \in BOOLEAN /\ stops \in 0..MaxStops

FilesInit ==
    /\ edition = 1 /\ disk = [f \in Files |-> 0] /\ litter = {}
    /\ writing = [g \in Generators |-> NotWriting]
    /\ clean = TRUE /\ stops = 0

-----------------------------------------------------------------------------
\* Everything that writes the configuration holds genWriteMu alone.
ChangeConfig ==
    /\ Active = {} /\ edition < MaxEdits
    /\ edition' = edition + 1
    /\ UNCHANGED <<disk, litter, writing, clean, stops>>

\* WriteGenCode loads, renders and only then writes the first file.
Generate(g) ==
    /\ writing[g] = NotWriting
    /\ writing' = [writing EXCEPT ![g].at = "replace", ![g].edition = edition]
    /\ clean' = (clean \/ Active = {})
    /\ UNCHANGED <<edition, disk, litter, stops>>

\* The file is written: the next one, or the end of the request.
Written(g) ==
    LET w == writing[g] IN
    writing' = [writing EXCEPT ![g] = IF w.file = NumFiles THEN NotWriting
                                      ELSE [w EXCEPT !.at = "replace", !.file = w.file + 1, !.backup = 0]]

\* The request ends with an error; its backup, if there is one, stays.
FailWriting(g) ==
    /\ writing' = [writing EXCEPT ![g] = NotWriting]
    /\ clean' = FALSE

\* The temporary file, complete and closed, takes the name; or creating,
\* writing or closing it fails; or taking the name does.
Replace(g) ==
    LET f == writing[g].file IN
    /\ writing[g].at = "replace"
    /\ \/ /\ disk' = [disk EXCEPT ![f] = writing[g].edition]
          /\ Written(g) /\ UNCHANGED clean
       \/ FailWriting(g) /\ UNCHANGED disk
       \/ /\ disk[f] # 0
          /\ writing' = [writing EXCEPT ![g].at = "back up"]
          /\ UNCHANGED <<disk, clean>>
    /\ UNCHANGED <<edition, litter, stops>>

\* The old file gets the name of the backup.
MoveAway(g) ==
    /\ disk' = [disk EXCEPT ![writing[g].file] = 0]
    /\ writing' = [writing EXCEPT ![g].at = "retry", ![g].backup = disk[writing[g].file]]

BackUp(g) ==
    /\ writing[g].at = "back up"
    /\ \/ disk[writing[g].file] # 0 /\ MoveAway(g) /\ UNCHANGED clean
       \/ FailWriting(g) /\ UNCHANGED disk
    /\ UNCHANGED <<edition, litter, stops>>

RetryReplace(g) ==
    /\ writing[g].at = "retry"
    /\ \/ /\ disk' = [disk EXCEPT ![writing[g].file] = writing[g].edition]
          /\ writing' = [writing EXCEPT ![g].at = "remove"]
       \/ /\ writing' = [writing EXCEPT ![g].at = "restore"]
          /\ UNCHANGED disk
    /\ UNCHANGED <<edition, litter, clean, stops>>

Restore(g) ==
    LET f == writing[g].file IN
    /\ writing[g].at = "restore"
    /\ FailWriting(g)
    /\ \/ disk' = [disk EXCEPT ![f] = writing[g].backup] /\ UNCHANGED litter
       \/ litter' = litter \cup {<<f, writing[g].backup>>} /\ UNCHANGED disk
    /\ UNCHANGED <<edition, stops>>

RemoveBackup(g) ==
    /\ writing[g].at = "remove"
    /\ \/ Written(g) /\ UNCHANGED <<litter, clean>>
       \/ /\ litter' = litter \cup {<<writing[g].file, writing[g].backup>>}
          /\ FailWriting(g)
    /\ UNCHANGED <<edition, disk, stops>>

\* The process stops and starts again: what is on disk stays.
Stop ==
    /\ stops < MaxStops /\ Active # {}
    /\ stops' = stops + 1
    /\ litter' = litter \cup {<<writing[g].file, writing[g].backup>> :
                                  g \in {h \in Active : writing[h].backup # 0}}
    /\ writing' = [g \in Generators |-> NotWriting]
    /\ clean' = FALSE
    /\ UNCHANGED <<edition, disk>>

FilesNext ==
    \/ ChangeConfig \/ Stop
    \/ \E g \in Generators : Generate(g) \/ Replace(g) \/ BackUp(g) \/ RetryReplace(g) \/ Restore(g) \/ RemoveBackup(g)

FilesSpec == FilesInit /\ [][FilesNext]_fileVars

-----------------------------------------------------------------------------
HasCopy(f) ==
    \/ disk[f] # 0
    \/ \E g \in Generators : writing[g].file = f /\ writing[g].backup # 0
    \/ \E v \in 1..MaxEdits : <<f, v>> \in litter

\* A file somebody generated, and may have edited, is never gone: whatever
\* fails and wherever the process stops, it is complete under its name or
\* beside it (writeGeneratedFile, and its comment on removing the old file).
CopyKept == \A f \in Files : HasCopy(f) => HasCopy(f)'

\* When all requests succeeded the files belong together: they are of one
\* configuration although several requests wrote them at once.
OneEdition ==
    Active = {} /\ clean => \A f1, f2 \in Files : disk[f1] = disk[f2]

===============================================================================
