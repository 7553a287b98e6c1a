----------------------------- MODULE UserFiles -----------------------------
(***************************************************************************)
(* Uploaded files and the rows that point at them (internal/handler/       *)
(* profile.go and common.go, internal/service/profile.go, pkg/upload):     *)
(* the avatar of a user, whose file is written before the database is told *)
(* and whose predecessor is removed after it was, and the files of a batch *)
(* that are kept together or not at all.  File and row change in separate  *)
(* steps, each of which may fail, and the process may stop between them.   *)
(* Names are fresh (uuid), so a file and its address are the same here.    *)
(***************************************************************************)
EXTENDS Naturals, FiniteSets

CONSTANTS
    Owners, Uploaded, Uploads,
    NoFile,
    External,    \* the address of an avatar that is not one of our files
    BatchSizes   \* how many files a batch may have

\* Neither no address nor one from elsewhere is that of an uploaded file.
ASSUME UserFilesAssumption ==
    BatchSizes \subseteq Nat /\ NoFile \notin Uploaded /\ External \notin Uploaded

VARIABLES
    avatar,      \* user -> the address in its row; deleted users keep theirs
    gone,        \* users that are deleted
    stored,        \* the files that are there
    upload,      \* what each request is doing
    avatarMu,    \* userWriteMu, for the requests that change an avatar
    handed,      \* files whose address a successful batch answered with
    lost,        \* files whose removal failed or was never reached (history)
    unheard      \* files whose commit happened without the request hearing of it (history)

userFileVars == <<avatar, gone, stored, upload, avatarMu, handed, lost, unheard>>

NoUpload == [at |-> "rest", owner |-> NoFile, new |-> NoFile, old |-> NoFile,
             persisted |-> FALSE, left |-> 0, saved |-> {}]

UserFilesInit ==
    /\ avatar \in [Owners -> {NoFile, External}]
    /\ gone = {} /\ stored = {} /\ handed = {} /\ lost = {} /\ unheard = {}
    /\ upload = [r \in Uploads |-> NoUpload]
    /\ avatarMu = NoFile

Busy == {upload[r].new : r \in Uploads} \cup UNION {upload[r].saved : r \in Uploads}
Fresh == Uploaded \ (stored \cup Busy \cup handed \cup lost \cup unheard \cup {avatar[u] : u \in Owners})
SetUpload(r, changes) == upload' = [upload EXCEPT ![r] = changes]
EndUpload(r) == SetUpload(r, NoUpload)

-----------------------------------------------------------------------------
(* The avatar: ProfileAvatar and UpdateAvatar.                             *)

\* upload.Save: a copy that fails is removed again, if that does not fail, too.
SaveAvatar(r) ==
    /\ upload[r] = NoUpload
    /\ \E u \in Owners, f \in Fresh :
         \/ stored' = stored \cup {f} /\ lost' = lost
              /\ SetUpload(r, [NoUpload EXCEPT !.at = "update", !.owner = u, !.new = f])
         \/ stored' = stored \cup {f} /\ lost' = lost \cup {f} /\ UNCHANGED upload
    /\ UNCHANGED <<avatar, gone, avatarMu, handed, unheard>>

LockAvatar(r) ==
    /\ upload[r].at = "update"
    /\ avatarMu = NoFile /\ avatarMu' = r
    /\ SetUpload(r, [upload[r] EXCEPT !.at = "replace"])
    /\ UNCHANGED <<avatar, gone, stored, handed, lost, unheard>>

\* The row is read and written under its lock.  A user that is deleted is not
\* found; a commit may be reported as failed although it was not.
ReplaceUserAvatar(r) ==
    LET u == upload[r].owner
        reconcile == [upload[r] EXCEPT !.at = "reconcile"]
    IN /\ upload[r].at = "replace"
       /\ \/ /\ u \notin gone
             /\ avatar' = [avatar EXCEPT ![u] = upload[r].new]
             /\ SetUpload(r, [upload[r] EXCEPT !.at = "refresh", !.old = avatar[u], !.persisted = TRUE])
             /\ UNCHANGED <<avatarMu, unheard>>
          \/ avatarMu' = NoFile /\ SetUpload(r, reconcile) /\ UNCHANGED <<avatar, unheard>>
          \/ /\ u \notin gone
             /\ avatar' = [avatar EXCEPT ![u] = upload[r].new]
             /\ avatarMu' = NoFile /\ SetUpload(r, reconcile)
             /\ unheard' = unheard \cup {upload[r].new} \cup ({avatar[u]} \cap Uploaded)
       /\ UNCHANGED <<gone, stored, handed, lost>>

\* Mutant: a failed refresh counts as a failed update.
UpdateAvatarOrNothing(r) ==
    /\ upload[r].at = "refresh"
    /\ avatarMu' = NoFile
    /\ \E refreshed \in BOOLEAN : SetUpload(r, [upload[r] EXCEPT !.at = "reconcile", !.persisted = refreshed])
    /\ UNCHANGED <<avatar, gone, stored, handed, lost, unheard>>

\* The sessions of the user are refreshed; that this failed is answered, and
\* does not take the new avatar back.
UpdateAvatar(r) ==
    /\ upload[r].at = "refresh"
    /\ avatarMu' = NoFile
    /\ SetUpload(r, [upload[r] EXCEPT !.at = "reconcile"])
    /\ UNCHANGED <<avatar, gone, stored, handed, lost, unheard>>

\* What is left over: the old file if the row has the new address.
Target(r) == IF upload[r].persisted THEN upload[r].old ELSE upload[r].new

\* RemoveManagedFile leaves what is not in its directory; a failure is logged.
reconcileAvatarFiles(r) ==
    /\ upload[r].at = "reconcile"
    /\ \/ stored' = stored \ {Target(r)} /\ UNCHANGED lost
       \/ Target(r) \in stored /\ lost' = lost \cup {Target(r)} /\ UNCHANGED stored
    /\ EndUpload(r)
    /\ UNCHANGED <<avatar, gone, avatarMu, handed, unheard>>

-----------------------------------------------------------------------------
(* A batch: CommonUploads, or CommonUpload with one file.                  *)

StartBatch(r) ==
    /\ upload[r] = NoUpload
    /\ \E n \in BatchSizes : SetUpload(r, [NoUpload EXCEPT !.at = "batch", !.left = n])
    /\ UNCHANGED <<avatar, gone, stored, avatarMu, handed, lost, unheard>>

\* The next file; one that fails may leave a file behind, as in SaveAvatar.
saveUpload(r) ==
    /\ upload[r].at = "batch" /\ upload[r].left > 0
    /\ \/ \E f \in Fresh :
            /\ stored' = stored \cup {f}
            /\ SetUpload(r, [upload[r] EXCEPT !.left = @ - 1, !.saved = @ \cup {f}])
            /\ UNCHANGED lost
       \/ /\ \E rest \in {{}} \cup {{f} : f \in Fresh} :
               stored' = stored \cup rest /\ lost' = lost \cup rest
          /\ SetUpload(r, [upload[r] EXCEPT !.at = "rollback"])
    /\ UNCHANGED <<avatar, gone, avatarMu, handed, unheard>>

\* One by one; a file that cannot be removed is logged and passed over.
rollbackUploads(r) ==
    /\ upload[r].at = "rollback"
    /\ \/ /\ upload[r].saved = {} /\ EndUpload(r) /\ UNCHANGED <<stored, lost>>
       \/ \E f \in upload[r].saved :
            /\ SetUpload(r, [upload[r] EXCEPT !.saved = @ \ {f}])
            /\ \/ stored' = stored \ {f} /\ UNCHANGED lost
               \/ lost' = lost \cup {f} /\ UNCHANGED stored
    /\ UNCHANGED <<avatar, gone, avatarMu, handed, unheard>>

AnswerBatch(r) ==
    /\ upload[r].at = "batch" /\ upload[r].left = 0
    /\ handed' = handed \cup upload[r].saved
    /\ EndUpload(r)
    /\ UNCHANGED <<avatar, gone, stored, avatarMu, lost, unheard>>

-----------------------------------------------------------------------------
\* DeleteUsers: the row stays, marked as deleted, and so does the file.
DeleteOwner(u) ==
    /\ avatarMu = NoFile
    /\ gone' = gone \cup {u}
    /\ UNCHANGED <<avatar, stored, upload, avatarMu, handed, lost, unheard>>

\* The process stops: what the requests had yet to remove stays.
StopUploads ==
    /\ \E r \in Uploads : upload[r] # NoUpload
    /\ upload' = [r \in Uploads |-> NoUpload]
    /\ avatarMu' = NoFile
    /\ lost' = lost \cup (stored \cap (Busy \cup {upload[r].old : r \in Uploads}))
    /\ UNCHANGED <<avatar, gone, stored, handed, unheard>>

UserFilesNext ==
    \/ \E r \in Uploads :
         \/ SaveAvatar(r) \/ LockAvatar(r) \/ ReplaceUserAvatar(r) \/ UpdateAvatar(r) \/ reconcileAvatarFiles(r)
         \/ StartBatch(r) \/ saveUpload(r) \/ rollbackUploads(r) \/ AnswerBatch(r)
    \/ \E u \in Owners : DeleteOwner(u)
    \/ StopUploads

UserFilesSpec == UserFilesInit /\ [][UserFilesNext]_userFileVars

-----------------------------------------------------------------------------
UserFilesTypeOK ==
    /\ avatar \in [Owners -> Uploaded \cup {NoFile, External}]
    /\ gone \subseteq Owners
    /\ stored \cup handed \cup lost \cup unheard \subseteq Uploaded
    /\ avatarMu \in Uploads \cup {NoFile}
    /\ \A r \in Uploads : upload[r].at \in {"rest", "update", "replace", "refresh", "reconcile", "batch", "rollback"}

\* However uploads of one user meet and whatever fails, a row never points at
\* a file that is not there, and no file is left that nobody knows of
\* (internal/handler/profile.go:133): each is some row's, a running request's,
\* answered to a client, or one whose removal failed or was cut short.  The one
\* way out is a commit the request did not hear of: then the new file is removed.
FilesAccounted ==
    /\ \A u \in Owners : avatar[u] \in Uploaded \ unheard => avatar[u] \in stored
    /\ stored \subseteq {avatar[u] : u \in Owners} \cup Busy \cup {upload[r].old : r \in Uploads}
                        \cup handed \cup lost \cup unheard
    /\ handed \subseteq stored

=============================================================================
