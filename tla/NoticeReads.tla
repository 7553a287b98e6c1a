---------------------------- MODULE NoticeReads ----------------------------
(***************************************************************************)
(* Notices and who has read them (internal/service/notice.go,              *)
(* repository/notice.go, handler/notice.go).  Nothing in the process       *)
(* serialises these writers: a mark is a transaction that locks the        *)
(* notices it reads, a deletion one that removes the marks first and then  *)
(* the notices.  The locks are those of InnoDB at its default isolation,   *)
(* which the code leaves as it is: a row read FOR UPDATE or written stays  *)
(* locked until the end, and a deletion of marks keeps others from         *)
(* inserting in the range it searched.  What a transaction wrote is seen   *)
(* when it commits; any may be rolled back, as one of a deadlocked pair.   *)
(***************************************************************************)
EXTENDS Naturals, FiniteSets

CONSTANTS
    NoticeIds,   \* numbers: the newest is the largest
    NoticeReaders,
    NoticeTxs,
    Nobody,
    TopLimit     \* noticeTopLimit

ASSUME NoticeReadsAssumption == NoticeIds \subseteq Nat

VARIABLES
    notices,      \* notice -> "unborn", "draft", "published" or "deleted"
    reads,       \* sys_notice_read: pairs <<reader, notice>>
    noticeTx     \* what each request is doing

noticeVars == <<notices, reads, noticeTx>>

NoTx == [at |-> "rest", op |-> "none", ids |-> {}, reader |-> Nobody]

NoticesInit ==
    /\ notices = [n \in NoticeIds |-> "unborn"]
    /\ reads = {}
    /\ noticeTx = [t \in NoticeTxs |-> NoTx]

Existing == {n \in NoticeIds : notices[n] \in {"draft", "published"}}
Published == {n \in NoticeIds : notices[n] = "published"}
In(t, op, stages) == noticeTx[t].op = op /\ noticeTx[t].at \in stages

-----------------------------------------------------------------------------
(* The locks of a transaction.                                             *)

\* Mutant: the notices are read without FOR UPDATE.
NoticesUnlocked == [t \in NoticeTxs |-> IF In(t, "delete", {"commit"}) THEN noticeTx[t].ids ELSE {}]

\* The notices a mark has read FOR UPDATE, and those a deletion has written.
RowLocks ==
    [t \in NoticeTxs |->
       IF In(t, "mark", {"insert", "commit"}) \/ In(t, "delete", {"commit"}) THEN noticeTx[t].ids ELSE {}]

\* The notices whose marks a deletion has searched.
RangeLocks == [t \in NoticeTxs |-> IF In(t, "delete", {"notices", "commit"}) THEN noticeTx[t].ids ELSE {}]
\* The notices a mark has inserted a row of.
InsertLocks == [t \in NoticeTxs |-> IF In(t, "mark", {"commit"}) THEN noticeTx[t].ids ELSE {}]

Free(ids, locks, t) == \A other \in NoticeTxs \ {t} : locks[other] \cap ids = {}

MoveTx(t, stage) == noticeTx' = [noticeTx EXCEPT ![t].at = stage]
EndTx(t) == noticeTx' = [noticeTx EXCEPT ![t] = NoTx]
BeginTx(t, op, stage, ids, reader) ==
    /\ noticeTx[t] = NoTx
    /\ noticeTx' = [noticeTx EXCEPT ![t] = [at |-> stage, op |-> op, ids |-> ids, reader |-> reader]]

-----------------------------------------------------------------------------
\* The database chooses the next number; a status that is not given is "published".
CreateNotice(t) ==
    /\ noticeTx[t] = NoTx
    /\ \E n \in NoticeIds, new \in {"draft", "published"} :
         /\ \A other \in NoticeIds : (notices[other] = "unborn") = (other >= n)
         /\ notices' = [notices EXCEPT ![n] = new]
    /\ UNCHANGED <<reads, noticeTx>>

\* The notice is looked for first; a row that is gone by the time of the
\* update is no error.
UpdateNotice(t) == \E n \in Existing : BeginTx(t, "update", "update", {n}, Nobody) /\ UNCHANGED <<notices, reads>>

WriteNotice(t) ==
    /\ In(t, "update", {"update"})
    /\ Free(noticeTx[t].ids, RowLocks, t)
    /\ \E new \in {"draft", "published"} :
         notices' = [n \in NoticeIds |-> IF n \in noticeTx[t].ids \cap Existing THEN new ELSE notices[n]]
    /\ EndTx(t)
    /\ UNCHANGED reads

\* DeleteNotices: the marks, then the notices.  The gap of a notice without
\* marks may be locked by several deletions.
DeleteReads(t) ==
    /\ \E ids \in (SUBSET NoticeIds) \ {{}} :
         /\ Free({mark[2] : mark \in reads} \cap ids, RangeLocks, t)
         /\ Free(ids, InsertLocks, t)
         /\ BeginTx(t, "delete", "notices", ids, Nobody)
    /\ UNCHANGED <<notices, reads>>

DeleteRows(t) ==
    /\ In(t, "delete", {"notices"})
    /\ Free(noticeTx[t].ids, RowLocks, t)
    /\ MoveTx(t, "commit")
    /\ UNCHANGED <<notices, reads>>

\* MarkNoticeRead and MarkNoticeReadBatch, of one notice or of those of the
\* list.  If one of them is not published the transaction ends with nothing done.
MarkPublishedNoticesRead(t) ==
    /\ \E reader \in NoticeReaders, ids \in (SUBSET NoticeIds) \ {{}} :
         /\ Free(ids, RowLocks, t)
         /\ ids \subseteq Published
         /\ BeginTx(t, "mark", "insert", ids, reader)
    /\ UNCHANGED <<notices, reads>>

InsertReads(t) ==
    /\ In(t, "mark", {"insert"})
    /\ Free(noticeTx[t].ids, RangeLocks, t)
    /\ MoveTx(t, "commit")
    /\ UNCHANGED <<notices, reads>>

\* A mark that is there already is left as it is.
Commit(t) ==
    /\ noticeTx[t].at = "commit"
    /\ LET ids == noticeTx[t].ids
       IN IF noticeTx[t].op = "mark"
            THEN reads' = reads \cup ({noticeTx[t].reader} \X ids) /\ UNCHANGED notices
            ELSE /\ reads' = {mark \in reads : mark[2] \notin ids}
                 /\ notices' = [n \in NoticeIds |-> IF n \in ids \cap Existing THEN "deleted" ELSE notices[n]]
    /\ EndTx(t)

\* A statement fails, the database breaks a deadlock, or the process stops.
Rollback(t) == noticeTx[t] # NoTx /\ EndTx(t) /\ UNCHANGED <<notices, reads>>

NoticesNext ==
    \E t \in NoticeTxs :
        \/ CreateNotice(t) \/ UpdateNotice(t) \/ WriteNotice(t) \/ DeleteReads(t) \/ DeleteRows(t)
        \/ MarkPublishedNoticesRead(t) \/ InsertReads(t) \/ Commit(t) \/ Rollback(t)

NoticesSpec == NoticesInit /\ [][NoticesNext]_noticeVars

-----------------------------------------------------------------------------
\* The newest published notices, each with whether the reader has read it;
\* the badge counts those it has not.
SelectNoticeTop(reader) ==
    {<<n, <<reader, n>> \in reads>> : n \in {p \in Published : Cardinality({q \in Published : q > p}) < TopLimit}}

ListNoticeTop(reader) ==
    LET list == SelectNoticeTop(reader)
    IN [list |-> list, unread |-> Cardinality({row \in list : ~row[2]})]

\* Who has read a notice.
SelectNoticeReadUsers(n) == {mark[1] : mark \in {m \in reads : m[2] = n}}

-----------------------------------------------------------------------------
NoticesTypeOK ==
    /\ notices \in [NoticeIds -> {"unborn", "draft", "published", "deleted"}]
    /\ reads \subseteq NoticeReaders \X NoticeIds
    /\ \A t \in NoticeTxs :
         /\ noticeTx[t].at \in {"rest", "update", "notices", "insert", "commit"}
         /\ noticeTx[t].op \in {"none", "update", "delete", "mark"}
         /\ noticeTx[t].ids \subseteq NoticeIds /\ noticeTx[t].reader \in NoticeReaders \cup {Nobody}

\* However marks and deletions meet, no mark of a deleted notice stays behind,
\* and nobody is counted among the readers of one.
ReadsHaveNotices == \A n \in NoticeIds \ Existing : SelectNoticeReadUsers(n) = {}

\* From the check to the write a notice is neither deleted nor taken back to a
\* draft (internal/repository/notice.go:148): a mark appears only on a notice
\* that is published then, and the badge of a reader grows only when a notice
\* is published or removed, never by a mark.
MarkedWhilePublished ==
    /\ \A mark \in reads' \ reads : mark[2] \in Published \cap Published'
    /\ \A reader \in NoticeReaders :
         ListNoticeTop(reader).unread' > ListNoticeTop(reader).unread => notices' # notices

=============================================================================
