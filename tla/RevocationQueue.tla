--------------------------- MODULE RevocationQueue ---------------------------
(***************************************************************************)
(* permissionRevocationQueue (internal/service/permission_recovery.go):    *)
(* the users whose sessions must be revoked because a permission refresh   *)
(* failed.  While a user is in `pending' the requests of that user are     *)
(* turned away (isPending), so a user forgotten there is locked out.       *)
(*                                                                         *)
(* Two goroutines: the caller, which is whoever holds permissionRefreshMu  *)
(* (token.go marks, clears and compensates under that lock only), and the  *)
(* worker, which retries.  q.mu makes mark, clear, takeBatch, finishBatch  *)
(* and stats atomic; attemptMu keeps one batch in flight; the revocation   *)
(* itself runs under no q.mu and may fail for some users of its batch.     *)
(***************************************************************************)
EXTENDS Naturals, Sequences, FiniteSets, SequencesExt

CONSTANTS
    Users,
    Limit,      \* permissionPendingLimit
    BatchSize,  \* permissionRetryBatchSize
    MaxMarks    \* bound: no refresh starts once that many users have been queued

ASSUME LimitAssumption == IsFiniteSet(Users) /\ Limit \in Nat \ {0} /\ BatchSize \in Nat \ {0}

VARIABLES
    pending,    \* user -> time of its mark, 0 when not pending
    order,      \* queue of the users to take, with leftovers of cleared marks
    oldest,     \* heap of marks by time, with leftovers of cleared marks
    clock,      \* time.Now: it advances with every mark that queues somebody
    wake,       \* the channel of capacity one holds a token
    stopped,    \* the stop channel is closed
    attemptMu,  \* who is processing a batch
    attempt,    \* goroutine -> its state in processOneBatch
    caller      \* what the caller is doing

queueVars == <<pending, order, oldest, clock, wake, stopped, attemptMu, attempt, caller>>
queue == <<pending, order, oldest, clock>>

Goroutines == {"caller", "worker"}
AttemptPC == {"idle", "attempt", "revoke", "finish", "stats", "backoff", "done"}
NoAttempt == [pc |-> "idle", batch |-> <<>>, failures |-> {}]
NoCaller == [pc |-> "idle", ids |-> {}, failed |-> {}]

Batches == UNION {[1..n -> Users] : n \in 0..BatchSize}

\* A batch never exceeds BatchSize, and no mark is of a later time than now.
QueueTypeOK ==
    /\ pending \in [Users -> 0..clock]
    /\ order \in Seq(Users)
    /\ oldest \in Seq([user: Users, at: 1..clock])
    /\ clock \in Nat
    /\ wake \in BOOLEAN
    /\ stopped \in BOOLEAN
    /\ attemptMu \in Goroutines \cup {"free"}
    /\ attempt \in [Goroutines -> [pc: AttemptPC, batch: Batches, failures: SUBSET Users]]
    /\ caller \in [pc: {"idle", "refresh", "compensate"}, ids: SUBSET Users,
                   failed: SUBSET Users]

QueueInit ==
    /\ pending = [u \in Users |-> 0]
    /\ order = <<>>
    /\ oldest = <<>>
    /\ clock = 0
    /\ wake = FALSE
    /\ stopped = FALSE
    /\ attemptMu = "free"
    /\ attempt = [g \in Goroutines |-> NoAttempt]
    /\ caller = NoCaller

Pending == {u \in Users : pending[u] # 0}
Goto(g, pc) == attempt' = [attempt EXCEPT ![g] = [@ EXCEPT !.pc = pc]]

-----------------------------------------------------------------------------
(* The operations under q.mu.                                              *)

\* Queue the users of us that are not pending, as far as the limit allows;
\* `dropped' are the others.
Mark(us, dropped) ==
    /\ dropped \subseteq us \ Pending
    /\ LET new == (us \ Pending) \ dropped IN
       /\ dropped = {} \/ Cardinality(Pending \cup new) >= Limit
       /\ Cardinality(Pending \cup new) <= Limit \/ new = {}
       /\ IF new = {} THEN UNCHANGED queue
          ELSE /\ clock' = clock + Cardinality(new)
               /\ pending' = [u \in Users |-> IF u \in new THEN clock' ELSE pending[u]]
               /\ \E s \in SetToSeqs(new) :
                    /\ order' = order \o s
                    /\ oldest' = oldest \o [i \in DOMAIN s |-> [user |-> s[i], at |-> clock']]

ClearMark(u) ==
    /\ pending' = [pending EXCEPT ![u] = 0]
    /\ UNCHANGED <<order, oldest, clock>>

\* What of a sequence is in a set, in its order.
Filtered(s, wanted) ==
    LET some[n \in 0..Len(s)] ==
            IF n = 0 THEN <<>>
            ELSE IF s[n] \in wanted THEN Append(some[n - 1], s[n]) ELSE some[n - 1]
    IN some[Len(s)]

\* How far takeBatch pops: up to BatchSize pending users, or everything.
Popped ==
    LET found(n) == Cardinality({i \in 1..n : pending[order[i]] # 0}) IN
    CHOOSE n \in 0..Len(order) :
        /\ found(n) = BatchSize \/ n = Len(order)
        /\ \A k \in 0..(n - 1) : found(k) < BatchSize

\* takeBatch under attemptMu.  A user marked again after a clear is in order,
\* and may be in the batch, twice.
TakeBatch(g) ==
    LET batch == Filtered(SubSeq(order, 1, Popped), Pending) IN
    /\ attempt[g].pc = "attempt"
    /\ attemptMu = "free"
    /\ order' = SubSeq(order, Popped + 1, Len(order))
    /\ attempt' = [attempt EXCEPT ![g] =
         [pc |-> IF batch = <<>> THEN "stats" ELSE "revoke", batch |-> batch, failures |-> {}]]
    /\ attemptMu' = IF batch = <<>> THEN "free" ELSE g
    /\ UNCHANGED <<pending, oldest, clock, wake, stopped, caller>>

\* revokeUserSessionsBatch with a deadline of its own: any users may fail.
Revoke(g) ==
    /\ attempt[g].pc = "revoke"
    /\ \E failures \in SUBSET ToSet(attempt[g].batch) :
         attempt' = [attempt EXCEPT ![g] = [@ EXCEPT !.pc = "finish", !.failures = failures]]
    /\ UNCHANGED <<queue, wake, stopped, attemptMu, caller>>

\* Mutant: failed users are not queued again.
FinishBatchDropping(g) ==
    LET served == ToSet(attempt[g].batch) \ attempt[g].failures IN
    /\ attempt[g].pc = "finish"
    /\ pending' = [u \in Users |-> IF u \in served THEN 0 ELSE pending[u]]
    /\ attemptMu' = "free"
    /\ Goto(g, "stats")
    /\ UNCHANGED <<order, oldest, clock, wake, stopped, caller>>

\* finishBatch: failed users that are still pending queue again, the others are
\* released, whether or not they were cleared and marked again meanwhile.
FinishBatch(g) ==
    LET batch == attempt[g].batch
        failures == attempt[g].failures
    IN
    /\ attempt[g].pc = "finish"
    /\ order' = order \o Filtered(batch, failures \cap Pending)
    /\ pending' = [u \in Users |-> IF u \in ToSet(batch) \ failures THEN 0 ELSE pending[u]]
    /\ attemptMu' = "free"
    /\ Goto(g, "stats")
    /\ UNCHANGED <<oldest, clock, wake, stopped, caller>>

\* stats pops marks that are over from the heap; what is left at its top is
\* the reported OldestWait.
Trimmed ==
    LET valid == {i \in DOMAIN oldest : pending[oldest[i].user] = oldest[i].at} IN
    IF valid = {} THEN <<>> ELSE SubSeq(oldest, Min(valid), Len(oldest))

-----------------------------------------------------------------------------
(* The caller, under permissionRefreshMu.                                  *)

\* refreshOnlineUsersByIDLocked marks everybody before it reads sessions ...
StartRefresh(us) ==
    /\ caller.pc = "idle"
    /\ clock < MaxMarks
    /\ \E dropped \in SUBSET us : Mark(us, dropped)
    /\ caller' = [NoCaller EXCEPT !.pc = "refresh", !.ids = us]
    /\ UNCHANGED <<wake, stopped, attemptMu, attempt>>

\* ... clears a user that is not online or has been refreshed ...
RefreshUser(u) ==
    /\ caller.pc = "refresh"
    /\ u \in caller.ids
    /\ ClearMark(u)
    /\ caller' = [caller EXCEPT !.ids = @ \ {u}]
    /\ UNCHANGED <<wake, stopped, attemptMu, attempt>>

\* ... or notes its failure, ...
FailUser(u) ==
    /\ caller.pc = "refresh"
    /\ u \in caller.ids
    /\ caller' = [caller EXCEPT !.ids = @ \ {u}, !.failed = @ \cup {u}]
    /\ UNCHANGED <<queue, wake, stopped, attemptMu, attempt>>

\* ... and compensates those that failed.  A lazy refresh that fails
\* compensates its user without a mark of its own, and one that succeeds clears it.
Compensate(us) ==
    /\ \/ caller.pc = "refresh" /\ caller.ids = {} /\ us = caller.failed /\ us # {}
       \/ caller.pc = "idle" /\ Cardinality(us) = 1 /\ clock < MaxMarks
    /\ \E dropped \in SUBSET us : Mark(us, dropped)
    /\ caller' = [NoCaller EXCEPT !.pc = "compensate"]
    /\ Goto("caller", "attempt")
    /\ UNCHANGED <<wake, stopped, attemptMu>>

FinishRefresh ==
    /\ caller.pc = "refresh" /\ caller.ids = {} /\ caller.failed = {}
    /\ caller' = NoCaller
    /\ UNCHANGED <<queue, wake, stopped, attemptMu, attempt>>

LazyRefreshed(u) ==
    /\ caller.pc = "idle"
    /\ ClearMark(u)
    /\ UNCHANGED <<wake, stopped, attemptMu, attempt, caller>>

\* Mutant: compensate returns before it has signalled anybody.
ReturnSilently ==
    /\ attempt["caller"].pc = "stats"
    /\ oldest' = Trimmed
    /\ Goto("caller", "idle")
    /\ caller' = NoCaller
    /\ UNCHANGED <<pending, order, clock, wake, stopped, attemptMu>>

\* The end of compensate: whoever is left is the worker's.
Return ==
    /\ attempt["caller"].pc = "stats"
    /\ oldest' = Trimmed
    /\ wake' = (wake \/ Pending # {})
    /\ Goto("caller", "idle")
    /\ caller' = NoCaller
    /\ UNCHANGED <<pending, order, clock, stopped, attemptMu>>

-----------------------------------------------------------------------------
(* The worker.                                                             *)

\* select: a token, or the closed stop channel; when both are ready Go picks.
WakeUp ==
    /\ attempt["worker"].pc = "idle"
    /\ wake
    /\ wake' = FALSE
    /\ Goto("worker", "attempt")
    /\ UNCHANGED <<queue, stopped, attemptMu, caller>>

\* After a batch: wait for the next token, take the next batch, or back off.
AfterBatch ==
    LET w == attempt["worker"] IN
    /\ w.pc = "stats"
    /\ oldest' = Trimmed
    /\ Goto("worker", IF w.batch = <<>> \/ Pending = {} THEN "idle"
                      ELSE IF w.failures = {} THEN "attempt" ELSE "backoff")
    /\ UNCHANGED <<pending, order, clock, wake, stopped, attemptMu, caller>>

\* The timer fires before the worker sees that stop is closed.
Retry ==
    /\ attempt["worker"].pc = "backoff"
    /\ Goto("worker", "attempt")
    /\ UNCHANGED <<queue, wake, stopped, attemptMu, caller>>

StopWorker ==
    /\ stopped
    /\ attempt["worker"].pc \in {"idle", "backoff"}
    /\ Goto("worker", "done")
    /\ UNCHANGED <<queue, wake, stopped, attemptMu, caller>>

\* shutdown closes the stop channel, once, and waits for the worker.
Shutdown ==
    /\ ~ stopped
    /\ stopped' = TRUE
    /\ UNCHANGED <<queue, wake, attemptMu, attempt, caller>>

-----------------------------------------------------------------------------
ProcessBatch(g) == TakeBatch(g) \/ Revoke(g) \/ FinishBatch(g)
Refresh(u) == RefreshUser(u) \/ FailUser(u)
Worker == WakeUp \/ ProcessBatch("worker") \/ AfterBatch \/ Retry \/ StopWorker
Caller ==
    \/ \E us \in (SUBSET Users) \ {{}} : StartRefresh(us) \/ Compensate(us)
    \/ \E u \in Users : Refresh(u) \/ LazyRefreshed(u)
    \/ FinishRefresh
    \/ ProcessBatch("caller")
    \/ Return

QueueNext == Worker \/ Caller \/ Shutdown

QueueSpec == QueueInit /\ [][QueueNext]_queueVars

\* Both goroutines keep running once they have something to do; attemptMu is
\* handed over in turn; select picks among ready channels at random, so stop is
\* picked in the end; nobody is obliged to start a refresh or the shutdown.
QueueFairSpec ==
    /\ QueueSpec
    /\ WF_queueVars(WakeUp \/ Revoke("worker") \/ FinishBatch("worker") \/ AfterBatch)
    /\ WF_queueVars(Retry) /\ SF_queueVars(StopWorker)
    /\ WF_queueVars(Revoke("caller") \/ FinishBatch("caller") \/ Return)
    /\ WF_queueVars(\E u \in Users : Refresh(u))
    /\ WF_queueVars(FinishRefresh \/ Compensate(caller.failed))
    /\ SF_queueVars(TakeBatch("worker")) /\ SF_queueVars(TakeBatch("caller"))

-----------------------------------------------------------------------------
(* Properties.                                                             *)

InFlight == UNION {ToSet(attempt[g].batch) :
                     g \in {h \in Goroutines : attempt[h].pc \in {"revoke", "finish"}}}

\* A user that is pending, and so locked out, is queued or in the batch in
\* flight, however marks, clears, failures and retries interleave: nobody is
\* pending with nothing left that would release him (takeBatch, finishBatch).
PendingQueued == Pending \subseteq ToSet(order) \cup InFlight

\* Nobody waits for a worker that sleeps: pending users that the caller is not
\* dealing with have a worker at work or a token that wakes it (signal, run).
NoLostWakeup ==
    Pending \subseteq caller.ids \cup caller.failed
    \/ wake \/ attempt["worker"].pc # "idle" \/ attempt["caller"].pc # "idle"

\* Whoever is pending is released in the end by somebody who knows of him.
MarksServed == PendingQueued /\ NoLostWakeup

\* The wait that stats reports is that of the user who has waited longest
\* since being marked, not of a mark that was cleared.
OldestReported ==
    [][\A g \in Goroutines :
         attempt[g].pc = "stats" /\ attempt'[g].pc # "stats" /\ Pending # {} =>
           oldest' # <<>> /\ Head(oldest').at = Min({pending[u] : u \in Pending})]_queueVars

\* permission_recovery.go:28: the queue is bounded.
QueueBounded == Len(order) <= Limit

\* Redis comes back: a batch tried again and again succeeds in the end.
Recovered(g) == Revoke(g) /\ attempt'[g].failures = {}
RedisRecovers == \A g \in Goroutines : SF_queueVars(Recovered(g))

\* The worker ends when told to, even while Redis never answers; and once Redis
\* answers again, every user marked is released, unless the process is shut
\* down, however often the worker goes to sleep meanwhile (run, signal, shutdown).
QueueProgress ==
    /\ stopped ~> attempt["worker"].pc = "done"
    /\ RedisRecovers => \A u \in Users : pending[u] # 0 ~> (pending[u] = 0 \/ stopped)

=============================================================================
