--------------------------------- MODULE Pool ---------------------------------
(***************************************************************************)
(* pkg/asyncx/pool.go: a bounded executor.  Submit never blocks: it queues *)
(* the work or refuses it, because the queue is full or admission is over. *)
(* Shutdown ends admission; the workers drain what was accepted.           *)
(***************************************************************************)
EXTENDS Naturals, Sequences, FiniteSets

CONSTANTS Workers, Capacity

VARIABLES
    queue,   \* accepted work no worker has taken
    busy,    \* the work the workers are doing
    closed   \* Shutdown was called

NewPool == queue = <<>> /\ busy = {} /\ closed = FALSE

\* Mutant: the buffer takes one more than its capacity.
AdmitsOneMore == ~closed /\ Len(queue) <= Capacity

Admits == ~closed /\ Len(queue) < Capacity

Submit(work) ==
    /\ Admits
    /\ queue' = Append(queue, work)
    /\ UNCHANGED <<busy, closed>>

\* A worker of run takes the next work, also after Shutdown.
Take ==
    /\ queue # <<>>
    /\ Cardinality(busy) < Workers
    /\ busy' = busy \cup {Head(queue)}
    /\ queue' = Tail(queue)
    /\ UNCHANGED closed

\* The work returned or panicked; the worker goes on either way.
Done(work) ==
    /\ work \in busy
    /\ busy' = busy \ {work}
    /\ UNCHANGED <<queue, closed>>

Close == ~closed /\ closed' = TRUE /\ UNCHANGED <<queue, busy>>

\* Every worker has left its loop: what Shutdown waits for.
Drained == closed /\ queue = <<>> /\ busy = {}

=============================================================================
