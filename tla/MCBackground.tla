----------------------------- MODULE MCBackground -----------------------------
EXTENDS Background

\* One of each kind: no job, jobs that run, a paused one, and two rows that
\* cannot be loaded.
MCBeginnings ==
    LET unloadable == Targets \ Schedulable
        rows == [status: {"normal"}, concurrent: {"allow", "forbid"}, target: Schedulable]
                    \cup [status: {"normal", "pause"}, concurrent: {"forbid"}, target: unloadable]
    IN [Jobs -> rows \cup {Unborn}]

=============================================================================
