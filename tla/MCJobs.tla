------------------------------- MODULE MCJobs -------------------------------
\* Two processes, and a database that is replaced by a backup of another.
EXTENDS JobsInvariant

CONSTANTS r1, r2, f1, f2

\* Every backup was made by a running backup job that held the lease.
Backups == {[lock |-> [by |-> "gone", age |-> Aged],
             rec |-> [n \in JobName |-> Result(IF n = "backup" THEN "running" ELSE x, Hour)]] :
            x \in {"fine", "running"}}
=============================================================================
