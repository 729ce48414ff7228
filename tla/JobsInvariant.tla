----------------------------- MODULE JobsInvariant -----------------------------
(***************************************************************************)
(* The inductive invariant behind the theorems of Jobs_proofs: what a      *)
(* lease that has not lapsed says of its holder, and what a restore has in *)
(* hand.                                                                   *)
(***************************************************************************)
EXTENDS Jobs

\* A process past its start has a file open.
JobsAreInFiles ==
    \A r \in Run : job[r].pc \in {"open"} \cup AtWork => job[r].file \in File

\* Within its lease a job's lease is the one in its file, and as old.
LeaseIsOwn ==
    \A r \in Run : job[r].pc \in AtWork /\ job[r].age <= LockMaxAge =>
                     db[job[r].file].lock = [by |-> r, age |-> job[r].age]

\* So is the restore's, in the file it is about to replace.
RestoreLeaseIsOwn ==
    rst.pc = "leased" /\ rst.age <= LockMaxAge => db[live].lock = [by |-> "restore", age |-> rst.age]

\* The file to be put in place is nobody's yet, unleased, and tells of no running job.
CopyIsClean ==
    rst.pc # "none" =>
        /\ rst.file \in File \ {live} /\ \A r \in Run : job[r].file # rst.file
        /\ db[rst.file].lock = None
        /\ \A n \in JobName : ~Running(db[rst.file].rec[n])

IInv == TypeOK /\ JobsAreInFiles /\ LeaseIsOwn /\ RestoreLeaseIsOwn /\ CopyIsClean
=============================================================================
