-------------------------------- MODULE Jobs --------------------------------
(***************************************************************************)
(* The background jobs of the deck builder (jobs.ts, server.ts, cli.ts) and *)
(* the restore of a backup (backups.ts): the server that queues a refresh   *)
(* or a backup and runs it in a child process, the same commands run by     *)
(* hand, and the offline restore that replaces the database file.           *)
(*                                                                         *)
(* What they share is in the database: the lease meta['job:lock'], which    *)
(* lapses, and the record of each job's last run.  A process has the file   *)
(* open that was in place when it opened it, so a job may go on writing to  *)
(* a file that a restore has replaced.                                      *)
(*                                                                         *)
(* Time is kept as the age of every stamp, saturating at Aged: a lease, a   *)
(* record and a job grow older together, and the model stays finite without *)
(* a last hour.  Any process may die between two of its steps.              *)
(***************************************************************************)
EXTENDS Naturals, Sequences, SequencesExt

CONSTANTS
    Run,            \* processes that run a job: children of the server, and commands
    File,           \* database files, in place, being restored, or replaced
    Hour,           \* after which a failed job is tried again
    LockMaxAge,     \* a lease older than this has lapsed
    Aged,           \* the oldest age told apart
    MaxEvents,      \* how often somebody runs a command or restores, or something dies
    Backup,         \* the meta tables of the backups there are to restore
    None

ASSUME AgesAssumption ==
    /\ {Hour, LockMaxAge, Aged, MaxEvents} \subseteq Nat
    /\ Hour <= LockMaxAge /\ LockMaxAge < Aged
ASSUME NamesAssumption == File # {} /\ None \notin Run \cup File /\ Run \cap {"restore", "gone"} = {}

JobName == {"refresh", "backup"}
Age == 0..Aged
Older(a) == IF a < Aged THEN a + 1 ELSE a

VARIABLES
    live,           \* the file at the database's path
    db,             \* the meta table of every file
    job,            \* the processes that run a job
    srv,            \* the server and its scheduler
    rst,            \* the restore
    events          \* of those there have been

vars == <<live, db, job, srv, rst, events>>

\* Whoever wrote a lease: a job, a restore, or a process that is no more.
Holder == Run \cup {"restore", "gone"}
Lease == [by : Holder, age : Age]
ASSUME LeaseAssumption == None \notin Lease
\* A record that is missing or tells of success asks for nothing ("fine").  Its age matters once the
\* job has failed, up to the hour it is tried again.
JobRun == [age : 0..Hour, result : {"fine", "running", "error"}]
Meta == [lock : Lease \cup {None}, rec : [JobName -> JobRun]]
ASSUME BackupAssumption == Backup \subseteq Meta

Result(result, age) ==
    [result |-> result, age |-> IF result # "error" THEN 0 ELSE IF age < Hour THEN age ELSE Hour]

Process(pc, name, ok) == [pc |-> pc, name |-> name, file |-> None, age |-> 0, ok |-> ok]
Fresh == Process("none", None, FALSE)
Down == [pc |-> "down", pending |-> <<>>, active |-> None, child |-> None, age |-> 0]
NoRestore == [pc |-> "none", file |-> None, age |-> 0]

\* From taking the lease to giving it back.
AtWork == {"leased", "working", "recorded"}
\* A process that has ended is "ended" until the server hears of it, and "heard" when the server
\* has heard but could not forget it.
JobPc == {"none", "starting", "open", "ended", "heard"} \cup AtWork

TypeOK ==
    /\ live \in File /\ db \in [File -> Meta]
    /\ job \in [Run -> [pc : JobPc, name : JobName \cup {None}, file : File \cup {None},
                        age : Age, ok : BOOLEAN]]
    /\ srv \in [pc : {"down", "up", "closing"}, pending : Seq(JobName),
                active : JobName \cup {None}, child : Run \cup {None}, age : Age]
    /\ rst \in [pc : {"none", "copied", "leased"}, file : File \cup {None}, age : Age]
    /\ events \in 0..MaxEvents

\* A database that has never been refreshed nor backed up.
Blank == [lock |-> None, rec |-> [n \in JobName |-> Result("fine", 0)]]

Init ==
    /\ live = CHOOSE f \in File : TRUE
    /\ db = [f \in File |-> Blank]
    /\ job = [r \in Run |-> Fresh]
    /\ srv = Down /\ rst = NoRestore
    /\ events = 0

----------------------------------------------------------------------------
\* The lease (acquireJobLock), one transaction.
\* Mutant: a lease never lapses.
HeldForGood(lock) == lock # None

Held(lock) == lock # None /\ lock.age <= LockMaxAge
TakeLease(f, who) == db' = [db EXCEPT ![f].lock = [by |-> who, age |-> 0]]
\* Mutant: whose lease it is is not looked at.
UnlockedAnyway(meta, who) == [meta EXCEPT !.lock = None]

\* Giving it back removes the lease only when it is still the holder's own.
Unlocked(meta, who) ==
    IF meta.lock # None /\ meta.lock.by = who THEN [meta EXCEPT !.lock = None] ELSE meta

\* A lease outlives the process that took it.
Forget(meta, who) ==
    IF meta.lock # None /\ meta.lock.by = who THEN [meta EXCEPT !.lock.by = "gone"] ELSE meta
\* A file that is neither in place nor open anywhere is gone with all it holds.
Kept(dbs, in, jobs, temp) ==
    [f \in File |-> IF f \in {in, temp} \/ \E r \in Run : jobs[r].file = f THEN dbs[f] ELSE Blank]

\* A process there is room for; None when there is not.
Idle(jobs) ==
    IF \E r \in Run : jobs[r] = Fresh THEN CHOOSE r \in Run : jobs[r] = Fresh ELSE None
Step(r, to) == job' = [job EXCEPT ![r].pc = to]
\* The server is told how its child ended; nobody waits for a command.
End(r, ok) ==
    job' = [job EXCEPT ![r] = IF srv.child = r THEN Process("ended", None, ok) ELSE Fresh]
Quiet == UNCHANGED <<live, srv, rst, events>>
Event == events < MaxEvents /\ events' = events + 1

----------------------------------------------------------------------------
\* A process that runs a job (runJob).
\* The command opens the database that is in place now.
Open(r) ==
    /\ job[r].pc = "starting"
    /\ job' = [job EXCEPT ![r].pc = "open", ![r].file = live]
    /\ UNCHANGED db /\ Quiet

Acquire(r) ==
    /\ job[r].pc = "open"
    /\ IF Held(db[job[r].file].lock) THEN End(r, FALSE) /\ db' = Kept(db, live, job', rst.file)
       ELSE TakeLease(job[r].file, r) /\ job' = [job EXCEPT ![r].pc = "leased", ![r].age = 0]
    /\ Quiet

Note(r, result) ==
    db' = [db EXCEPT ![job[r].file].rec[job[r].name] = Result(result, job[r].age)]

Begin(r) ==
    /\ job[r].pc = "leased"
    /\ Note(r, "running") /\ Step(r, "working")
    /\ Quiet

\* The work succeeds or throws, and the outcome is recorded; when that write fails the lease
\* is given back all the same.
Record(r) ==
    /\ job[r].pc = "working"
    /\ \E ok, written \in BOOLEAN :
         /\ IF written THEN Note(r, IF ok THEN "fine" ELSE "error") ELSE UNCHANGED db
         /\ job' = [job EXCEPT ![r].pc = "recorded", ![r].ok = ok /\ written]
    /\ Quiet

Release(r) ==
    /\ job[r].pc = "recorded"
    /\ End(r, job[r].ok)
    /\ db' = Kept([db EXCEPT ![job[r].file] = Unlocked(@, r)], live, job', rst.file)
    /\ Quiet

\* Killed, or failed to start: its lease stays.
Kill(r) ==
    /\ job[r].pc \in {"starting", "open"} \cup AtWork
    /\ End(r, FALSE)
    /\ db' = Kept([f \in File |-> Forget(db[f], r)], live, job', rst.file)
    /\ UNCHANGED <<live, srv, rst>>
    /\ Event

\* Somebody runs `refresh` or `backup` by hand.
Command(r, name) ==
    /\ r = Idle(job) /\ Event
    /\ job' = [job EXCEPT ![r] = Process("starting", name, FALSE)]
    /\ UNCHANGED <<live, db, srv, rst>>

JobStep(r) ==
    Open(r) \/ Acquire(r) \/ Begin(r) \/ Record(r) \/ Release(r)

----------------------------------------------------------------------------
\* The scheduler (createJobs).  next(): a job that failed waits an hour and then has to run;
\* any other may be due now, for the cards may be stale and a night may have come.
Due(meta) ==
    LET Bad(n) == meta.rec[n].result = "error"
        Waits(n) == Bad(n) /\ meta.rec[n].age < Hour
        Must == {n \in JobName : Bad(n) /\ ~Waits(n)}
    IN {due \in SUBSET {n \in JobName : ~Waits(n)} : Must \subseteq due}

\* Names join the queue once, in order, and not while they run.
Queued(s, more) ==
    LET Join(q, n) == IF n \in more /\ n # s.active /\ ~Contains(q, n) THEN Append(q, n) ELSE q
    IN Join(Join(s.pending, "refresh"), "backup")

\* pump(): spawn the first in the queue, unless a job runs or somebody holds the lease.
Pump(s, jobs, meta) ==
    LET r == Idle(jobs)
    IN IF s.pc # "up" \/ s.active # None \/ s.pending = <<>> \/ Held(meta[live].lock) \/ r = None
       THEN srv' = s /\ job' = jobs
       ELSE /\ srv' = [s EXCEPT !.pending = Tail(@), !.active = Head(s.pending),
                                !.child = r, !.age = 0]
            /\ job' = [jobs EXCEPT ![r] = Process("starting", Head(s.pending), FALSE)]

\* The server takes the process lock, opens the database and queues what is stale.
Boot ==
    /\ srv = Down /\ rst.pc = "none"
    /\ \E due \in Due(db[live]), stale \in SUBSET {"refresh"} :
         LET s == [Down EXCEPT !.pc = "up"]
         IN Pump([s EXCEPT !.pending = Queued(s, due \cup stale)], job, db)
    /\ UNCHANGED <<live, db, rst, events>>

Tick ==
    /\ srv.pc = "up"
    /\ \E due \in Due(db[live]) : Pump([srv EXCEPT !.pending = Queued(srv, due)], job, db)
    /\ UNCHANGED <<live, db, rst, events>>

\* Settings asks for a refresh.
Enqueue ==
    /\ srv.pc = "up"
    /\ Pump([srv EXCEPT !.pending = Queued(srv, {"refresh"})], job, db)
    /\ UNCHANGED <<live, db, rst, events>>

\* finish(): a failed child is recorded, unless its own record of the failure is there.
Failed(meta) ==
    LET last == meta.rec[srv.active]
    IN IF last.result # "error" \/ last.age > srv.age
       THEN [meta EXCEPT !.rec[srv.active] = Result("error", srv.age)]
       ELSE meta

\* The child is gone: finish() notes a failure, forgets the child and pumps.  The note may fail to
\* be written, for another process may keep the database busy.  Then finish() throws before it
\* forgets the child, its caller only logs that, and the scheduler believes for good that the job
\* runs; a server that is shutting down just stops waiting.
Closed ==
    /\ srv.child # None /\ job[srv.child].pc = "ended"
    /\ LET r == srv.child
           noted == IF job[r].ok THEN db ELSE [db EXCEPT ![live] = Failed(@)]
           Forgotten(dbs) == Pump([srv EXCEPT !.active = None, !.child = None, !.age = 0],
                                  [job EXCEPT ![r] = Fresh], dbs)
       IN \/ db' = noted /\ Forgotten(noted)
          \/ /\ noted # db /\ UNCHANGED db
             /\ IF srv.pc = "up" THEN Step(r, "heard") /\ UNCHANGED srv ELSE Forgotten(db)
    /\ UNCHANGED <<live, rst, events>>

Shutdown ==
    /\ srv.pc = "up"
    /\ srv' = [srv EXCEPT !.pc = "closing", !.pending = <<>>]
    /\ UNCHANGED <<live, db, job, rst>>
    /\ Event

\* close() waits for its child to end, in vain when it has ended before.
Exit ==
    /\ srv.pc = "closing" /\ srv.child = None
    /\ srv' = Down
    /\ UNCHANGED <<live, db, job, rst, events>>

\* Killed: a child goes on by itself.
Crash ==
    /\ srv.pc # "down"
    /\ srv' = Down
    /\ job' = [r \in Run |-> IF job[r].pc \in {"ended", "heard"} THEN Fresh ELSE job[r]]
    /\ UNCHANGED <<live, db, rst>>
    /\ Event

ServerStep == Boot \/ Tick \/ Closed \/ Exit

----------------------------------------------------------------------------
\* restoreDatabase.  It holds the process lock throughout: no server runs meanwhile.
Running(rec) == rec.result = "running"
\* The copy loses the lease the backup was made under, and its running jobs have failed: longer
\* than an hour ago, for no backup is restored sooner here.
AtRest(meta) ==
    [meta EXCEPT !.lock = None,
                 !.rec = [n \in JobName |-> IF Running(meta.rec[n])
                                            THEN Result("error", Hour)
                                            ELSE meta.rec[n]]]

Spare == LET free == {f \in File \ {live} : \A r \in Run : job[r].file # f}
         IN IF free = {} THEN {} ELSE {CHOOSE f \in free : TRUE}

StartRestore ==
    /\ srv = Down /\ rst.pc = "none"
    /\ \E f \in Spare, saved \in Backup :
         /\ db' = [db EXCEPT ![f] = AtRest(saved)]
         /\ rst' = [pc |-> "copied", file |-> f, age |-> 0]
    /\ UNCHANGED <<live, job, srv>>
    /\ Event

\* Mutant: nobody asks whether a job is at work.
LeaseForRestoreUnasked ==
    /\ rst.pc = "copied"
    /\ TakeLease(live, "restore") /\ rst' = [rst EXCEPT !.pc = "leased", !.age = 0]
    /\ UNCHANGED <<live, job, srv, events>>

\* It leases the file it will replace, or gives up.
LeaseForRestore ==
    /\ rst.pc = "copied"
    /\ IF Held(db[live].lock) THEN rst' = NoRestore /\ db' = Kept(db, live, job, None)
       ELSE TakeLease(live, "restore") /\ rst' = [rst EXCEPT !.pc = "leased", !.age = 0]
    /\ UNCHANGED <<live, job, srv, events>>

\* The lease stays in the replaced file, for whoever still has it open.  The rename and the removal
\* of the emptied -wal and -shm that follows it are one step: whoever opens the file between the
\* two calls opens the restored file, and what SQLite makes of a log that is unlinked under it is
\* not modelled.
Swap ==
    /\ rst.pc = "leased"
    /\ live' = rst.file /\ rst' = NoRestore
    /\ db' = Kept([db EXCEPT ![live] = Forget(@, "restore")], rst.file, job, None)
    /\ UNCHANGED <<job, srv, events>>

\* The checkpoint finds the database busy, or the rename fails.
GiveUp ==
    /\ rst.pc = "leased"
    /\ db' = Kept([db EXCEPT ![live] = Unlocked(@, "restore")], live, job, None)
    /\ rst' = NoRestore
    /\ UNCHANGED <<live, job, srv, events>>

KillRestore ==
    /\ rst.pc # "none"
    /\ db' = Kept([db EXCEPT ![live] = Forget(@, "restore")], live, job, None)
    /\ rst' = NoRestore
    /\ UNCHANGED <<live, job, srv>>
    /\ Event

RestoreStep == LeaseForRestore \/ Swap

----------------------------------------------------------------------------
\* An hour passes.
OlderMeta(meta) ==
    [lock |-> IF meta.lock = None THEN None ELSE [meta.lock EXCEPT !.age = Older(@)],
     rec |-> [n \in JobName |-> Result(meta.rec[n].result, meta.rec[n].age + 1)]]

Later ==
    /\ db' = [f \in File |-> OlderMeta(db[f])]
    /\ job' = [r \in Run |-> IF job[r].pc \in AtWork THEN [job[r] EXCEPT !.age = Older(@)] ELSE job[r]]
    /\ srv' = IF srv.child = None THEN srv ELSE [srv EXCEPT !.age = IF @ < Hour THEN @ + 1 ELSE @]
    /\ rst' = IF rst.pc = "leased" THEN [rst EXCEPT !.age = Older(@)] ELSE rst
    /\ UNCHANGED <<live, events>>

Next ==
    \/ \E r \in Run : JobStep(r) \/ Kill(r) \/ \E name \in JobName : Command(r, name)
    \/ ServerStep \/ Enqueue \/ Shutdown \/ Crash
    \/ StartRestore \/ RestoreStep \/ GiveUp \/ KillRestore
    \/ Later

Spec == Init /\ [][Next]_vars

(***************************************************************************)
(* Fairness.  Something goes on: a process that runs a job takes its next   *)
(* step and its work ends (its downloads time out), the server hears that   *)
(* its child ended, its interval fires, or an hour passes.  That is less    *)
(* than fairness to each, and enough.  Nobody has to boot a server, run a   *)
(* command or restore a backup.                                            *)
(***************************************************************************)
Progress == Tick \/ Closed \/ Later \/ \E r \in Run : JobStep(r)
FairSpec == Spec /\ WF_vars(Progress)

----------------------------------------------------------------------------
\* The lease excludes (acquireJobLock, and the token its release asks for): of the jobs that work
\* in one file at most one is still within its lease, whatever lapsed, was killed, came back late
\* to give up a lease that is no longer its own, or was replaced by a restore.
LeaseExcludes ==
    \A r1, r2 \in Run :
      /\ job[r1].pc \in AtWork /\ job[r1].age <= LockMaxAge
      /\ job[r2].pc \in AtWork /\ job[r2].age <= LockMaxAge
      /\ job[r1].file = job[r2].file
      => r1 = r2

\* The swap is clean (restoreDatabase, "Refuse a concurrent CLI writer, too"): a restore puts a
\* database in place that holds no lease and no running job, and, as long as it keeps to its own
\* lease, it strands no job that keeps to its lease in the file it replaces.
SwapIsClean ==
    [][live' # live =>
         /\ db'[live'].lock = None
         /\ \A n \in JobName : ~Running(db'[live'].rec[n])
         /\ rst.age <= LockMaxAge =>
              \A r \in Run : job[r].pc \in AtWork /\ job[r].file = live
                              => job[r].age > LockMaxAge]_vars

\* The note of a child's failure was lost: the server goes on waiting for a child that is gone.
Stalled == srv.child # None /\ job[srv.child].pc = "heard"

\* What waits in the queue is started (pump, called by enqueue, by the interval and by finish):
\* no lease that a killed process left, no command run by hand and no failed child holds it up for
\* good.  Two things do: the server stops, or it could not write that its child had failed, and
\* then nothing is started any more until it is killed (finish, which throws before it forgets
\* the child).
QueuedJobStarts ==
    \A n \in JobName :
      srv.pc = "up" /\ Contains(srv.pending, n) ~> srv.pc # "up" \/ srv.active = n \/ Stalled
=============================================================================
