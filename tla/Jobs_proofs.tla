------------------------------ MODULE Jobs_proofs ------------------------------
(***************************************************************************)
(* The lease of Jobs excludes and the swap of a restore is clean for every *)
(* number of processes and files and every length of lease: IInv holds     *)
(* initially and every action preserves it.                                *)
(***************************************************************************)
EXTENDS JobsInvariant, TLAPS, SequenceTheorems

-----------------------------------------------------------------------------
(* The helpers *)

LEMMA ResultIsRecord ==
    ASSUME NEW result \in {"fine", "running", "error"}, NEW age \in Nat
    PROVE  Result(result, age) \in JobRun /\ Result(result, age).result = result
BY AgesAssumption DEF Result, JobRun

LEMMA BlankIsMeta == Blank \in Meta /\ Blank.lock = None
<1>1. Result("fine", 0) \in JobRun
  BY ResultIsRecord
<1>2. QED  BY <1>1 DEF Blank, Meta

\* A lease goes or changes hands: nothing else of the table does.
LEMMA LockFacts ==
    ASSUME NEW meta \in Meta, NEW who
    PROVE  /\ Unlocked(meta, who) \in Meta /\ Unlocked(meta, who).rec = meta.rec
           /\ Forget(meta, who) \in Meta /\ Forget(meta, who).rec = meta.rec
           /\ meta.lock = None => Unlocked(meta, who) = meta /\ Forget(meta, who) = meta
           /\ meta.lock # None /\ meta.lock.by # who => Unlocked(meta, who) = meta /\ Forget(meta, who) = meta
<1>1. [meta EXCEPT !.lock = None] \in Meta
  BY DEF Meta
<1>2. ASSUME meta.lock # None PROVE [meta EXCEPT !.lock.by = "gone"] \in Meta
  BY <1>2 DEF Meta, Lease, Holder
<1>3. QED  BY <1>1, <1>2 DEF Unlocked, Forget, Meta

LEMMA KeptFacts ==
    ASSUME NEW dbs \in [File -> Meta], NEW in, NEW jobs, NEW temp
    PROVE  /\ Kept(dbs, in, jobs, temp) \in [File -> Meta]
           /\ \A f \in File : f = in \/ f = temp \/ (\E r \in Run : jobs[r].file = f)
                => Kept(dbs, in, jobs, temp)[f] = dbs[f]
BY BlankIsMeta DEF Kept

LEMMA IdleFacts ==
    ASSUME NEW jobs
    PROVE  Idle(jobs) # None => Idle(jobs) \in Run /\ jobs[Idle(jobs)] = Fresh
BY DEF Idle

JobType == [pc : JobPc, name : JobName \cup {None}, file : File \cup {None}, age : Age, ok : BOOLEAN]
SrvType == [pc : {"down", "up", "closing"}, pending : Seq(JobName),
            active : JobName \cup {None}, child : Run \cup {None}, age : Age]

\* A process that has no file open.
LEMMA ProcessFacts ==
    ASSUME NEW pc \in JobPc, NEW name \in JobName \cup {None}, NEW ok \in BOOLEAN
    PROVE  Process(pc, name, ok) \in JobType /\ Process(pc, name, ok).pc = pc /\ Process(pc, name, ok).file = None
<1>1. 0 \in Age
  BY AgesAssumption DEF Age
<1>2. QED  BY <1>1 DEF Process, JobType

LEMMA FreshFacts == Fresh \in JobType /\ Fresh.pc = "none" /\ Fresh.file = None
<1>1. "none" \in JobPc
  BY DEF JobPc
<1>2. QED  BY <1>1, ProcessFacts DEF Fresh

\* What the end of process r leaves of the processes.
LEMMA EndFacts ==
    ASSUME job \in [Run -> JobType], NEW r \in Run, NEW ok \in BOOLEAN, End(r, ok)
    PROVE  /\ job' \in [Run -> JobType] /\ job'[r].pc \in {"none", "ended"} /\ job'[r].file = None
           /\ \A q \in Run \ {r} : job'[q] = job[q]
<1>1. "ended" \in JobPc
  BY DEF JobPc
<1>2. job' = [job EXCEPT ![r] = Process("ended", None, ok)] \/ job' = [job EXCEPT ![r] = Fresh]
  BY DEF End
<1>3. QED  BY <1>1, <1>2, FreshFacts, ProcessFacts

\* The queue grows by names.
LEMMA QueuedFacts ==
    ASSUME NEW s \in SrvType, NEW more PROVE Queued(s, more) \in Seq(JobName)
<1>1. s.pending \in Seq(JobName)
  BY DEF SrvType
<1>2. \A q \in Seq(JobName), n \in JobName : Append(q, n) \in Seq(JobName)
  OBVIOUS
<1>3. "refresh" \in JobName /\ "backup" \in JobName
  BY DEF JobName
<1>4. QED  BY <1>1, <1>2, <1>3 DEF Queued

\* pump() spawns one process at most, and touches no other.
LEMMA PumpFacts ==
    ASSUME NEW s \in SrvType, NEW jobs \in [Run -> JobType], NEW meta, Pump(s, jobs, meta)
    PROVE  /\ srv' \in SrvType /\ job' \in [Run -> JobType]
           /\ \A r \in Run : \/ job'[r] = jobs[r]
                             \/ job'[r].pc = "starting" /\ job'[r].file = None
<1> DEFINE r == Idle(jobs)
<1>1. CASE srv' = s /\ job' = jobs
  BY <1>1
<1>2. CASE /\ s.pending # <<>> /\ r # None
           /\ srv' = [s EXCEPT !.pending = Tail(@), !.active = Head(s.pending), !.child = r, !.age = 0]
           /\ job' = [jobs EXCEPT ![r] = Process("starting", Head(s.pending), FALSE)]
  <2>1. r \in Run /\ jobs[r] = Fresh
    BY <1>2, IdleFacts
  <2>2. Head(s.pending) \in JobName /\ Tail(s.pending) \in Seq(JobName)
    BY <1>2 DEF SrvType
  <2>3. job'[r] = Process("starting", Head(s.pending), FALSE)
    BY <1>2, <2>1
  <2>4. \A q \in Run \ {r} : job'[q] = jobs[q]
    BY <1>2, <2>1
  <2>5. srv' \in SrvType
    <3>1. srv' = [pc |-> s.pc, pending |-> Tail(s.pending), active |-> Head(s.pending), child |-> r, age |-> 0]
      BY <1>2 DEF SrvType
    <3>2. s.pc \in {"down", "up", "closing"} /\ 0 \in Age
      BY AgesAssumption DEF SrvType, Age
    <3> HIDE DEF r
    <3>3. QED  BY <3>1, <3>2, <2>1, <2>2 DEF SrvType
  <2>6. job'[r] \in JobType /\ job'[r].pc = "starting" /\ job'[r].file = None
    <3>1. "starting" \in JobPc
      BY DEF JobPc
    <3> DEFINE n == Head(s.pending)
    <3>2. \A ok \in BOOLEAN : /\ Process("starting", n, ok) \in JobType
                             /\ Process("starting", n, ok).pc = "starting"
                             /\ Process("starting", n, ok).file = None
      BY <3>1, <2>2, ProcessFacts
    <3>3. QED  BY <3>2, <2>3, Zenon
  <2>7. QED  BY <1>2, <2>4, <2>5, <2>6
<1>3. QED  BY <1>1, <1>2 DEF Pump

-----------------------------------------------------------------------------
(* What a step may do to leases it does not deal with *)

\* The type invariant, in the names of this module.
LEMMA Typed ==
    TypeOK <=> /\ live \in File /\ db \in [File -> Meta] /\ job \in [Run -> JobType] /\ srv \in SrvType
               /\ rst \in [pc : {"none", "copied", "leased"}, file : File \cup {None}, age : Age]
               /\ events \in 0..MaxEvents
BY DEF TypeOK, JobType, SrvType

LEMMA TypedNext ==
    TypeOK' <=> /\ live' \in File /\ db' \in [File -> Meta] /\ job' \in [Run -> JobType] /\ srv' \in SrvType
                /\ rst' \in [pc : {"none", "copied", "leased"}, file : File \cup {None}, age : Age]
                /\ events' \in 0..MaxEvents
BY DEF TypeOK, JobType, SrvType

\* A step that neither takes a lease nor swaps files: a process goes on as it was, is over, has
\* opened the file in place, or is still at work in its file; and the leases of those who keep to
\* theirs, and the restored copy, are as they were.
LEMMA Untouched ==
    ASSUME IInv, TypeOK', live' = live, rst' = rst,
           \A r \in Run : \/ job'[r] = job[r]
                          \/ job'[r].pc \notin {"open"} \cup AtWork /\ job'[r].file \in {None, job[r].file}
                          \/ job'[r].pc = "open" /\ job'[r].file = live
                          \/ /\ job'[r].pc \in AtWork /\ job[r].pc \in AtWork
                             /\ job'[r].age = job[r].age /\ job'[r].file = job[r].file,
           \A r \in Run : job'[r].pc \in AtWork /\ job[r].pc \in AtWork /\ job[r].age <= LockMaxAge
                            => db'[job[r].file].lock = db[job[r].file].lock,
           rst.pc = "leased" /\ rst.age <= LockMaxAge => db'[live].lock = db[live].lock,
           rst.pc # "none" => db'[rst.file].lock = db[rst.file].lock /\ db'[rst.file].rec = db[rst.file].rec
    PROVE  IInv'
<1> USE DEF IInv
<1>1. live \in File
  BY DEF TypeOK
<1>2. "open" \notin AtWork
  BY DEF AtWork
<1>3. JobsAreInFiles'
  BY <1>1, <1>2 DEF JobsAreInFiles
<1>4. LeaseIsOwn'
  <2> SUFFICES ASSUME NEW r \in Run, job'[r].pc \in AtWork, job'[r].age <= LockMaxAge
               PROVE  db'[job'[r].file].lock = [by |-> r, age |-> job'[r].age]
    BY DEF LeaseIsOwn
  <2>1. job[r].pc \in AtWork /\ job'[r].age = job[r].age /\ job'[r].file = job[r].file
    BY <1>2
  <2>2. db[job[r].file].lock = [by |-> r, age |-> job[r].age]
    BY <2>1 DEF LeaseIsOwn
  <2>3. db'[job[r].file].lock = db[job[r].file].lock
    BY <2>1
  <2>4. QED  BY <2>1, <2>2, <2>3
<1>5. RestoreLeaseIsOwn'
  BY DEF RestoreLeaseIsOwn
<1>6. CopyIsClean'
  <2> SUFFICES ASSUME rst.pc # "none" PROVE CopyIsClean'
    BY DEF CopyIsClean
  <2>1. rst.file \in File \ {live} /\ None \notin File
    BY NamesAssumption DEF CopyIsClean
  <2>2. \A r \in Run : job'[r].file # rst.file
    BY <2>1 DEF CopyIsClean
  <2>3. db'[rst.file].lock = None /\ \A n \in JobName : ~Running(db'[rst.file].rec[n])
    BY DEF CopyIsClean
  <2>4. QED  BY <2>1, <2>2, <2>3 DEF CopyIsClean
<1>7. QED  BY <1>3, <1>4, <1>5, <1>6

\* Who holds the lease of a file is nobody else.
LEMMA Holders ==
    ASSUME IInv, NEW r \in Run
    PROVE  /\ \A q \in Run : job[q].pc \in AtWork /\ job[q].age <= LockMaxAge =>
                /\ job[q].file \in File /\ db[job[q].file].lock # None /\ db[job[q].file].lock.by = q
                /\ db[job[q].file].lock.by # "restore" /\ db[job[q].file].lock.age = job[q].age
           /\ rst.pc = "leased" /\ rst.age <= LockMaxAge =>
                db[live].lock # None /\ db[live].lock.by = "restore" /\ db[live].lock.by # r
                /\ db[live].lock.age = rst.age
<1> USE DEF IInv
<1>1. \A by, age : [by |-> by, age |-> age].by = by /\ [by |-> by, age |-> age].age = age
  OBVIOUS
<1>2. \A f \in File : db[f].lock \in Lease \cup {None}
  BY DEF TypeOK, Meta
<1>3. \A q \in Run : job[q].pc \in AtWork /\ job[q].age <= LockMaxAge =>
        job[q].file \in File /\ db[job[q].file].lock = [by |-> q, age |-> job[q].age]
  BY DEF LeaseIsOwn, JobsAreInFiles
<1>4. \A q \in Run : q # "restore" /\ job[q].age \in Age
  BY NamesAssumption DEF TypeOK
<1>5. \A q \in Run, a \in Age : [by |-> q, age |-> a] # None /\ [by |-> "restore", age |-> a] # None
  BY LeaseAssumption DEF Lease, Holder
<1>6. rst.age \in Age
  BY DEF TypeOK
<1>7. ASSUME rst.pc = "leased", rst.age <= LockMaxAge
      PROVE  db[live].lock # None /\ db[live].lock.by = "restore" /\ db[live].lock.by # r
             /\ db[live].lock.age = rst.age
  BY <1>1, <1>4, <1>5, <1>6, <1>7 DEF RestoreLeaseIsOwn
<1>8. ASSUME NEW q \in Run, job[q].pc \in AtWork, job[q].age <= LockMaxAge
      PROVE  /\ job[q].file \in File /\ db[job[q].file].lock # None /\ db[job[q].file].lock.by = q
             /\ db[job[q].file].lock.by # "restore" /\ db[job[q].file].lock.age = job[q].age
  <2>1. job[q].file \in File /\ db[job[q].file].lock = [by |-> q, age |-> job[q].age]
    BY <1>3, <1>8
  <2>2. q # "restore" /\ job[q].age \in Age
    BY <1>4
  <2>3. db[job[q].file].lock # None
    BY <2>1, <2>2, <1>5
  <2>4. db[job[q].file].lock.by = q /\ db[job[q].file].lock.age = job[q].age
    BY <2>1
  <2>5. QED  BY <2>1, <2>2, <2>3, <2>4
<1>9. QED  BY <1>7, <1>8

-----------------------------------------------------------------------------
(* The steps of a process *)

LEMMA OpenStep == ASSUME IInv, NEW r \in Run, Open(r) PROVE IInv'
<1> DEFINE j == [job[r] EXCEPT !.pc = "open", !.file = live]
<1>1. IInv /\ TypeOK
  BY DEF IInv
<1>2. job[r] \in JobType /\ "open" \in JobPc /\ live \in File
  BY <1>1, Typed DEF JobPc
<1>3. j \in JobType /\ j.pc = "open" /\ j.file = live
  BY <1>2 DEF JobType
<1>4. job' = [job EXCEPT ![r] = j]
  BY <1>1, Typed DEF Open
<1> HIDE DEF j
<1>5. job' \in [Run -> JobType] /\ job'[r] = j /\ \A q \in Run \ {r} : job'[q] = job[q]
  BY <1>1, <1>3, <1>4, Typed
<1>6. live' = live /\ rst' = rst /\ db' = db /\ srv' = srv /\ events' = events
  BY DEF Open, Quiet
<1>7. TypeOK'
  BY <1>1, <1>5, <1>6, Typed, TypedNext
<1>8. QED  BY <1>1, <1>3, <1>5, <1>6, <1>7, Untouched DEF AtWork

\* A record of a job is written in a file that is not the restored copy; the lease is not touched.
LEMMA NoteFacts ==
    ASSUME IInv, NEW r \in Run, job[r].pc \in AtWork, NEW result \in {"fine", "running", "error"},
           Note(r, result)
    PROVE  /\ db' \in [File -> Meta] /\ \A f \in File : db'[f].lock = db[f].lock
           /\ rst.pc # "none" => db'[rst.file] = db[rst.file]
<1>1. job[r].file \in File /\ db[job[r].file] \in Meta /\ TypeOK
  BY DEF IInv, JobsAreInFiles, TypeOK
<1>2. job[r].age \in Nat
  BY <1>1, AgesAssumption DEF TypeOK, Age
<1>3. Result(result, job[r].age) \in JobRun
  BY <1>2, ResultIsRecord
<1> DEFINE m == [db[job[r].file] EXCEPT !.rec[job[r].name] = Result(result, job[r].age)]
<1>4. m \in Meta /\ m.lock = db[job[r].file].lock
  BY <1>1, <1>3 DEF Meta
<1>5. db' = [db EXCEPT ![job[r].file] = m]
  BY <1>1 DEF Note, TypeOK
<1> HIDE DEF m
<1>6. rst.pc # "none" => rst.file # job[r].file
  BY DEF IInv, CopyIsClean
<1>7. QED  BY <1>1, <1>4, <1>5, <1>6 DEF TypeOK, IInv, CopyIsClean

\* So does a step of a process that stays at work in its file.
LEMMA AtWorkStep ==
    ASSUME IInv, NEW r \in Run, job[r].pc \in AtWork, NEW j \in JobType, j.pc \in AtWork,
           j.file = job[r].file, j.age = job[r].age, job' = [job EXCEPT ![r] = j], Quiet,
           db' = db \/ \E result \in {"fine", "running", "error"} : Note(r, result)
    PROVE  IInv'
<1>1. IInv /\ TypeOK
  BY DEF IInv
<1>2. /\ db' \in [File -> Meta] /\ \A f \in File : db'[f].lock = db[f].lock
      /\ rst.pc # "none" => db'[rst.file] = db[rst.file]
  BY <1>1, NoteFacts DEF TypeOK
<1>3. job' \in [Run -> JobType] /\ job'[r] = j /\ \A q \in Run \ {r} : job'[q] = job[q]
  BY <1>1, Typed
<1>4. live' = live /\ rst' = rst /\ srv' = srv /\ events' = events
  BY DEF Quiet
<1>5. TypeOK'
  BY <1>1, <1>2, <1>3, <1>4, Typed, TypedNext
<1>6. \A q \in Run : job[q].pc \in AtWork => job[q].file \in File
  BY <1>1 DEF IInv, JobsAreInFiles
<1>7. live \in File
  BY <1>1 DEF TypeOK
<1>8. QED  BY <1>1, <1>2, <1>3, <1>4, <1>5, <1>6, <1>7, Untouched

LEMMA BeginStep == ASSUME IInv, NEW r \in Run, Begin(r) PROVE IInv'
<1> DEFINE j == [job[r] EXCEPT !.pc = "working"]
<1>1. job \in [Run -> JobType] /\ "working" \in JobPc /\ "working" \in AtWork /\ job[r].pc \in AtWork
  BY Typed DEF IInv, JobPc, AtWork, Begin
<1>2. j \in JobType /\ j.pc = "working" /\ j.file = job[r].file /\ j.age = job[r].age
  BY <1>1 DEF JobType
<1>3. job' = [job EXCEPT ![r] = j]
  BY <1>1 DEF Begin, Step
<1>4. Quiet /\ Note(r, "running")
  BY DEF Begin
<1> HIDE DEF j
<1>5. QED  BY <1>1, <1>2, <1>3, <1>4, AtWorkStep

LEMMA RecordStep == ASSUME IInv, NEW r \in Run, Record(r) PROVE IInv'
<1>1. job \in [Run -> JobType] /\ "recorded" \in JobPc /\ "recorded" \in AtWork /\ job[r].pc \in AtWork
  BY Typed DEF IInv, JobPc, AtWork, Record
<1>2. PICK ok \in BOOLEAN, written \in BOOLEAN :
         /\ IF written THEN Note(r, IF ok THEN "fine" ELSE "error") ELSE UNCHANGED db
         /\ job' = [job EXCEPT ![r].pc = "recorded", ![r].ok = ok /\ written]
  BY DEF Record
<1>3. PICK done \in BOOLEAN : done = (ok /\ written)
  OBVIOUS
<1> DEFINE j == [job[r] EXCEPT !.pc = "recorded", !.ok = done]
<1>4. j \in JobType /\ j.pc = "recorded" /\ j.file = job[r].file /\ j.age = job[r].age
  BY <1>1 DEF JobType
<1>5. job' = [job EXCEPT ![r] = j]
  BY <1>1, <1>2, <1>3
<1>6. db' = db \/ \E result \in {"fine", "running", "error"} : Note(r, result)
  BY <1>2
<1>7. Quiet
  BY DEF Record
<1> HIDE DEF j
<1>8. QED  BY <1>1, <1>4, <1>5, <1>6, <1>7, AtWorkStep

\* A process ends; of the leases, only its own go or change hands.
LEMMA EndStep ==
    ASSUME IInv, NEW r \in Run, NEW ok \in BOOLEAN, End(r, ok), NEW dbs \in [File -> Meta],
           db' = Kept(dbs, live, job', rst.file),
           \A f \in File : dbs[f].rec = db[f].rec,
           \A f \in File : dbs[f].lock = db[f].lock \/ (db[f].lock # None /\ db[f].lock.by = r),
           live' = live, rst' = rst, srv' = srv, events' \in 0..MaxEvents
    PROVE  IInv'
<1>1. IInv /\ TypeOK
  BY DEF IInv
<1>2. /\ job' \in [Run -> JobType] /\ job'[r].pc \in {"none", "ended"} /\ job'[r].file = None
      /\ \A q \in Run \ {r} : job'[q] = job[q]
  BY <1>1, Typed, EndFacts
<1>3. /\ db' \in [File -> Meta]
      /\ \A f \in File : f = live \/ f = rst.file \/ (\E q \in Run : job'[q].file = f) => db'[f] = dbs[f]
  BY KeptFacts
<1>4. TypeOK'
  BY <1>1, <1>2, <1>3, Typed, TypedNext
<1>5. ASSUME NEW q \in Run, job'[q].pc \in AtWork, job[q].pc \in AtWork, job[q].age <= LockMaxAge
      PROVE  db'[job[q].file].lock = db[job[q].file].lock
  <2>1. q # r
    BY <1>2, <1>5 DEF AtWork
  <2>2. job[q].file \in File /\ db[job[q].file].lock.by = q
    BY <1>1, <1>5, Holders
  <2>3. db'[job[q].file] = dbs[job[q].file]
    BY <1>2, <1>3, <2>1, <2>2
  <2>4. QED  BY <2>1, <2>2, <2>3
<1>6. ASSUME rst.pc = "leased", rst.age <= LockMaxAge PROVE db'[live].lock = db[live].lock
  <2>1. db[live].lock.by # r
    BY <1>1, <1>6, Holders
  <2>2. live \in File
    BY <1>1 DEF TypeOK
  <2>3. QED  BY <1>3, <2>1, <2>2
<1>7. ASSUME rst.pc # "none"
      PROVE  db'[rst.file].lock = db[rst.file].lock /\ db'[rst.file].rec = db[rst.file].rec
  <2>1. rst.file \in File /\ db[rst.file].lock = None
    BY <1>1, <1>7 DEF IInv, CopyIsClean
  <2>2. QED  BY <1>3, <2>1
<1>8. QED  BY <1>1, <1>2, <1>4, <1>5, <1>6, <1>7, Untouched DEF AtWork

LEMMA ReleaseStep == ASSUME IInv, NEW r \in Run, Release(r) PROVE IInv'
<1> DEFINE f == job[r].file
           dbs == [db EXCEPT ![f] = Unlocked(@, r)]
<1>1. TypeOK /\ f \in File /\ db \in [File -> Meta] /\ job[r].ok \in BOOLEAN
  BY DEF IInv, TypeOK, JobsAreInFiles, Release, AtWork
<1>2. Unlocked(db[f], r) \in Meta /\ Unlocked(db[f], r).rec = db[f].rec
      /\ (Unlocked(db[f], r) = db[f] \/ (db[f].lock # None /\ db[f].lock.by = r))
  BY <1>1, LockFacts DEF Unlocked
<1>3. dbs \in [File -> Meta] /\ dbs[f] = Unlocked(db[f], r) /\ \A g \in File \ {f} : dbs[g] = db[g]
  BY <1>1, <1>2
<1>4. End(r, job[r].ok) /\ db' = Kept(dbs, live, job', rst.file)
  BY DEF Release
<1>5. live' = live /\ rst' = rst /\ srv' = srv /\ events' \in 0..MaxEvents
  BY <1>1 DEF Release, Quiet, TypeOK
<1> HIDE DEF dbs
<1>6. \A g \in File : dbs[g].rec = db[g].rec
  BY <1>1, <1>2, <1>3
<1>7. \A g \in File : dbs[g].lock = db[g].lock \/ (db[g].lock # None /\ db[g].lock.by = r)
  BY <1>1, <1>2, <1>3
<1> HIDE DEF f
<1>8. QED  BY <1>1, <1>3, <1>4, <1>5, <1>6, <1>7, EndStep

LEMMA KillStep == ASSUME IInv, NEW r \in Run, Kill(r) PROVE IInv'
<1> DEFINE dbs == [f \in File |-> Forget(db[f], r)]
<1>1. TypeOK /\ \A f \in File : db[f] \in Meta
  BY DEF IInv, TypeOK
<1>2. \A f \in File : /\ Forget(db[f], r) \in Meta /\ Forget(db[f], r).rec = db[f].rec
                      /\ (Forget(db[f], r) = db[f] \/ (db[f].lock # None /\ db[f].lock.by = r))
  BY <1>1, LockFacts DEF Forget
<1>3. dbs \in [File -> Meta] /\ \A f \in File : dbs[f] = Forget(db[f], r)
  BY <1>2
<1>4. End(r, FALSE) /\ db' = Kept(dbs, live, job', rst.file)
  BY DEF Kill
<1>5. live' = live /\ rst' = rst /\ srv' = srv /\ events' \in 0..MaxEvents
  BY <1>1, AgesAssumption DEF Kill, Event, TypeOK
<1> HIDE DEF dbs
<1>6. \A f \in File : dbs[f].rec = db[f].rec
  BY <1>2, <1>3
<1>7. \A f \in File : dbs[f].lock = db[f].lock \/ (db[f].lock # None /\ db[f].lock.by = r)
  BY <1>2, <1>3
<1>8. QED  BY <1>3, <1>4, <1>5, <1>6, <1>7, EndStep

\* A lease is taken in a file where none is held: nobody who keeps to a lease had it there.
LEMMA TakeFacts ==
    ASSUME IInv, NEW f \in File, ~Held(db[f].lock), NEW who \in Holder, TakeLease(f, who)
    PROVE  /\ db' \in [File -> Meta] /\ db'[f].lock = [by |-> who, age |-> 0] /\ db'[f].rec = db[f].rec
           /\ \A g \in File \ {f} : db'[g] = db[g]
           /\ \A q \in Run : job[q].pc \in AtWork /\ job[q].age <= LockMaxAge => job[q].file # f
           /\ rst.pc = "leased" /\ rst.age <= LockMaxAge => live # f
<1> DEFINE l == [by |-> who, age |-> 0]
           m == [db[f] EXCEPT !.lock = l]
<1>1. TypeOK /\ db \in [File -> Meta] /\ db[f] \in Meta
  BY DEF IInv, TypeOK
<1>2. l \in Lease
  BY AgesAssumption DEF Lease, Age
<1> HIDE DEF l
<1>3. m \in Meta /\ m.lock = l /\ m.rec = db[f].rec
  BY <1>1, <1>2 DEF Meta
<1>4. db' = [db EXCEPT ![f] = m]
  BY <1>1 DEF TakeLease, l
<1> HIDE DEF m
<1>5. \A q \in Run : job[q].pc \in AtWork /\ job[q].age <= LockMaxAge => job[q].file # f
  BY Holders DEF Held
<1>6. rst.pc = "leased" /\ rst.age <= LockMaxAge => live # f
  <2>1. CASE Run = {}
    <3> SUFFICES ASSUME rst.pc = "leased", rst.age <= LockMaxAge PROVE live # f
      OBVIOUS
    <3>1. db[live].lock = [by |-> "restore", age |-> rst.age] /\ rst.age \in Age
      BY DEF IInv, RestoreLeaseIsOwn, TypeOK
    <3>2. [by |-> "restore", age |-> rst.age] \in Lease
      BY <3>1 DEF Lease, Holder
    <3>3. db[live].lock # None /\ db[live].lock.age = rst.age
      BY <3>1, <3>2, LeaseAssumption
    <3>4. QED  BY <3>3 DEF Held
  <2>2. CASE Run # {}
    <3>1. PICK r \in Run : TRUE
      BY <2>2
    <3>2. QED  BY <3>1, Holders DEF Held
  <2>3. QED  BY <2>1, <2>2
<1>7. QED  BY <1>1, <1>3, <1>4, <1>5, <1>6 DEF l

LEMMA AcquireStep == ASSUME IInv, NEW r \in Run, Acquire(r) PROVE IInv'
<1> DEFINE f == job[r].file
<1>1. IInv /\ TypeOK /\ f \in File /\ db \in [File -> Meta] /\ job[r] \in JobType /\ job[r].pc = "open"
  BY Typed DEF IInv, TypeOK, JobsAreInFiles, Acquire
<1>2. live' = live /\ rst' = rst /\ srv' = srv /\ events' = events /\ events \in 0..MaxEvents
  BY <1>1 DEF Acquire, Quiet, TypeOK
<1>3. CASE Held(db[f].lock)
  <2>1. End(r, FALSE) /\ db' = Kept(db, live, job', rst.file)
    BY <1>3 DEF Acquire
  <2>2. QED  BY <1>1, <1>2, <2>1, EndStep
<1>4. CASE ~Held(db[f].lock)
  <2> DEFINE j == [job[r] EXCEPT !.pc = "leased", !.age = 0]
  <2>1. TakeLease(f, r) /\ job' = [job EXCEPT ![r] = j]
    BY <1>1, <1>4, Typed DEF Acquire
  <2>2. r \in Holder /\ "leased" \in JobPc /\ 0 \in Age
    BY AgesAssumption DEF Holder, JobPc, AtWork, Age
  <2>3. j \in JobType /\ j.pc = "leased" /\ j.age = 0 /\ j.file = f
    BY <1>1, <2>2 DEF JobType
  <2> HIDE DEF j
  <2>4. job' \in [Run -> JobType] /\ job'[r] = j /\ \A q \in Run \ {r} : job'[q] = job[q]
    BY <1>1, <2>1, <2>3, Typed
  <2> HIDE DEF f
  <2>5. /\ db' \in [File -> Meta] /\ db'[f].lock = [by |-> r, age |-> 0]
        /\ \A g \in File \ {f} : db'[g] = db[g]
        /\ \A q \in Run : job[q].pc \in AtWork /\ job[q].age <= LockMaxAge => job[q].file # f
        /\ rst.pc = "leased" /\ rst.age <= LockMaxAge => live # f
    BY <1>1, <1>4, <2>1, <2>2, TakeFacts
  <2>6. TypeOK'
    BY <1>1, <1>2, <2>4, <2>5, Typed, TypedNext
  <2>7. JobsAreInFiles'
    BY <1>1, <2>3, <2>4 DEF IInv, JobsAreInFiles
  <2>8. LeaseIsOwn'
    <3> SUFFICES ASSUME NEW q \in Run, job'[q].pc \in AtWork, job'[q].age <= LockMaxAge
                 PROVE  db'[job'[q].file].lock = [by |-> q, age |-> job'[q].age]
      BY DEF LeaseIsOwn
    <3>1. CASE q = r
      BY <3>1, <2>3, <2>4, <2>5
    <3>2. CASE q # r
      <4>1. job'[q] = job[q]
        BY <3>2, <2>4
      <4>2. job[q].file \in File \ {f} /\ db[job[q].file].lock = [by |-> q, age |-> job[q].age]
        BY <4>1, <2>5 DEF IInv, LeaseIsOwn, JobsAreInFiles
      <4>3. QED  BY <4>1, <4>2, <2>5
    <3>3. QED  BY <3>1, <3>2
  <2>9. RestoreLeaseIsOwn'
    BY <1>1, <1>2, <2>5 DEF IInv, RestoreLeaseIsOwn, TypeOK
  <2>10. CopyIsClean'
    <3> SUFFICES ASSUME rst.pc # "none" PROVE CopyIsClean'
      BY <1>2 DEF CopyIsClean
    <3>1. rst.file \in File \ {live} /\ \A q \in Run : job[q].file # rst.file
      BY DEF IInv, CopyIsClean
    <3>2. rst.file # f /\ \A q \in Run : job'[q].file # rst.file
      BY <3>1, <2>3, <2>4 DEF f
    <3>3. db'[rst.file] = db[rst.file]
      BY <3>1, <3>2, <2>5
    <3>4. QED  BY <1>2, <3>1, <3>2, <3>3 DEF IInv, CopyIsClean
  <2>11. QED  BY <2>6, <2>7, <2>8, <2>9, <2>10 DEF IInv
<1>5. QED  BY <1>3, <1>4

-----------------------------------------------------------------------------
(* The steps of the server and of a command that starts *)

\* Processes that start or end without a file, and no lease changes.
LEMMA Elsewhere ==
    ASSUME IInv, live' = live, rst' = rst, events' \in 0..MaxEvents, srv' \in SrvType,
           job' \in [Run -> JobType], db' \in [File -> Meta],
           \A f \in File : db'[f].lock = db[f].lock,
           rst.pc # "none" => db'[rst.file] = db[rst.file],
           \A r \in Run : \/ job'[r] = job[r]
                          \/ job'[r].pc \notin {"open"} \cup AtWork /\ job'[r].file \in {None, job[r].file}
    PROVE  IInv'
<1>1. IInv /\ TypeOK
  BY DEF IInv
<1>2. TypeOK'
  BY <1>1, Typed, TypedNext
<1>3. \A q \in Run : job[q].pc \in AtWork => job[q].file \in File
  BY DEF IInv, JobsAreInFiles
<1>4. live \in File
  BY <1>1 DEF TypeOK
<1>5. QED  BY <1>1, <1>2, <1>3, <1>4, Untouched

LEMMA CommandStep == ASSUME IInv, NEW r \in Run, NEW name \in JobName, Command(r, name) PROVE IInv'
<1>1. "starting" \in JobPc /\ "starting" \notin {"open"} \cup AtWork /\ TypeOK
  BY DEF JobPc, AtWork, IInv
<1> DEFINE j == Process("starting", name, FALSE)
<1>2. j \in JobType /\ j.pc = "starting" /\ j.file = None
  BY <1>1, ProcessFacts
<1>3. job' = [job EXCEPT ![r] = j] /\ live' = live /\ rst' = rst /\ srv' = srv /\ db' = db
  BY DEF Command
<1> HIDE DEF j
<1>4. events' \in 0..MaxEvents
  BY <1>1, AgesAssumption DEF Command, Event, TypeOK
<1>5. job' \in [Run -> JobType] /\ job'[r] = j /\ \A q \in Run \ {r} : job'[q] = job[q]
  BY <1>1, <1>2, <1>3, Typed
<1>6. QED  BY <1>1, <1>2, <1>3, <1>4, <1>5, Elsewhere, Typed

\* pump(), after whatever changed no lease.
LEMMA PumpStep ==
    ASSUME IInv, NEW s \in SrvType, NEW jobs \in [Run -> JobType], NEW meta, Pump(s, jobs, meta),
           \A r \in Run : \/ jobs[r] = job[r]
                          \/ jobs[r].pc \notin {"open"} \cup AtWork /\ jobs[r].file = None,
           live' = live, rst' = rst, events' = events, db' \in [File -> Meta],
           \A f \in File : db'[f].lock = db[f].lock,
           rst.pc # "none" => db'[rst.file] = db[rst.file]
    PROVE  IInv'
<1>1. /\ srv' \in SrvType /\ job' \in [Run -> JobType]
      /\ \A r \in Run : job'[r] = jobs[r] \/ (job'[r].pc = "starting" /\ job'[r].file = None)
  BY PumpFacts
<1>2. "starting" \notin {"open"} \cup AtWork
  BY DEF AtWork
<1>3. events' \in 0..MaxEvents
  BY DEF IInv, TypeOK
<1>4. QED  BY <1>1, <1>2, <1>3, Elsewhere

LEMMA DownFacts == Down \in SrvType
<1>1. 0 \in Age /\ <<>> \in Seq(JobName)
  BY AgesAssumption DEF Age
<1>2. QED  BY <1>1 DEF Down, SrvType

\* The queue is all that changes of the server.
LEMMA QueueStep ==
    ASSUME IInv, NEW s \in SrvType, NEW more, Pump([s EXCEPT !.pending = Queued(s, more)], job, db),
           UNCHANGED <<live, db, rst, events>>
    PROVE  IInv'
<1> DEFINE t == [s EXCEPT !.pending = Queued(s, more)]
<1>1. t \in SrvType
  BY QueuedFacts DEF SrvType
<1>2. job \in [Run -> JobType] /\ db \in [File -> Meta]
  BY Typed DEF IInv
<1> HIDE DEF t
<1>3. Pump(t, job, db)
  BY DEF t
<1>4. QED  BY <1>1, <1>2, <1>3, PumpStep

LEMMA BootStep == ASSUME IInv, Boot PROVE IInv'
<1> DEFINE s == [Down EXCEPT !.pc = "up"]
<1>1. s \in SrvType
  BY DownFacts DEF SrvType
<1>2. PICK due, stale : Pump([s EXCEPT !.pending = Queued(s, due \cup stale)], job, db)
  BY DEF Boot
<1>3. UNCHANGED <<live, db, rst, events>>
  BY DEF Boot
<1> HIDE DEF s
<1>4. QED  BY <1>1, <1>2, <1>3, QueueStep

LEMMA TickStep == ASSUME IInv, Tick PROVE IInv'
<1>1. srv \in SrvType
  BY Typed DEF IInv
<1>2. QED  BY <1>1, QueueStep DEF Tick

LEMMA EnqueueStep == ASSUME IInv, Enqueue PROVE IInv'
<1>1. srv \in SrvType
  BY Typed DEF IInv
<1>2. QED  BY <1>1, QueueStep DEF Enqueue

\* A failure is noted in the file in place, where the restored copy is not.
LEMMA FailedFacts ==
    ASSUME IInv
    PROVE  LET noted == [db EXCEPT ![live] = Failed(@)]
           IN /\ noted \in [File -> Meta] /\ \A f \in File : noted[f].lock = db[f].lock
              /\ rst.pc # "none" => noted[rst.file] = db[rst.file]
<1> DEFINE noted == [db EXCEPT ![live] = Failed(@)]
<1>1. live \in File /\ db \in [File -> Meta] /\ db[live] \in Meta /\ srv.age \in Nat
  BY AgesAssumption DEF IInv, TypeOK, Age
<1>2. Result("error", srv.age) \in JobRun
  BY <1>1, ResultIsRecord
<1>3. [db[live] EXCEPT !.rec[srv.active] = Result("error", srv.age)] \in Meta
      /\ [db[live] EXCEPT !.rec[srv.active] = Result("error", srv.age)].lock = db[live].lock
  BY <1>1, <1>2 DEF Meta
<1>4. Failed(db[live]) \in Meta /\ Failed(db[live]).lock = db[live].lock
  BY <1>1, <1>3 DEF Failed
<1>5. rst.pc # "none" => rst.file # live
  BY DEF IInv, CopyIsClean
<1>6. noted \in [File -> Meta] /\ \A f \in File : noted[f].lock = db[f].lock
  BY <1>1, <1>4
<1>7. rst.pc # "none" => noted[rst.file] = db[rst.file]
  BY <1>1, <1>5 DEF IInv, CopyIsClean
<1>8. QED  BY <1>6, <1>7

LEMMA ClosedStep == ASSUME IInv, Closed PROVE IInv'
<1> DEFINE r == srv.child
           failed == [db EXCEPT ![live] = Failed(@)]
           idle == [job EXCEPT ![r] = Fresh]
           s == [srv EXCEPT !.active = None, !.child = None, !.age = 0]
<1>1. /\ failed \in [File -> Meta] /\ \A f \in File : failed[f].lock = db[f].lock
      /\ rst.pc # "none" => failed[rst.file] = db[rst.file]
  BY FailedFacts
<1>2. srv \in SrvType /\ job \in [Run -> JobType] /\ db \in [File -> Meta] /\ events \in 0..MaxEvents
  BY Typed DEF IInv
<1>3. 0 \in Age
  BY AgesAssumption DEF Age
<1>4. s \in SrvType
  BY <1>2, <1>3 DEF SrvType
<1>5. r \in Run
  BY <1>2 DEF Closed, SrvType
<1>6. idle \in [Run -> JobType] /\ idle[r] = Fresh /\ \A q \in Run \ {r} : idle[q] = job[q]
  BY <1>2, <1>5, FreshFacts
<1>7. "none" \notin {"open"} \cup AtWork /\ "heard" \notin {"open"} \cup AtWork /\ "heard" \in JobPc
  BY DEF AtWork, JobPc
<1>8. \A q \in Run : \/ idle[q] = job[q]
                     \/ idle[q].pc \notin {"open"} \cup AtWork /\ idle[q].file = None
  BY <1>5, <1>6, <1>7, FreshFacts
<1>9. /\ db' \in {db, failed} /\ UNCHANGED <<live, rst, events>>
      /\ Pump(s, idle, db') \/ (Step(r, "heard") /\ UNCHANGED <<srv, db>>)
  BY DEF Closed
<1>10. /\ db' \in [File -> Meta] /\ \A f \in File : db'[f].lock = db[f].lock
       /\ rst.pc # "none" => db'[rst.file] = db[rst.file]
  BY <1>1, <1>2, <1>9
<1>11. CASE Pump(s, idle, db')
  <2> HIDE DEF s, idle, failed, r
  <2>1. QED  BY <1>4, <1>6, <1>8, <1>9, <1>10, <1>11, PumpStep
<1>12. CASE Step(r, "heard") /\ UNCHANGED <<srv, db>>
  <2> DEFINE heard == [job[r] EXCEPT !.pc = "heard"]
  <2>1. job' = [job EXCEPT ![r] = heard]
    BY <1>12 DEF Step
  <2>2. heard \in JobType /\ heard.pc = "heard" /\ heard.file = job[r].file
    BY <1>2, <1>5, <1>7 DEF JobType
  <2> HIDE DEF heard, r
  <2>3. job' \in [Run -> JobType] /\ job'[r] = heard /\ \A q \in Run \ {r} : job'[q] = job[q]
    BY <1>2, <1>5, <2>1, <2>2
  <2>4. \A q \in Run : \/ job'[q] = job[q]
                       \/ job'[q].pc \notin {"open"} \cup AtWork /\ job'[q].file \in {None, job[q].file}
    BY <1>7, <2>2, <2>3
  <2>5. live' = live /\ rst' = rst /\ srv' \in SrvType /\ events' \in 0..MaxEvents
    BY <1>2, <1>9, <1>12
  <2>6. QED  BY <1>10, <2>3, <2>4, <2>5, Elsewhere
<1>13. QED  BY <1>9, <1>11, <1>12

\* The server goes: its child keeps on, or nobody waits for it any more.
LEMMA DownStep == ASSUME IInv, Shutdown \/ Exit \/ Crash PROVE IInv'
<1>1. srv \in SrvType /\ job \in [Run -> JobType] /\ db \in [File -> Meta] /\ events \in 0..MaxEvents
  BY Typed DEF IInv
<1>2. UNCHANGED <<live, db, rst>>
  BY DEF Shutdown, Exit, Crash
<1>3. events' \in 0..MaxEvents
  BY <1>1, AgesAssumption DEF Shutdown, Exit, Crash, Event
<1>4. srv' \in SrvType
  <2>1. CASE srv' = Down
    BY <2>1, DownFacts
  <2>2. CASE Shutdown
    <3>1. <<>> \in Seq(JobName)
      OBVIOUS
    <3>2. QED  BY <1>1, <2>2, <3>1 DEF Shutdown, SrvType
  <2>3. QED  BY <2>1, <2>2 DEF Exit, Crash
<1>5. "none" \notin {"open"} \cup AtWork
  BY DEF AtWork
<1>6. /\ job' \in [Run -> JobType]
      /\ \A r \in Run : \/ job'[r] = job[r]
                        \/ job'[r].pc \notin {"open"} \cup AtWork /\ job'[r].file = None
  <2>1. CASE job' = job
    BY <1>1, <2>1
  <2>2. CASE job' = [r \in Run |-> IF job[r].pc \in {"ended", "heard"} THEN Fresh ELSE job[r]]
    BY <1>1, <1>5, <2>2, FreshFacts
  <2>3. QED  BY <2>1, <2>2 DEF Shutdown, Exit, Crash
<1>7. QED  BY <1>1, <1>2, <1>3, <1>4, <1>6, Elsewhere

-----------------------------------------------------------------------------
(* The steps of the restore, and the clock *)

RstType == [pc : {"none", "copied", "leased"}, file : File \cup {None}, age : Age]

\* What is left when the restore is over: the processes, and of the files everything but leases
\* that were the restore's, all of it in a database that may have been swapped.
LEMMA RestoreEnds ==
    ASSUME IInv, rst' = NoRestore, job' = job, srv' = srv, events' \in 0..MaxEvents,
           NEW dbs \in [File -> Meta], live' \in File, db' = Kept(dbs, live', job, None),
           \A f \in File : dbs[f].lock = db[f].lock \/ (db[f].lock # None /\ db[f].lock.by = "restore")
    PROVE  IInv'
<1>1. IInv /\ TypeOK
  BY DEF IInv
<1>2. 0 \in Age /\ NoRestore \in RstType /\ NoRestore.pc = "none"
  BY AgesAssumption DEF Age, NoRestore, RstType
<1>3. db' \in [File -> Meta] /\ \A q \in Run : job[q].file \in File => db'[job[q].file] = dbs[job[q].file]
  BY KeptFacts
<1>4. TypeOK'
  BY <1>1, <1>2, <1>3, Typed, TypedNext DEF RstType
<1>5. JobsAreInFiles'
  BY DEF IInv, JobsAreInFiles
<1>6. LeaseIsOwn'
  <2> SUFFICES ASSUME NEW q \in Run, job[q].pc \in AtWork, job[q].age <= LockMaxAge
               PROVE  db'[job[q].file].lock = [by |-> q, age |-> job[q].age]
    BY DEF LeaseIsOwn
  <2>1. job[q].file \in File /\ db[job[q].file].lock.by # "restore"
    BY <1>1, Holders
  <2>2. db'[job[q].file].lock = db[job[q].file].lock
    BY <1>3, <2>1
  <2>3. QED  BY <2>2 DEF IInv, LeaseIsOwn
<1>7. RestoreLeaseIsOwn' /\ CopyIsClean'
  BY <1>2 DEF RestoreLeaseIsOwn, CopyIsClean
<1>8. QED  BY <1>4, <1>5, <1>6, <1>7 DEF IInv

LEMMA OutStep == ASSUME IInv, Swap \/ GiveUp \/ KillRestore PROVE IInv'
<1>1. TypeOK /\ live \in File /\ db \in [File -> Meta] /\ db[live] \in Meta
  BY DEF IInv, TypeOK
<1>2. rst' = NoRestore /\ job' = job /\ srv' = srv
  BY DEF Swap, GiveUp, KillRestore
<1>3. events' \in 0..MaxEvents
  BY <1>1, AgesAssumption DEF Swap, GiveUp, KillRestore, Event, TypeOK
<1>4. live' \in File
  BY <1>1 DEF Swap, GiveUp, KillRestore, IInv, CopyIsClean
<1>5. PICK m : /\ m \in {Forget(db[live], "restore"), Unlocked(db[live], "restore")}
               /\ db' = Kept([db EXCEPT ![live] = m], live', job, None)
  BY DEF Swap, GiveUp, KillRestore
<1>6. m \in Meta /\ (m.lock = db[live].lock \/ (db[live].lock # None /\ db[live].lock.by = "restore"))
  BY <1>1, <1>5, LockFacts DEF Forget, Unlocked
<1> DEFINE dbs == [db EXCEPT ![live] = m]
<1>7. dbs \in [File -> Meta] /\ dbs[live] = m /\ \A f \in File \ {live} : dbs[f] = db[f]
  BY <1>1, <1>6
<1>8. db' = Kept(dbs, live', job, None)
  BY <1>5
<1> HIDE DEF dbs
<1>9. \A f \in File : dbs[f].lock = db[f].lock \/ (db[f].lock # None /\ db[f].lock.by = "restore")
  BY <1>6, <1>7
<1>10. QED  BY <1>2, <1>3, <1>4, <1>7, <1>8, <1>9, RestoreEnds

\* The lease and the running records stay behind when a backup is put in place.
LEMMA AtRestFacts ==
    ASSUME NEW meta \in Meta
    PROVE  AtRest(meta) \in Meta /\ AtRest(meta).lock = None /\ \A n \in JobName : ~Running(AtRest(meta).rec[n])
<1>1. Result("error", Hour) \in JobRun /\ Result("error", Hour).result = "error"
  BY AgesAssumption, ResultIsRecord
<1> DEFINE rec == [n \in JobName |-> IF Running(meta.rec[n]) THEN Result("error", Hour) ELSE meta.rec[n]]
<1>2. rec \in [JobName -> JobRun] /\ \A n \in JobName : ~Running(rec[n])
  BY <1>1 DEF Meta, Running
<1>3. AtRest(meta) = [meta EXCEPT !.lock = None, !.rec = rec]
  BY Zenon DEF AtRest
<1> HIDE DEF rec
<1>4. AtRest(meta) \in Meta /\ AtRest(meta).lock = None /\ AtRest(meta).rec = rec
  BY <1>2, <1>3 DEF Meta
<1>5. QED  BY <1>2, <1>4

LEMMA StartRestoreStep == ASSUME IInv, StartRestore PROVE IInv'
<1>1. IInv /\ TypeOK /\ db \in [File -> Meta] /\ live \in File
  BY DEF IInv, TypeOK
<1>2. PICK f \in Spare, saved \in Backup :
         db' = [db EXCEPT ![f] = AtRest(saved)] /\ rst' = [pc |-> "copied", file |-> f, age |-> 0]
  BY DEF StartRestore
<1>3. f \in File \ {live} /\ \A r \in Run : job[r].file # f
  BY DEF Spare
<1>4. AtRest(saved) \in Meta /\ AtRest(saved).lock = None /\ \A n \in JobName : ~Running(AtRest(saved).rec[n])
  BY BackupAssumption, AtRestFacts
<1>5. db' \in [File -> Meta] /\ db'[f] = AtRest(saved) /\ \A g \in File \ {f} : db'[g] = db[g]
  BY <1>1, <1>2, <1>3, <1>4
<1>6. live' = live /\ job' = job /\ srv' = srv /\ events' \in 0..MaxEvents
  BY <1>1, AgesAssumption DEF StartRestore, Event, TypeOK
<1>7. 0 \in Age /\ rst'.pc = "copied" /\ rst'.file = f
  BY <1>2, AgesAssumption DEF Age
<1>8. rst' \in RstType
  BY <1>2, <1>3, <1>7 DEF RstType
<1>9. TypeOK'
  BY <1>1, <1>5, <1>6, <1>8, Typed, TypedNext DEF RstType
<1>10. JobsAreInFiles' /\ LeaseIsOwn'
  BY <1>1, <1>3, <1>5, <1>6 DEF IInv, JobsAreInFiles, LeaseIsOwn
<1>11. RestoreLeaseIsOwn'
  BY <1>7 DEF RestoreLeaseIsOwn
<1>12. CopyIsClean'
  BY <1>3, <1>4, <1>5, <1>6, <1>7 DEF CopyIsClean
<1>13. QED  BY <1>9, <1>10, <1>11, <1>12 DEF IInv

LEMMA LeaseForRestoreStep == ASSUME IInv, LeaseForRestore PROVE IInv'
<1>1. IInv /\ TypeOK /\ live \in File /\ db \in [File -> Meta] /\ events \in 0..MaxEvents
  BY DEF IInv, TypeOK
<1>2. live' = live /\ job' = job /\ srv' = srv /\ events' = events /\ rst.pc = "copied"
  BY DEF LeaseForRestore
<1>3. CASE Held(db[live].lock)
  <2>1. rst' = NoRestore /\ db' = Kept(db, live', job, None)
    BY <1>2, <1>3 DEF LeaseForRestore
  <2>2. QED  BY <1>1, <1>2, <2>1, RestoreEnds
<1>4. CASE ~Held(db[live].lock)
  <2>1. TakeLease(live, "restore") /\ rst' = [rst EXCEPT !.pc = "leased", !.age = 0]
    BY <1>4 DEF LeaseForRestore
  <2>2. /\ db' \in [File -> Meta] /\ db'[live].lock = [by |-> "restore", age |-> 0]
        /\ \A g \in File \ {live} : db'[g] = db[g]
        /\ \A q \in Run : job[q].pc \in AtWork /\ job[q].age <= LockMaxAge => job[q].file # live
    BY <1>1, <1>4, <2>1, TakeFacts DEF Holder
  <2>3. rst \in RstType /\ 0 \in Age
    BY <1>1, AgesAssumption DEF TypeOK, RstType, Age
  <2>4. rst' \in RstType /\ rst'.pc = "leased" /\ rst'.file = rst.file /\ rst'.age = 0
    BY <2>1, <2>3 DEF RstType
  <2>5. TypeOK'
    BY <1>1, <1>2, <2>2, <2>4, Typed, TypedNext DEF RstType
  <2>6. JobsAreInFiles' /\ LeaseIsOwn'
    BY <1>1, <1>2, <2>2 DEF IInv, JobsAreInFiles, LeaseIsOwn
  <2>7. RestoreLeaseIsOwn'
    BY <1>2, <2>2, <2>4 DEF RestoreLeaseIsOwn
  <2>8. CopyIsClean'
    BY <1>1, <1>2, <2>2, <2>4 DEF IInv, CopyIsClean
  <2>9. QED  BY <2>5, <2>6, <2>7, <2>8 DEF IInv
<1>5. QED  BY <1>3, <1>4

\* Leases, jobs and the restore grow older together.
LEMMA LaterStep == ASSUME IInv, Later PROVE IInv'
<1>1. IInv /\ TypeOK /\ db \in [File -> Meta] /\ job \in [Run -> JobType] /\ srv \in SrvType /\ rst \in RstType
      /\ live \in File
  BY Typed DEF IInv, RstType
<1>2. \A a \in Age : Older(a) \in Age /\ (Older(a) <= LockMaxAge => a <= LockMaxAge)
  BY AgesAssumption DEF Age, Older
<1>3. \A l \in Lease : [l EXCEPT !.age = Older(@)] = [by |-> l.by, age |-> Older(l.age)]
  BY DEF Lease
<1>4. ASSUME NEW m \in Meta
      PROVE  /\ OlderMeta(m) \in Meta
             /\ OlderMeta(m).lock = IF m.lock = None THEN None ELSE [m.lock EXCEPT !.age = Older(@)]
             /\ \A n \in JobName : Running(OlderMeta(m).rec[n]) = Running(m.rec[n])
  <2>1. ASSUME NEW n \in JobName
        PROVE  /\ Result(m.rec[n].result, m.rec[n].age + 1) \in JobRun
               /\ Result(m.rec[n].result, m.rec[n].age + 1).result = m.rec[n].result
    <3>1. m.rec[n].result \in {"fine", "running", "error"} /\ m.rec[n].age + 1 \in Nat
      BY AgesAssumption DEF Meta, JobRun
    <3>2. QED  BY <3>1, ResultIsRecord
  <2>2. (IF m.lock = None THEN None ELSE [m.lock EXCEPT !.age = Older(@)]) \in Lease \cup {None}
    <3>1. m.lock \in Lease \cup {None}
      BY DEF Meta
    <3>2. QED  BY <3>1, <1>2, <1>3 DEF Lease
  <2>3. OlderMeta(m).lock = IF m.lock = None THEN None ELSE [m.lock EXCEPT !.age = Older(@)]
    BY DEF OlderMeta
  <2>4. OlderMeta(m).rec = [n \in JobName |-> Result(m.rec[n].result, m.rec[n].age + 1)]
    BY DEF OlderMeta
  <2>5. OlderMeta(m) = [lock |-> OlderMeta(m).lock, rec |-> OlderMeta(m).rec]
    BY DEF OlderMeta
  <2>6. OlderMeta(m) \in Meta
    BY <2>1, <2>2, <2>3, <2>4, <2>5 DEF Meta
  <2>7. QED  BY <2>1, <2>3, <2>4, <2>6 DEF Running
<1>5. db' \in [File -> Meta] /\ \A f \in File : db'[f] = OlderMeta(db[f])
  BY <1>1, <1>4 DEF Later
<1>6. ASSUME NEW r \in Run
      PROVE  /\ job'[r] \in JobType /\ job'[r].pc = job[r].pc /\ job'[r].file = job[r].file
             /\ job[r].pc \in AtWork => job'[r].age = Older(job[r].age)
  <2>1. job[r] \in JobType /\ Older(job[r].age) \in Age
    BY <1>1, <1>2 DEF JobType
  <2>2. job'[r] = IF job[r].pc \in AtWork THEN [job[r] EXCEPT !.age = Older(@)] ELSE job[r]
    BY DEF Later
  <2>3. QED  BY <2>1, <2>2 DEF JobType
<1>7. job' \in [Run -> JobType]
  BY <1>6 DEF Later
<1>8. srv' \in SrvType
  <2>1. srv.age + 1 \in Nat /\ (srv.age < Hour => srv.age + 1 \in Age)
    BY <1>1, AgesAssumption DEF SrvType, Age
  <2>2. QED  BY <1>1, <2>1 DEF Later, SrvType
<1>9. /\ rst' \in RstType /\ rst'.pc = rst.pc /\ rst'.file = rst.file
      /\ rst.pc = "leased" => rst'.age = Older(rst.age)
  BY <1>1, <1>2 DEF Later, RstType
<1>10. live' = live /\ events' = events
  BY DEF Later
<1>11. TypeOK'
  BY <1>1, <1>5, <1>7, <1>8, <1>9, <1>10, Typed, TypedNext DEF RstType
<1>12. JobsAreInFiles'
  BY <1>6 DEF IInv, JobsAreInFiles
\* The lease of a holder, an hour on.
<1>13. ASSUME NEW f \in File, NEW by \in Holder, NEW a \in Age, db[f].lock = [by |-> by, age |-> a]
       PROVE  db'[f].lock = [by |-> by, age |-> Older(a)]
  <2>1. db[f].lock \in Lease /\ db[f].lock.by = by /\ db[f].lock.age = a
    BY <1>13 DEF Lease
  <2>2. db[f].lock # None /\ db[f] \in Meta
    BY <1>1, <2>1, LeaseAssumption
  <2>3. db'[f].lock = [db[f].lock EXCEPT !.age = Older(@)]
    BY <1>4, <1>5, <2>2
  <2>4. QED  BY <1>3, <2>1, <2>3
<1>14. LeaseIsOwn'
  <2> SUFFICES ASSUME NEW r \in Run, job'[r].pc \in AtWork, job'[r].age <= LockMaxAge
               PROVE  db'[job'[r].file].lock = [by |-> r, age |-> job'[r].age]
    BY DEF LeaseIsOwn
  <2>1. job[r].pc \in AtWork /\ job'[r].age = Older(job[r].age) /\ job'[r].file = job[r].file /\ job[r].age \in Age
    BY <1>1, <1>6 DEF JobType
  <2>2. job[r].file \in File /\ db[job[r].file].lock = [by |-> r, age |-> job[r].age]
    BY <1>2, <2>1 DEF IInv, LeaseIsOwn, JobsAreInFiles
  <2>3. QED  BY <1>13, <2>1, <2>2 DEF Holder
<1>15. RestoreLeaseIsOwn'
  <2> SUFFICES ASSUME rst.pc = "leased", rst'.age <= LockMaxAge
               PROVE  db'[live].lock = [by |-> "restore", age |-> rst'.age]
    BY <1>9, <1>10 DEF RestoreLeaseIsOwn
  <2>1. rst'.age = Older(rst.age) /\ rst.age \in Age
    BY <1>1, <1>9 DEF RstType
  <2>2. db[live].lock = [by |-> "restore", age |-> rst.age]
    BY <1>2, <2>1 DEF IInv, RestoreLeaseIsOwn
  <2>3. QED  BY <1>1, <1>13, <2>1, <2>2 DEF Holder
<1>16. CopyIsClean'
  <2> SUFFICES ASSUME rst.pc # "none" PROVE CopyIsClean'
    BY <1>9 DEF CopyIsClean
  <2>1. /\ rst.file \in File \ {live} /\ \A r \in Run : job[r].file # rst.file
        /\ db[rst.file].lock = None /\ \A n \in JobName : ~Running(db[rst.file].rec[n])
    BY DEF IInv, CopyIsClean
  <2>2. db[rst.file] \in Meta
    BY <1>1, <2>1
  <2>3. db'[rst.file].lock = None /\ \A n \in JobName : ~Running(db'[rst.file].rec[n])
    <3>1. db'[rst.file] = OlderMeta(db[rst.file])
      BY <1>5, <2>1
    <3>2. OlderMeta(db[rst.file]).lock = None
      BY <1>4, <2>1, <2>2
    <3>3. \A n \in JobName : Running(OlderMeta(db[rst.file]).rec[n]) = Running(db[rst.file].rec[n])
      BY <1>4, <2>2
    <3>4. QED  BY <3>1, <3>2, <3>3, <2>1
  <2>4. QED  BY <1>6, <1>9, <1>10, <2>1, <2>3 DEF CopyIsClean
<1>17. QED  BY <1>11, <1>12, <1>14, <1>15, <1>16 DEF IInv

-----------------------------------------------------------------------------
(* The theorems *)

LEMMA InitHolds == ASSUME Init PROVE IInv
<1>1. live \in File /\ Blank \in Meta
  BY NamesAssumption, BlankIsMeta DEF Init
<1>2. db \in [File -> Meta] /\ job \in [Run -> JobType] /\ \A r \in Run : job[r] = Fresh
  BY <1>1, FreshFacts DEF Init
<1>3. srv \in SrvType /\ events \in 0..MaxEvents
  BY DownFacts, AgesAssumption DEF Init
<1>4. 0 \in Age /\ rst.pc = "none" /\ rst = [pc |-> "none", file |-> None, age |-> 0]
  BY AgesAssumption DEF Init, NoRestore, Age
<1>5. TypeOK
  BY <1>1, <1>2, <1>3, <1>4, Typed
<1>6. "none" \notin {"open"} \cup AtWork
  BY DEF AtWork
<1>7. QED
  BY <1>2, <1>4, <1>5, <1>6, FreshFacts DEF IInv, JobsAreInFiles, LeaseIsOwn, RestoreLeaseIsOwn, CopyIsClean

LEMMA StepHolds == ASSUME IInv, [Next]_vars PROVE IInv'
<1>1. CASE \E r \in Run : JobStep(r) \/ Kill(r) \/ \E name \in JobName : Command(r, name)
  BY <1>1, OpenStep, AcquireStep, BeginStep, RecordStep, ReleaseStep, KillStep, CommandStep DEF JobStep
<1>2. CASE ServerStep \/ Enqueue \/ Shutdown \/ Crash
  BY <1>2, BootStep, TickStep, ClosedStep, EnqueueStep, DownStep DEF ServerStep
<1>3. CASE StartRestore \/ RestoreStep \/ GiveUp \/ KillRestore
  BY <1>3, StartRestoreStep, LeaseForRestoreStep, OutStep DEF RestoreStep
<1>4. CASE Later
  BY <1>4, LaterStep
<1>5. CASE UNCHANGED vars
  BY <1>5 DEF vars, IInv, TypeOK, JobsAreInFiles, LeaseIsOwn, RestoreLeaseIsOwn, CopyIsClean
<1>6. QED  BY <1>1, <1>2, <1>3, <1>4, <1>5 DEF Next

\* The invariant behind the rest (runJob, restoreDatabase): a lease that has not lapsed is in its
\* holder's file and nobody else's, and the copy a restore is about to put in place is at rest.
THEOREM Invariance == Spec => []IInv
<1>1. QED  BY InitHolds, StepHolds, PTL DEF Spec

\* The lease excludes (acquireJobLock): of the jobs that work in one file at most one is within its
\* lease, for any number of processes and files and any length of lease.
THEOREM LeaseAlwaysExcludes == Spec => []LeaseExcludes
<1>1. ASSUME IInv PROVE LeaseExcludes
  <2> SUFFICES ASSUME NEW r1 \in Run, NEW r2 \in Run, job[r1].pc \in AtWork, job[r1].age <= LockMaxAge,
                      job[r2].pc \in AtWork, job[r2].age <= LockMaxAge, job[r1].file = job[r2].file
               PROVE  r1 = r2
    BY DEF LeaseExcludes
  <2>1. db[job[r1].file].lock.by = r1 /\ db[job[r2].file].lock.by = r2
    BY <1>1, Holders
  <2>2. QED  BY <2>1
<1>2. QED  BY <1>1, Invariance, PTL

\* A restore puts a database at rest in place, and within its own lease strands no job that keeps
\* to its lease (restoreDatabase).
THEOREM SwapStaysClean == Spec => SwapIsClean
<1>1. ASSUME IInv, [Next]_vars, live' # live
      PROVE  /\ db'[live'].lock = None
             /\ \A n \in JobName : ~Running(db'[live'].rec[n])
             /\ rst.age <= LockMaxAge =>
                  \A r \in Run : job[r].pc \in AtWork /\ job[r].file = live => job[r].age > LockMaxAge
  <2>1. Swap
    BY <1>1 DEF Next, JobStep, ServerStep, RestoreStep, vars, Open, Acquire, Begin, Record, Release, Quiet,
       Kill, Command, Boot, Tick, Closed, Exit, Enqueue, Shutdown, Crash, StartRestore, LeaseForRestore,
       GiveUp, KillRestore, Later
  <2>2. /\ rst.pc = "leased" /\ live' = rst.file /\ rst.file \in File \ {live} /\ db[rst.file].lock = None
        /\ \A n \in JobName : ~Running(db[rst.file].rec[n])
    BY <1>1, <2>1 DEF Swap, IInv, CopyIsClean
  <2>3. live \in File /\ db \in [File -> Meta] /\ Forget(db[live], "restore") \in Meta
    BY <1>1, LockFacts DEF IInv, TypeOK
  <2> DEFINE dbs == [db EXCEPT ![live] = Forget(@, "restore")]
  <2>4. dbs \in [File -> Meta] /\ dbs[rst.file] = db[rst.file]
    BY <2>2, <2>3
  <2>5. db' = Kept(dbs, rst.file, job, None)
    BY <2>1 DEF Swap
  <2> HIDE DEF dbs
  <2>6. db'[live'] = db[rst.file]
    BY <2>2, <2>4, <2>5, KeptFacts
  <2>7. ASSUME rst.age <= LockMaxAge, NEW r \in Run, job[r].pc \in AtWork, job[r].file = live
        PROVE  job[r].age > LockMaxAge
    <3>1. db[live].lock.by = "restore"
      BY <1>1, <2>2, <2>7, Holders
    <3>2. ~(job[r].age <= LockMaxAge)
      BY <1>1, <2>7, <3>1, Holders
    <3>3. job[r].age \in Nat /\ LockMaxAge \in Nat
      BY <1>1, AgesAssumption DEF IInv, TypeOK, Age
    <3>4. QED  BY <3>2, <3>3
  <2>8. QED  BY <2>2, <2>6, <2>7
<1>2. QED  BY <1>1, Invariance, PTL DEF Spec, SwapIsClean
=============================================================================
