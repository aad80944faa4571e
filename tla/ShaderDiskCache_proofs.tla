------------------------ MODULE ShaderDiskCache_proofs ------------------------
(***************************************************************************)
(* Proofs about ShaderDiskCache, for any number of processes, builds, keys *)
(* and jobs, and any assignment of file names to keys: clients are served  *)
(* what they asked for, an entry is whole unless the power has failed, and *)
(* Flush covers what was stored before it.                                 *)
(*                                                                         *)
(* The temporary is filled before it is renamed, and what a waiting Flush  *)
(* is owed is still in the queue or with the worker: ProcOk adds these to  *)
(* what the properties say.                                                *)
(***************************************************************************)
EXTENDS ShaderDiskCache, TLAPS

ProcRec ==
  [up : BOOLEAN, version : Versions \cup {None},
   pc : {"down", "stamp", "tidy", "wait", "open", "fill", "rename", "written"},
   victims : SUBSET Versions, jobs : Seq(Keys), job : Keys \cup {None},
   temp : Files \cup {None},
   client : {"idle", "compile", "flush", "asleep", "flushed"},
   want : Keys \cup {None}, owed : Nat]

DirRec == [there : BOOLEAN, entries : [Names -> Files \cup {None}]]

Busy == {"open", "fill", "rename", "written"}

Pending(r) == Len(r.jobs) + IF r.job # None THEN 1 ELSE 0

\* A process: its worker's place, its queue, and what its client waits for.
ProcOk(r) ==
  /\ r \in ProcRec
  /\ r.up \/ r.pc # "down" => r.version \in Versions
  /\ r.pc \in Busy <=> r.job # None
  /\ r.temp # None => r.pc \in {"fill", "rename"}
  /\ r.pc = "rename" /\ r.temp # None => r.temp.bad = "no"
  /\ r.client = "compile" => r.want \in Keys
  /\ Len(r.jobs) <= MaxJobs
  /\ r.owed <= Pending(r)
  /\ r.client = "flushed" => r.owed = 0
  /\ r.client = "asleep" => Pending(r) # 0

\* A directory that is gone has no files, entries or temporaries.
DirsOk ==
  \A v \in Versions :
    ~disk[v].there =>
      /\ disk[v].entries = [n \in Names |-> None]
      /\ \A p \in Procs : proc[p].version = v => proc[p].temp = None

Whole ==
  ~outage => \A v \in Versions, n \in Names :
    disk[v].entries[n] = None \/ disk[v].entries[n].bad = "no"

IInv ==
  /\ disk \in [Versions -> DirRec] /\ proc \in [Procs -> ProcRec]
  /\ \A p \in Procs : ProcOk(proc[p])
  /\ outage \in BOOLEAN /\ DirsOk /\ Whole /\ NeverMisled


-----------------------------------------------------------------------------
(* A process.                                                              *)

\* The fields of a process.
LEMMA ProcFields ==
  ASSUME NEW r \in ProcRec
  PROVE  /\ r.up \in BOOLEAN /\ r.version \in Versions \cup {None}
         /\ r.pc \in {"down", "stamp", "tidy", "wait", "open", "fill", "rename", "written"}
         /\ r.victims \in SUBSET Versions /\ r.jobs \in Seq(Keys)
         /\ r.job \in Keys \cup {None} /\ r.temp \in Files \cup {None}
         /\ r.client \in {"idle", "compile", "flush", "asleep", "flushed"}
         /\ r.want \in Keys \cup {None} /\ r.owed \in Nat
BY DEF ProcRec

\* A process that does not run.
LEMMA DownOk == ProcOk(Down) /\ Down.temp = None
<1>1. /\ Down.up = FALSE /\ Down.pc = "down" /\ Down.job = None /\ Down.temp = None
      /\ Down.client = "idle" /\ Down.jobs = <<>> /\ Down.owed = 0
  BY DEF Down
<1>2. <<>> \in Seq(Keys) /\ Len(<<>>) = 0
  OBVIOUS
<1>3. Down \in ProcRec
  BY <1>2 DEF Down, ProcRec
<1>4. Pending(Down) = 0
  BY <1>1, <1>2 DEF Pending
<1>5. Len(Down.jobs) <= MaxJobs
  BY <1>1, <1>2, DiskConstants
<1>6. Down.pc \notin Busy
  BY <1>1 DEF Busy
<1> QED BY <1>1, <1>3, <1>4, <1>5, <1>6 DEF ProcOk

\* What a worker has to do is a number.
LEMMA PendingFacts ==
  ASSUME NEW r \in ProcRec
  PROVE  Pending(r) \in Nat /\ Len(r.jobs) \in Nat /\ Pending(r) >= Len(r.jobs)
<1>1. Len(r.jobs) \in Nat
  BY ProcFields
<1>2. CASE r.job # None
  BY <1>1, <1>2 DEF Pending
<1>3. CASE r.job = None
  BY <1>1, <1>3 DEF Pending
<1> QED BY <1>1, <1>2, <1>3

\* The worker takes the next job, or waits and wakes a client that waits for the end.
\* The job that it has is not counted.
LEMMA NextJobOk ==
  ASSUME NEW r \in ProcRec, r.version \in Versions, r.temp = None,
         r.client = "compile" => r.want \in Keys,
         Len(r.jobs) <= MaxJobs, r.owed <= Len(r.jobs),
         r.client = "flushed" => r.owed = 0
  PROVE  /\ ProcOk(NextJob(r)) /\ NextJob(r).version = r.version
         /\ NextJob(r).temp = None
<1>1. /\ r.jobs \in Seq(Keys) /\ Len(r.jobs) \in Nat /\ r.owed \in Nat
      /\ r.client \in {"idle", "compile", "flush", "asleep", "flushed"}
  BY ProcFields
<1>2. CASE r.jobs = <<>>
  <2> DEFINE w == [r EXCEPT !.pc = "wait", !.job = None]
  <2>1. /\ w \in ProcRec /\ w.pc = "wait" /\ w.job = None /\ w.jobs = r.jobs
        /\ w.temp = None /\ w.version = r.version /\ w.client = r.client
        /\ w.want = r.want /\ w.owed = r.owed
    BY DEF ProcRec
  <2>2. NextJob(r) = Woken(w)
    BY <1>2 DEF NextJob
  <2> HIDE DEF w
  <2> DEFINE x == Woken(w)
  <2>3. /\ x \in ProcRec /\ x.pc = "wait" /\ x.job = None /\ x.jobs = r.jobs
        /\ x.temp = None /\ x.version = r.version
        /\ x.client = (IF r.client = "asleep" THEN "flush" ELSE r.client)
        /\ x.want = r.want /\ x.owed = r.owed
    <3>1. CASE w.client = "asleep"
      <4>1. x = [w EXCEPT !.client = "flush"]
        BY <3>1 DEF Woken
      <4> HIDE DEF x
      <4> QED BY <2>1, <3>1, <4>1 DEF ProcRec
    <3>2. CASE w.client # "asleep"
      <4>1. x = w
        BY <3>2 DEF Woken
      <4> HIDE DEF x
      <4> QED BY <2>1, <3>2, <4>1
    <3> QED BY <3>1, <3>2
  <2> HIDE DEF x
  <2>4. Pending(x) = Len(r.jobs) /\ Len(r.jobs) = 0
    BY <1>1, <1>2, <2>3 DEF Pending
  <2>5. x.owed <= Pending(x) /\ Len(x.jobs) <= MaxJobs
    BY <2>3, <2>4
  <2>6. x.client # "asleep" /\ (x.client = "compile" => x.want \in Keys)
        /\ (x.client = "flushed" => x.owed = 0)
    BY <1>1, <2>3
  <2>7. ProcOk(x)
    BY <2>3, <2>5, <2>6 DEF ProcOk, Busy
  <2> QED BY <2>2, <2>3, <2>7 DEF x
<1>3. CASE r.jobs # <<>>
  <2> DEFINE x == [r EXCEPT !.pc = "open", !.job = Head(r.jobs), !.jobs = Tail(r.jobs)]
  <2>1. /\ Head(r.jobs) \in Keys /\ Tail(r.jobs) \in Seq(Keys)
        /\ Len(Tail(r.jobs)) = Len(r.jobs) - 1
    BY <1>1, <1>3
  <2>2. NextJob(r) = x
    BY <1>3 DEF NextJob
  <2>3. /\ x \in ProcRec /\ x.pc = "open" /\ x.job = Head(r.jobs) /\ x.jobs = Tail(r.jobs)
        /\ x.temp = None /\ x.version = r.version /\ x.client = r.client
        /\ x.want = r.want /\ x.owed = r.owed
    BY <2>1 DEF ProcRec
  <2> HIDE DEF x
  <2>4. x.job # None
    BY <2>1, <2>3, DiskConstants
  <2>5. Pending(x) = Len(r.jobs) /\ Len(r.jobs) # 0
    BY <1>1, <1>3, <2>1, <2>3, <2>4 DEF Pending
  <2>6. Len(x.jobs) <= MaxJobs
    BY <1>1, <2>1, <2>3, DiskConstants
  <2>7. ProcOk(x)
    BY <2>3, <2>4, <2>5, <2>6 DEF ProcOk, Busy
  <2> QED BY <2>2, <2>3, <2>7
<1> QED BY <1>2, <1>3

\* A temporary that is taken away is the only change.
LEMMA UntempedOk ==
  ASSUME NEW r, ProcOk(r)
  PROVE  /\ ProcOk([r EXCEPT !.temp = None])
         /\ [r EXCEPT !.temp = None].version = r.version
         /\ [r EXCEPT !.temp = None].temp = None
<1> DEFINE x == [r EXCEPT !.temp = None]
<1>1. /\ x \in ProcRec /\ x.pc = r.pc /\ x.job = r.job /\ x.jobs = r.jobs
      /\ x.temp = None /\ x.version = r.version /\ x.client = r.client
      /\ x.want = r.want /\ x.owed = r.owed /\ x.up = r.up
  BY DEF ProcOk, ProcRec
<1> HIDE DEF x
<1>2. Pending(x) = Pending(r)
  BY <1>1 DEF Pending
<1>3. ProcOk(x)
  BY <1>1, <1>2 DEF ProcOk
<1> QED BY <1>1, <1>3 DEF x

-----------------------------------------------------------------------------
(* Steps of one process that leave the directories alone.                  *)

\* Such a step keeps the invariant if it keeps the process in order and makes no
\* temporary.
LEMMA ProcStep ==
  ASSUME IInv, NEW p \in Procs, NEW r, ProcOk(r), proc' = [proc EXCEPT ![p] = r],
         r.temp # None => proc[p].temp # None /\ r.version = proc[p].version,
         UNCHANGED <<disk, outage, misled>>
  PROVE  IInv'
<1>1. /\ proc \in [Procs -> ProcRec] /\ r \in ProcRec
  BY DEF IInv, ProcOk
<1>2. /\ proc' \in [Procs -> ProcRec] /\ proc'[p] = r
      /\ \A q \in Procs : q # p => proc'[q] = proc[q]
  BY <1>1
<1>3. \A q \in Procs : ProcOk(proc'[q])
  BY <1>2 DEF IInv
<1>4. DirsOk'
  BY <1>2 DEF IInv, DirsOk
<1>5. Whole' /\ NeverMisled'
  BY DEF IInv, Whole, NeverMisled
<1> QED BY <1>2, <1>3, <1>4, <1>5 DEF IInv

\* A process starts or ends.
LEMMA LifeStep ==
  ASSUME IInv, NEW p \in Procs,
         End(p) \/ \E v \in Versions : Start(p, v)
  PROVE  IInv'
<1>1. CASE End(p)
  BY <1>1, DownOk, ProcStep DEF End
<1>2. CASE \E v \in Versions : Start(p, v)
  <2>1. PICK v \in Versions : Start(p, v)
    BY <1>2
  <2> DEFINE r == [Down EXCEPT !.up = TRUE, !.version = v, !.pc = "stamp"]
  <2>2. Down \in ProcRec /\ ProcOk(Down) /\ Down.temp = None
    BY DownOk DEF ProcOk
  <2>3. /\ r \in ProcRec /\ r.pc = "stamp" /\ r.version = v
        /\ r.job = Down.job /\ r.jobs = Down.jobs
        /\ r.temp = Down.temp /\ r.client = Down.client
        /\ r.want = Down.want /\ r.owed = Down.owed
    BY <2>2 DEF ProcRec
  <2>4. /\ proc' = [proc EXCEPT ![p] = r] /\ UNCHANGED <<disk, outage, misled>>
    BY <2>1 DEF Start
  <2> HIDE DEF r
  <2>5. Down.pc = "down"
    BY DEF Down
  <2>6. Pending(r) = Pending(Down)
    BY <2>3 DEF Pending
  <2>7. ProcOk(r)
    BY <2>2, <2>3, <2>5, <2>6 DEF ProcOk, Busy
  <2> QED BY <2>2, <2>3, <2>4, <2>7, ProcStep
<1> QED BY <1>1, <1>2

\* The worker wakes, and comes to the end of a job.
LEMMA WorkerStep ==
  ASSUME IInv, NEW p \in Procs, Wake(p) \/ Written(p)
  PROVE  IInv'
<1>1. ProcOk(proc[p]) /\ proc[p] \in ProcRec
  BY DEF IInv, ProcOk
<1>2. /\ Pending(proc[p]) \in Nat /\ Len(proc[p].jobs) \in Nat /\ proc[p].owed \in Nat
  BY <1>1, ProcFields, PendingFacts
<1>3. CASE Wake(p)
  <2>1. proc[p].pc = "wait" /\ proc' = [proc EXCEPT ![p] = NextJob(proc[p])]
        /\ UNCHANGED <<disk, outage, misled>>
    BY <1>3 DEF Wake, At
  <2>2. proc[p].temp = None /\ proc[p].job = None /\ proc[p].version \in Versions
    BY <1>1, <2>1 DEF ProcOk, Busy
  <2>3. proc[p].owed <= Len(proc[p].jobs)
    BY <1>1, <1>2, <2>2 DEF ProcOk, Pending
  <2>4. ProcOk(NextJob(proc[p])) /\ NextJob(proc[p]).temp = None
    BY <1>1, <2>2, <2>3, NextJobOk DEF ProcOk
  <2> QED BY <2>1, <2>4, ProcStep
<1>4. CASE Written(p)
  <2> DEFINE w == Paid(proc[p])
  <2>1. proc[p].pc = "written" /\ proc' = [proc EXCEPT ![p] = NextJob(w)]
        /\ UNCHANGED <<disk, outage, misled>>
    BY <1>4 DEF Written, At
  <2>2. proc[p].temp = None /\ proc[p].version \in Versions
    BY <1>1, <2>1 DEF ProcOk
  <2>3. proc[p].owed <= Len(proc[p].jobs) + 1
    <3>1. Pending(proc[p]) <= Len(proc[p].jobs) + 1
      <4>1. CASE proc[p].job # None
        BY <1>2, <4>1 DEF Pending
      <4>2. CASE proc[p].job = None
        BY <1>2, <4>2 DEF Pending
      <4> QED BY <4>1, <4>2
    <3> QED BY <1>1, <1>2, <3>1 DEF ProcOk
  <2> DEFINE less == IF proc[p].owed > 0 THEN proc[p].owed - 1 ELSE 0
  <2>4. less \in Nat /\ less <= Len(proc[p].jobs) /\ (proc[p].owed = 0 => less = 0)
    BY <1>2, <2>3
  <2>5. w = [proc[p] EXCEPT !.owed = less]
    BY DEF Paid
  <2> HIDE DEF less, w
  <2>6. /\ w \in ProcRec /\ w.version = proc[p].version /\ w.temp = proc[p].temp
        /\ w.client = proc[p].client /\ w.want = proc[p].want /\ w.jobs = proc[p].jobs
        /\ w.owed = less
    BY <1>1, <2>4, <2>5 DEF ProcRec
  <2>7. /\ w.version \in Versions /\ w.temp = None /\ (w.client = "compile" => w.want \in Keys)
        /\ Len(w.jobs) <= MaxJobs /\ w.owed <= Len(w.jobs) /\ (w.client = "flushed" => w.owed = 0)
    BY <1>1, <2>2, <2>4, <2>6 DEF ProcOk
  <2>8. ProcOk(NextJob(w)) /\ NextJob(w).temp = None
    BY <2>6, <2>7, NextJobOk
  <2> QED BY <2>1, <2>8, ProcStep
<1> QED BY <1>3, <1>4

\* The temporary is filled, or dropped.
LEMMA FillStep ==
  ASSUME IInv, NEW p \in Procs, FillTemp(p)
  PROVE  IInv'
<1> DEFINE r == proc[p]
<1>1. ProcOk(r) /\ r \in ProcRec /\ r.temp \in Files \cup {None} /\ proc \in [Procs -> ProcRec]
  BY ProcFields DEF IInv, ProcOk
<1>2. r.pc = "fill" /\ UNCHANGED <<disk, outage, misled>>
  BY DEF FillTemp, At
<1>3. CASE proc' = [proc EXCEPT ![p] = Dropped(@)]
  <2> DEFINE x == Dropped(r)
  <2>1. x = [r EXCEPT !.pc = "written", !.temp = None]
    BY DEF Dropped
  <2> HIDE DEF x
  <2>2. /\ x \in ProcRec /\ x.pc = "written" /\ x.job = r.job /\ x.jobs = r.jobs
        /\ x.temp = None /\ x.version = r.version /\ x.client = r.client
        /\ x.want = r.want /\ x.owed = r.owed /\ x.up = r.up
    BY <1>1, <2>1 DEF ProcRec
  <2>3. Pending(x) = Pending(r)
    BY <2>2 DEF Pending
  <2>4. ProcOk(x)
    BY <1>1, <1>2, <2>2, <2>3 DEF ProcOk, Busy
  <2>5. proc' = [proc EXCEPT ![p] = x]
    BY <1>3 DEF x
  <2> QED BY <1>2, <2>2, <2>4, <2>5, ProcStep
<1>4. CASE proc' = [proc EXCEPT ![p].pc = "rename",
              ![p].temp = IF @ = None THEN None ELSE [@ EXCEPT !.bad = "no"]]
  <2> DEFINE temp == IF r.temp = None THEN None ELSE [r.temp EXCEPT !.bad = "no"]
             x == [[r EXCEPT !.pc = "rename"] EXCEPT !.temp = temp]
  <2>1. temp \in Files \cup {None} /\ (temp # None => temp.bad = "no" /\ r.temp # None)
    BY <1>1 DEF Files, Damage
  <2> HIDE DEF temp
  <2>2. /\ x \in ProcRec /\ x.pc = "rename" /\ x.job = r.job /\ x.jobs = r.jobs
        /\ x.temp = temp /\ x.version = r.version /\ x.client = r.client
        /\ x.want = r.want /\ x.owed = r.owed /\ x.up = r.up
    BY <1>1, <2>1 DEF ProcRec
  <2>3. proc' = [proc EXCEPT ![p] = x]
    BY <1>1, <1>4 DEF temp
  <2> HIDE DEF x
  <2>4. Pending(x) = Pending(r)
    BY <2>2 DEF Pending
  <2>5. ProcOk(x)
    BY <1>1, <1>2, <2>1, <2>2, <2>4 DEF ProcOk, Busy
  <2> QED BY <1>2, <2>1, <2>2, <2>3, <2>5, ProcStep
<1> QED BY <1>3, <1>4 DEF FillTemp

-----------------------------------------------------------------------------
(* The client.                                                             *)

\* A client is served by its own build, for its own key, from a whole file, or asks
\* for a compilation.
LEMMA LoadStep ==
  ASSUME IInv, NEW p \in Procs, NEW k \in Keys, Load(p, k)
  PROVE  IInv'
<1> DEFINE r == proc[p]
           file == Dir(p).entries[Name[k]]
<1>1. ProcOk(r) /\ r \in ProcRec /\ proc \in [Procs -> ProcRec] /\ r.version \in Versions
      /\ r.client = "idle"
  BY DEF IInv, ProcOk, Load, Client
<1>2. file \in Files \cup {None}
  <2>1. disk[r.version] \in DirRec /\ Name[k] \in Names
    BY <1>1 DEF IInv, Names
  <2> QED BY <2>1 DEF DirRec, Dir
<1>3. CASE Decode(file, r.version, k) = "loaded"
  <2>1. file = [key |-> k, version |-> r.version, bad |-> "no"]
    <3> HIDE DEF file, r
    <3>1. file # None /\ file.bad # "header" /\ file.version = r.version /\ file.key = k
          /\ file.bad # "payload"
      BY <1>3 DEF Decode
    <3> QED BY <1>2, <3>1 DEF Files, Damage
  <2>2. UNCHANGED <<disk, proc, outage>>
        /\ misled' = (misled \/ file # [key |-> k, version |-> r.version, bad |-> "no"])
    BY <1>3 DEF Load
  <2> HIDE DEF file, r
  <2>3. ~misled'
    BY <2>1, <2>2 DEF IInv, NeverMisled
  <2>4. DirsOk' /\ Whole' /\ NeverMisled'
    BY <2>2, <2>3 DEF IInv, DirsOk, Whole, NeverMisled
  <2> QED BY <2>2, <2>4 DEF IInv
<1>4. CASE Decode(file, r.version, k) # "loaded"
  <2> DEFINE x == [[r EXCEPT !.client = "compile"] EXCEPT !.want = k]
  <2>1. /\ x \in ProcRec /\ x.pc = r.pc /\ x.job = r.job /\ x.jobs = r.jobs
        /\ x.temp = r.temp /\ x.version = r.version /\ x.client = "compile"
        /\ x.want = k /\ x.owed = r.owed /\ x.up = r.up
    BY <1>1 DEF ProcRec
  <2>2. proc' = [proc EXCEPT ![p] = x] /\ UNCHANGED <<disk, outage, misled>>
    BY <1>1, <1>4 DEF Load
  <2> HIDE DEF x, file
  <2>3. Pending(x) = Pending(r)
    BY <2>1 DEF Pending
  <2>4. ProcOk(x)
    BY <1>1, <2>1, <2>3 DEF ProcOk
  <2> QED BY <2>1, <2>2, <2>4, ProcStep
<1> QED BY <1>3, <1>4

\* What was compiled is queued, if there is something.
LEMMA CompileStep ==
  ASSUME IInv, NEW p \in Procs, Compile(p)
  PROVE  IInv'
<1> DEFINE r == proc[p]
<1>1. ProcOk(r) /\ r \in ProcRec /\ proc \in [Procs -> ProcRec] /\ r.jobs \in Seq(Keys)
      /\ r.client = "compile" /\ r.want \in Keys /\ UNCHANGED <<disk, outage, misled>>
  BY ProcFields DEF IInv, ProcOk, Compile, Client
<1>2. Len(r.jobs) \in Nat /\ r.owed \in Nat /\ Pending(r) \in Nat /\ r.owed <= Pending(r)
  BY <1>1, ProcFields, PendingFacts DEF ProcOk
<1>3. PICK jobs \in Seq(Keys) :
        /\ jobs = r.jobs \/ (Len(r.jobs) < MaxJobs /\ jobs = Append(r.jobs, r.want))
        /\ proc' = [proc EXCEPT ![p] = [r EXCEPT !.client = "idle", !.want = None, !.jobs = jobs]]
  <2>1. CASE /\ Len(r.jobs) < MaxJobs
             /\ proc' = [proc EXCEPT ![p].client = "idle", ![p].want = None,
                  ![p].jobs = Append(@, r.want)]
    <3> DEFINE jobs == Append(r.jobs, r.want)
    <3>1. jobs \in Seq(Keys)
      BY <1>1
    <3>2. proc' = [proc EXCEPT ![p] = [r EXCEPT !.client = "idle", !.want = None, !.jobs = jobs]]
      BY <1>1, <2>1 DEF ProcRec
    <3> QED BY <2>1, <3>1, <3>2
  <2>2. CASE proc' = [proc EXCEPT ![p].client = "idle", ![p].want = None]
    <3>1. [r EXCEPT !.client = "idle", !.want = None]
          = [r EXCEPT !.client = "idle", !.want = None, !.jobs = r.jobs]
      BY <1>1 DEF ProcRec
    <3>2. proc' = [proc EXCEPT ![p] = [r EXCEPT !.client = "idle", !.want = None]]
      BY <1>1, <2>2 DEF ProcRec
    <3> QED BY <1>1, <3>1, <3>2
  <2> QED BY <2>1, <2>2 DEF Compile
<1> DEFINE x == [r EXCEPT !.client = "idle", !.want = None, !.jobs = jobs]
<1>4. /\ x \in ProcRec /\ x.pc = r.pc /\ x.job = r.job /\ x.jobs = jobs
      /\ x.temp = r.temp /\ x.version = r.version /\ x.client = "idle"
      /\ x.owed = r.owed /\ x.up = r.up
  BY <1>1 DEF ProcRec
<1>5. proc' = [proc EXCEPT ![p] = x]
  BY <1>3
<1> HIDE DEF x
<1>6. Len(jobs) \in Nat /\ Len(r.jobs) <= Len(jobs) /\ Len(jobs) <= MaxJobs
  BY <1>1, <1>2, <1>3, DiskConstants DEF ProcOk
<1>7. r.owed <= Pending(x)
  <2>1. CASE r.job # None
    BY <1>2, <1>4, <1>6, <2>1 DEF Pending
  <2>2. CASE r.job = None
    BY <1>2, <1>4, <1>6, <2>2 DEF Pending
  <2> QED BY <2>1, <2>2
<1>8. ProcOk(x)
  BY <1>1, <1>4, <1>6, <1>7 DEF ProcOk
<1> QED BY <1>1, <1>4, <1>5, <1>8, ProcStep

\* A flush owes the jobs that are pending, and returns or sleeps.
LEMMA FlushStep ==
  ASSUME IInv, NEW p \in Procs, Flush(p) \/ FlushWaits(p) \/ FlushReturns(p)
  PROVE  IInv'
<1> DEFINE r == proc[p]
           Becomes(c, o) == proc' = [proc EXCEPT ![p] = [r EXCEPT !.client = c, !.owed = o]]
<1>1. ProcOk(r) /\ r \in ProcRec /\ proc \in [Procs -> ProcRec] /\ UNCHANGED <<disk, outage, misled>>
  BY DEF IInv, ProcOk, Flush, FlushWaits, FlushReturns
<1>2. /\ Pending(r) \in Nat /\ r.owed \in Nat /\ r.owed <= Pending(r) /\ Len(r.jobs) \in Nat
      /\ r.jobs \in Seq(Keys)
  BY <1>1, ProcFields, PendingFacts DEF ProcOk
<1>3. \E c \in {"idle", "flush", "asleep", "flushed"}, o \in Nat :
        /\ Becomes(c, o)
        /\ o <= Pending(r) /\ (c = "flushed" => o = 0) /\ (c = "asleep" => Pending(r) # 0)
  <2>1. CASE Flush(p)
    <3>1. proc' = [proc EXCEPT ![p].client = "flush", ![p].owed = Pending(r)]
      BY <2>1 DEF Flush, Pending, Writing
    <3>2. Becomes("flush", Pending(r))
      BY <1>1, <3>1 DEF ProcRec
    <3> HIDE DEF Becomes, r
    <3> QED BY <1>2, <3>2
  <2>2. CASE FlushWaits(p)
    <3>1. \/ /\ r.jobs = <<>> /\ r.job = None
             /\ proc' = [proc EXCEPT ![p].client = "flushed"]
          \/ /\ r.jobs # <<>> \/ r.job # None
             /\ proc' = [proc EXCEPT ![p].client = "asleep"]
      BY <2>2 DEF FlushWaits, Flushed, Writing
    <3>2. r.jobs = <<>> /\ r.job = None => Pending(r) = 0
      BY DEF Pending
    <3>3. r.jobs # <<>> \/ r.job # None => Pending(r) # 0
      <4>1. r.jobs # <<>> => Len(r.jobs) # 0
        BY <1>2
      <4>2. CASE r.job # None
        BY <1>2, <4>2 DEF Pending
      <4>3. CASE r.job = None
        BY <1>2, <4>1, <4>3 DEF Pending
      <4> QED BY <4>2, <4>3
    <3>4. \A c \in {"asleep", "flushed"} : proc' = [proc EXCEPT ![p].client = c] =>
            Becomes(c, r.owed)
      <4> SUFFICES ASSUME NEW c \in {"asleep", "flushed"}
                   PROVE  [r EXCEPT !.client = c] = [r EXCEPT !.client = c, !.owed = r.owed]
        BY <1>1
      <4> QED BY <1>1 DEF ProcRec
    <3>5. Pending(r) = 0 => r.owed = 0
      BY <1>2
    <3> HIDE DEF Becomes, r
    <3>6. CASE /\ r.jobs = <<>> /\ r.job = None
               /\ proc' = [proc EXCEPT ![p].client = "flushed"]
      BY <1>2, <3>2, <3>4, <3>5, <3>6
    <3>7. CASE /\ r.jobs # <<>> \/ r.job # None
               /\ proc' = [proc EXCEPT ![p].client = "asleep"]
      BY <1>2, <3>3, <3>4, <3>7
    <3> QED BY <3>1, <3>6, <3>7
  <2>3. CASE FlushReturns(p)
    <3>1. proc' = [proc EXCEPT ![p].client = "idle", ![p].owed = 0]
      BY <2>3 DEF FlushReturns
    <3>2. Becomes("idle", 0)
      BY <1>1, <3>1 DEF ProcRec
    <3>3. 0 <= Pending(r) /\ 0 \in Nat
      BY <1>2
    <3> HIDE DEF Becomes, r
    <3> QED BY <3>2, <3>3
  <2> QED BY <2>1, <2>2, <2>3
<1>4. PICK c \in {"idle", "flush", "asleep", "flushed"}, o \in Nat :
        /\ Becomes(c, o)
        /\ o <= Pending(r) /\ (c = "flushed" => o = 0) /\ (c = "asleep" => Pending(r) # 0)
  BY <1>3
<1> DEFINE x == [r EXCEPT !.client = c, !.owed = o]
<1>5. /\ x \in ProcRec /\ x.pc = r.pc /\ x.job = r.job /\ x.jobs = r.jobs
      /\ x.temp = r.temp /\ x.version = r.version /\ x.client = c
      /\ x.owed = o /\ x.up = r.up
  BY <1>1 DEF ProcRec
<1>6. proc' = [proc EXCEPT ![p] = x]
  BY <1>4
<1> HIDE DEF x
<1>7. Pending(x) = Pending(r)
  BY <1>5 DEF Pending
<1>8. ProcOk(x)
  BY <1>1, <1>4, <1>5, <1>7 DEF ProcOk
<1> QED BY <1>1, <1>5, <1>6, <1>8, ProcStep

-----------------------------------------------------------------------------
(* Steps that change the directories.                                      *)

\* Such a step keeps the invariant if it keeps the directories in order.
LEMMA DiskStep ==
  ASSUME IInv, NEW p \in Procs, NEW r, ProcOk(r), proc' = [proc EXCEPT ![p] = r],
         disk' \in [Versions -> DirRec], UNCHANGED <<outage, misled>>,
         DirsOk', Whole'
  PROVE  IInv'
<1>1. proc' \in [Procs -> ProcRec] /\ \A q \in Procs : ProcOk(proc'[q])
  BY DEF IInv, ProcOk
<1> QED BY <1>1 DEF IInv, NeverMisled

\* A directory that is created holds what it held.
LEMMA MadeFacts ==
  ASSUME NEW d \in DirRec
  PROVE  Made(d) \in DirRec /\ Made(d).there /\ Made(d).entries = d.entries
BY DEF DirRec, Made

\* The fields of a directory.
LEMMA DirFields ==
  ASSUME NEW d \in DirRec
  PROVE  d.there \in BOOLEAN /\ d.entries \in [Names -> Files \cup {None}]
BY DEF DirRec

\* A process creates its build's directory; it may have a temporary from then on.
LEMMA MadeStep ==
  ASSUME IInv, NEW p \in Procs, NEW r, ProcOk(r), proc' = [proc EXCEPT ![p] = r],
         NEW v \in Versions, v = proc[p].version, r.version = v,
         disk' = [disk EXCEPT ![v] = Made(@)], UNCHANGED <<outage, misled>>
  PROVE  IInv'
<1>1. disk \in [Versions -> DirRec] /\ proc \in [Procs -> ProcRec] /\ disk[v] \in DirRec
  BY DEF IInv
<1>2. /\ disk' \in [Versions -> DirRec]
      /\ disk'[v].there /\ disk'[v].entries = disk[v].entries
      /\ \A w \in Versions : w # v => disk'[w] = disk[w]
  BY <1>1, MadeFacts
<1>3. proc'[p] = r /\ \A q \in Procs : q # p => proc'[q] = proc[q]
  BY <1>1
<1>4. DirsOk'
  <2> SUFFICES ASSUME NEW w \in Versions, ~disk'[w].there
               PROVE  /\ disk'[w].entries = [n \in Names |-> None]
                      /\ \A q \in Procs : proc'[q].version = w => proc'[q].temp = None
    BY DEF DirsOk
  <2>1. w # v
    BY <1>2
  <2> QED BY <1>2, <1>3, <2>1 DEF IInv, DirsOk
<1>5. Whole'
  <2>1. \A w \in Versions : disk'[w].entries = disk[w].entries
    BY <1>2
  <2> QED BY <2>1 DEF IInv, Whole
<1> QED BY <1>2, <1>4, <1>5, DiskStep

\* The worker stamps its directory and looks for victims.
LEMMA StampStep ==
  ASSUME IInv, NEW p \in Procs, NEW victims \in SUBSET Versions, Stamp(p, victims)
  PROVE  IInv'
<1> DEFINE r == proc[p]
           x == [[r EXCEPT !.pc = "tidy"] EXCEPT !.victims = victims]
<1>1. ProcOk(r) /\ r \in ProcRec /\ proc \in [Procs -> ProcRec] /\ r.pc = "stamp"
  BY DEF IInv, ProcOk, Stamp, At
<1>2. /\ x \in ProcRec /\ x.pc = "tidy" /\ x.job = r.job /\ x.jobs = r.jobs
      /\ x.temp = r.temp /\ x.version = r.version /\ x.client = r.client
      /\ x.want = r.want /\ x.owed = r.owed
  BY <1>1 DEF ProcRec
<1>3. /\ proc' = [proc EXCEPT ![p] = x] /\ disk' = [disk EXCEPT ![r.version] = Made(@)]
      /\ UNCHANGED <<outage, misled>>
  BY <1>1 DEF Stamp
<1> HIDE DEF x
<1>4. Pending(x) = Pending(r)
  BY <1>2 DEF Pending
<1>5. ProcOk(x)
  BY <1>1, <1>2, <1>4 DEF ProcOk, Busy
<1>6. PICK v \in Versions : v = r.version
  BY <1>1 DEF ProcOk
<1> QED BY <1>2, <1>3, <1>5, <1>6, MadeStep

\* The worker opens a temporary in its directory, or gives the job up.
LEMMA OpenStep ==
  ASSUME IInv, NEW p \in Procs, OpenTemp(p)
  PROVE  IInv'
<1> DEFINE r == proc[p]
<1>1. ProcOk(r) /\ r \in ProcRec /\ proc \in [Procs -> ProcRec] /\ r.pc = "open"
      /\ UNCHANGED <<outage, misled>>
  BY DEF IInv, ProcOk, OpenTemp, At
<1>2. r.job \in Keys /\ r.version \in Versions /\ r.temp = None
  BY <1>1, ProcFields DEF ProcOk, Busy
<1>3. PICK v \in Versions : v = r.version
  BY <1>2
<1>4. CASE /\ disk' = [disk EXCEPT ![r.version] = Made(@)]
           /\ proc' = [proc EXCEPT ![p].pc = "fill",
                ![p].temp = [key |-> r.job, version |-> r.version, bad |-> "header"]]
  <2> DEFINE temp == [key |-> r.job, version |-> r.version, bad |-> "header"]
             x == [[r EXCEPT !.pc = "fill"] EXCEPT !.temp = temp]
  <2>1. temp \in Files
    BY <1>2 DEF Files, Damage
  <2> HIDE DEF temp
  <2>2. /\ x \in ProcRec /\ x.pc = "fill" /\ x.job = r.job /\ x.jobs = r.jobs
        /\ x.version = r.version /\ x.client = r.client
        /\ x.want = r.want /\ x.owed = r.owed
    BY <1>1, <2>1 DEF ProcRec
  <2>3. proc' = [proc EXCEPT ![p] = x]
    BY <1>1, <1>4 DEF temp
  <2> HIDE DEF x
  <2>4. Pending(x) = Pending(r)
    BY <2>2 DEF Pending
  <2>5. ProcOk(x)
    BY <1>1, <1>2, <2>2, <2>4 DEF ProcOk, Busy
  <2> QED BY <1>1, <1>3, <1>4, <2>2, <2>3, <2>5, MadeStep
<1>5. CASE /\ disk' \in {disk, [disk EXCEPT ![r.version] = Made(@)]}
           /\ proc' = [proc EXCEPT ![p].pc = "written"]
  <2> DEFINE x == [r EXCEPT !.pc = "written"]
  <2>1. /\ x \in ProcRec /\ x.pc = "written" /\ x.job = r.job /\ x.jobs = r.jobs
        /\ x.version = r.version /\ x.client = r.client /\ x.temp = r.temp
        /\ x.want = r.want /\ x.owed = r.owed
    BY <1>1 DEF ProcRec
  <2>2. proc' = [proc EXCEPT ![p] = x]
    BY <1>5
  <2> HIDE DEF x
  <2>3. Pending(x) = Pending(r)
    BY <2>1 DEF Pending
  <2>4. ProcOk(x)
    BY <1>1, <1>2, <2>1, <2>3 DEF ProcOk, Busy
  <2>5. CASE disk' = disk
    BY <1>1, <1>2, <2>1, <2>2, <2>4, <2>5, ProcStep
  <2>6. CASE disk' = [disk EXCEPT ![r.version] = Made(@)]
    BY <1>1, <1>3, <2>1, <2>2, <2>4, <2>6, MadeStep
  <2> QED BY <1>5, <2>5, <2>6
<1> QED BY <1>4, <1>5 DEF OpenTemp

\* What is renamed is whole, and its directory is there.
LEMMA RenameStep ==
  ASSUME IInv, NEW p \in Procs, Rename(p)
  PROVE  IInv'
<1> DEFINE r == proc[p]
           x == Dropped(r)
<1>1. ProcOk(r) /\ r \in ProcRec /\ proc \in [Procs -> ProcRec] /\ r.pc = "rename"
      /\ disk \in [Versions -> DirRec] /\ UNCHANGED <<outage, misled>>
      /\ proc' = [proc EXCEPT ![p] = x]
  BY DEF IInv, ProcOk, Rename, At
<1>2. r.job \in Keys /\ r.version \in Versions /\ r.temp \in Files \cup {None}
  BY <1>1, ProcFields DEF ProcOk, Busy
<1>3. x = [r EXCEPT !.pc = "written", !.temp = None]
  BY DEF Dropped
<1> HIDE DEF x
<1>4. /\ x \in ProcRec /\ x.pc = "written" /\ x.job = r.job /\ x.jobs = r.jobs
      /\ x.temp = None /\ x.version = r.version /\ x.client = r.client
      /\ x.want = r.want /\ x.owed = r.owed /\ x.up = r.up
  BY <1>1, <1>3 DEF ProcRec
<1>5. Pending(x) = Pending(r)
  BY <1>4 DEF Pending
<1>6. ProcOk(x)
  BY <1>1, <1>4, <1>5 DEF ProcOk, Busy
<1>7. CASE disk' = disk
  BY <1>1, <1>4, <1>6, <1>7, ProcStep
<1>8. CASE r.temp # None
           /\ disk' = [disk EXCEPT ![r.version].entries[Name[r.job]] = r.temp]
  <2>1. PICK v \in Versions, m \in Names, file \in Files :
          v = r.version /\ m = Name[r.job] /\ file = r.temp
    BY <1>2, <1>8 DEF Names
  <2>2. file.bad = "no" /\ disk[v].there
    <3>1. file.bad = "no"
      BY <1>1, <1>8, <2>1 DEF ProcOk
    <3>2. disk[v].there
      BY <1>8, <2>1 DEF IInv, DirsOk
    <3> QED BY <3>1, <3>2
  <2> DEFINE d == [disk[v] EXCEPT !.entries[m] = file]
  <2>3. disk' = [disk EXCEPT ![v] = d]
    BY <1>1, <1>8, <2>1
  <2>4. /\ d \in DirRec /\ d.there = disk[v].there
        /\ d.entries = [disk[v].entries EXCEPT ![m] = file]
    <3>1. disk[v] \in DirRec
      BY <1>1
    <3> QED BY <3>1 DEF DirRec
  <2> HIDE DEF d
  <2>5. /\ disk' \in [Versions -> DirRec] /\ disk'[v] = d
        /\ \A w \in Versions : w # v => disk'[w] = disk[w]
    BY <1>1, <2>3, <2>4
  <2>6. proc'[p] = x /\ \A q \in Procs : q # p => proc'[q] = proc[q]
    BY <1>1
  <2>7. DirsOk'
    <3> SUFFICES ASSUME NEW w \in Versions, ~disk'[w].there
                 PROVE  /\ disk'[w].entries = [n \in Names |-> None]
                        /\ \A q \in Procs : proc'[q].version = w => proc'[q].temp = None
      BY DEF DirsOk
    <3>1. w # v
      BY <2>2, <2>4, <2>5
    <3> QED BY <1>4, <2>5, <2>6, <3>1 DEF IInv, DirsOk
  <2>8. Whole'
    <3> SUFFICES ASSUME ~outage, NEW w \in Versions, NEW n \in Names
                 PROVE  disk'[w].entries[n] = None \/ disk'[w].entries[n].bad = "no"
      BY <1>1 DEF Whole
    <3>1. disk[w].entries[n] = None \/ disk[w].entries[n].bad = "no"
      BY DEF IInv, Whole
    <3>2. CASE w # v
      BY <2>5, <3>1, <3>2
    <3>3. CASE w = v
      <4>1. disk[v].entries \in [Names -> Files \cup {None}]
        BY <1>1, DirFields
      <4>2. disk'[w].entries = [disk[v].entries EXCEPT ![m] = file]
        BY <2>4, <2>5, <3>3
      <4> QED BY <2>2, <3>1, <3>3, <4>1, <4>2
    <3> QED BY <3>2, <3>3
  <2> QED BY <1>1, <1>6, <2>5, <2>7, <2>8, DiskStep
<1> QED BY <1>7, <1>8 DEF Rename

\* A file of another build goes.
LEMMA RemoveFileStep ==
  ASSUME IInv, NEW p \in Procs, NEW v \in Versions, RemoveFile(p, v)
  PROVE  IInv'
<1>1. disk \in [Versions -> DirRec] /\ proc \in [Procs -> ProcRec]
      /\ UNCHANGED <<outage, misled>>
  BY DEF IInv, RemoveFile
<1>2. CASE \E q \in Writers(v) : proc' = [proc EXCEPT ![q].temp = None] /\ UNCHANGED disk
  <2>1. PICK q \in Procs : proc' = [proc EXCEPT ![q].temp = None] /\ UNCHANGED disk
    BY <1>2 DEF Writers
  <2>2. ProcOk(proc[q])
    BY DEF IInv
  <2>3. proc' = [proc EXCEPT ![q] = [proc[q] EXCEPT !.temp = None]]
    BY <1>1, <2>1
  <2> QED BY <1>1, <2>1, <2>2, <2>3, UntempedOk, ProcStep
<1>3. CASE \E n \in Names : disk' = [disk EXCEPT ![v].entries[n] = None] /\ UNCHANGED proc
  <2>1. PICK m \in Names : disk' = [disk EXCEPT ![v].entries[m] = None] /\ UNCHANGED proc
    BY <1>3
  <2> DEFINE d == [disk[v] EXCEPT !.entries[m] = None]
  <2>2. disk' = [disk EXCEPT ![v] = d]
    BY <1>1, <2>1
  <2>3. disk[v] \in DirRec /\ disk[v].entries \in [Names -> Files \cup {None}]
    BY <1>1, DirFields
  <2>4. /\ d \in DirRec /\ d.there = disk[v].there
        /\ d.entries = [disk[v].entries EXCEPT ![m] = None]
    BY <2>3 DEF DirRec
  <2> HIDE DEF d
  <2>5. /\ disk' \in [Versions -> DirRec] /\ disk'[v] = d
        /\ \A w \in Versions : w # v => disk'[w] = disk[w]
    BY <1>1, <2>2, <2>4
  <2>6. \A w \in Versions, n \in Names :
          disk'[w].entries[n] = None \/ disk'[w].entries[n] = disk[w].entries[n]
    BY <2>3, <2>4, <2>5
  <2>7. DirsOk'
    <3> SUFFICES ASSUME NEW w \in Versions, ~disk'[w].there
                 PROVE  /\ disk'[w].entries = [n \in Names |-> None]
                        /\ \A q \in Procs : proc'[q].version = w => proc'[q].temp = None
      BY DEF DirsOk
    <3>1. /\ disk[w].entries = [n \in Names |-> None]
          /\ \A q \in Procs : proc[q].version = w => proc[q].temp = None
      BY <2>4, <2>5 DEF IInv, DirsOk
    <3>2. disk'[w].entries = [n \in Names |-> None]
      BY <2>3, <2>4, <2>5, <3>1
    <3> QED BY <2>1, <3>1, <3>2
  <2>8. Whole'
    BY <1>1, <2>6 DEF IInv, Whole
  <2> QED BY <1>1, <2>1, <2>5, <2>7, <2>8 DEF IInv, NeverMisled
<1> QED BY <1>2, <1>3 DEF RemoveFile

\* A directory goes when it is empty.
LEMMA RemoveDirStep ==
  ASSUME IInv, NEW p \in Procs, NEW v \in Versions, RemoveDir(p, v)
  PROVE  IInv'
<1> DEFINE r == proc[p]
           x == [r EXCEPT !.victims = @ \ {v}]
<1>1. ProcOk(r) /\ r \in ProcRec /\ proc \in [Procs -> ProcRec]
      /\ r.victims \in SUBSET Versions
      /\ disk \in [Versions -> DirRec] /\ UNCHANGED <<outage, misled>>
      /\ proc' = [proc EXCEPT ![p] = x]
  BY ProcFields DEF IInv, ProcOk, RemoveDir
<1>2. /\ x \in ProcRec /\ x.pc = r.pc /\ x.job = r.job /\ x.jobs = r.jobs
      /\ x.temp = r.temp /\ x.version = r.version /\ x.client = r.client
      /\ x.want = r.want /\ x.owed = r.owed /\ x.up = r.up
  BY <1>1 DEF ProcRec
<1> HIDE DEF x
<1>3. Pending(x) = Pending(r)
  BY <1>2 DEF Pending
<1>4. ProcOk(x)
  BY <1>1, <1>2, <1>3 DEF ProcOk
<1>5. CASE disk' = disk
  BY <1>1, <1>2, <1>4, <1>5, ProcStep
<1>6. CASE Writers(v) = {} /\ disk' = [disk EXCEPT ![v] = NoDir]
  <2>1. NoDir \in DirRec /\ ~NoDir.there /\ NoDir.entries = [n \in Names |-> None]
    BY DEF NoDir, DirRec
  <2>2. /\ disk' \in [Versions -> DirRec] /\ disk'[v] = NoDir
        /\ \A w \in Versions : w # v => disk'[w] = disk[w]
    BY <1>1, <1>6, <2>1
  <2>3. \A q \in Procs : proc[q].version = v => proc[q].temp = None
    BY <1>6 DEF Writers
  <2>4. \A q \in Procs : proc'[q].version = proc[q].version /\ proc'[q].temp = proc[q].temp
    BY <1>1, <1>2
  <2>5. DirsOk'
    BY <2>1, <2>2, <2>3, <2>4 DEF IInv, DirsOk
  <2>6. Whole'
    BY <1>1, <2>1, <2>2 DEF IInv, Whole
  <2> QED BY <1>1, <1>4, <2>2, <2>5, <2>6, DiskStep
<1> QED BY <1>5, <1>6 DEF RemoveDir

\* Old temporaries of the same build go.
LEMMA SweepStep ==
  ASSUME IInv, NEW p \in Procs, NEW old \in SUBSET Procs, SweepTemps(p, old)
  PROVE  IInv'
<1>1. /\ proc \in [Procs -> ProcRec] /\ \A q \in Procs : ProcOk(proc[q])
      /\ proc[p].pc = "tidy" /\ UNCHANGED <<disk, outage, misled>>
      /\ proc' = [q \in Procs |->
           IF q = p THEN [proc[p] EXCEPT !.pc = "wait"]
           ELSE IF q \in old THEN [proc[q] EXCEPT !.temp = None] ELSE proc[q]]
  BY DEF IInv, SweepTemps, At
<1>2. ASSUME NEW q \in Procs
      PROVE  /\ ProcOk(proc'[q])
             /\ proc'[q].version = proc[q].version
             /\ proc'[q].temp = None \/ proc'[q].temp = proc[q].temp
  <2>1. CASE q = p
    <3> DEFINE r == proc[p]
               x == [r EXCEPT !.pc = "wait"]
    <3>1. proc'[q] = x /\ ProcOk(r) /\ r \in ProcRec /\ r.pc = "tidy"
      BY <1>1, <2>1 DEF ProcOk
    <3>2. /\ x \in ProcRec /\ x.pc = "wait" /\ x.job = r.job /\ x.jobs = r.jobs
          /\ x.temp = r.temp /\ x.version = r.version /\ x.client = r.client
          /\ x.want = r.want /\ x.owed = r.owed
      BY <3>1 DEF ProcRec
    <3> HIDE DEF x, r
    <3>3. Pending(x) = Pending(r)
      BY <3>2 DEF Pending
    <3>4. ProcOk(x)
      BY <3>1, <3>2, <3>3 DEF ProcOk, Busy
    <3> QED BY <2>1, <3>1, <3>2, <3>4 DEF r
  <2>2. CASE q # p /\ q \in old
    <3>1. proc'[q] = [proc[q] EXCEPT !.temp = None] /\ ProcOk(proc[q])
      BY <1>1, <2>2
    <3> QED BY <3>1, UntempedOk
  <2>3. CASE q # p /\ q \notin old
    BY <1>1, <2>3
  <2> QED BY <2>1, <2>2, <2>3
<1>3. proc' \in [Procs -> ProcRec]
  <2>1. \A q \in Procs : proc'[q] \in ProcRec
    BY <1>2 DEF ProcOk
  <2> QED BY <1>1, <2>1
<1>4. DirsOk'
  BY <1>1, <1>2 DEF IInv, DirsOk
<1>5. Whole' /\ NeverMisled'
  BY <1>1 DEF IInv, Whole, NeverMisled
<1> QED BY <1>1, <1>2, <1>3, <1>4, <1>5 DEF IInv

\* An outage ends every process and harms files.
LEMMA OutageStep ==
  ASSUME IInv, NEW lost \in SUBSET (Versions \X Names),
         NEW harm \in {"gone", "header", "payload"}, PowerFails(lost, harm)
  PROVE  IInv'
<1> DEFINE Harmed(v, n) ==
             IF <<v, n>> \notin lost \/ disk[v].entries[n] = None THEN disk[v].entries[n]
             ELSE IF harm = "gone" THEN None ELSE [disk[v].entries[n] EXCEPT !.bad = harm]
           Rest(v) == [disk[v] EXCEPT !.entries = [n \in Names |-> Harmed(v, n)]]
<1>1. disk \in [Versions -> DirRec] /\ outage' = TRUE /\ misled' = misled
      /\ proc' = [p \in Procs |-> Down]
  BY DEF IInv, PowerFails
<1>2. disk' = [v \in Versions |-> Rest(v)]
  BY DEF PowerFails
<1>3. ASSUME NEW v \in Versions, NEW n \in Names
      PROVE  Harmed(v, n) \in Files \cup {None}
  <2>1. disk[v].entries[n] \in Files \cup {None}
    BY <1>1, DirFields
  <2> QED BY <2>1 DEF Files, Damage
<1>4. ASSUME NEW v \in Versions
      PROVE  /\ Rest(v) \in DirRec /\ Rest(v).there = disk[v].there
             /\ Rest(v).entries = [n \in Names |-> Harmed(v, n)]
  <2> DEFINE e == [n \in Names |-> Harmed(v, n)]
  <2>1. e \in [Names -> Files \cup {None}]
    BY <1>3
  <2>2. disk[v] \in DirRec
    BY <1>1
  <2> HIDE DEF e
  <2>3. LET d == [disk[v] EXCEPT !.entries = e]
        IN  d \in DirRec /\ d.there = disk[v].there /\ d.entries = e
    BY <2>1, <2>2 DEF DirRec
  <2> QED BY <2>3 DEF e
<1>5. ASSUME NEW v \in Versions, NEW n \in Names
      PROVE  disk[v].entries[n] = None => Harmed(v, n) = None
  OBVIOUS
<1> HIDE DEF Harmed, Rest
<1>6. disk' \in [Versions -> DirRec] /\ \A v \in Versions : disk'[v] = Rest(v)
  BY <1>2, <1>4
<1>7. proc' \in [Procs -> ProcRec] /\ \A p \in Procs : ProcOk(proc'[p]) /\ proc'[p].temp = None
  BY <1>1, DownOk DEF ProcOk
<1>8. DirsOk'
  <2> SUFFICES ASSUME NEW v \in Versions, ~disk'[v].there
               PROVE  disk'[v].entries = [n \in Names |-> None]
    BY <1>7 DEF DirsOk
  <2>1. disk[v].entries = [n \in Names |-> None]
    BY <1>4, <1>6 DEF IInv, DirsOk
  <2>2. \A n \in Names : Harmed(v, n) = None
    BY <1>5, <2>1
  <2> QED BY <1>4, <1>6, <2>2
<1>9. Whole' /\ NeverMisled'
  BY <1>1 DEF IInv, Whole, NeverMisled
<1> QED BY <1>1, <1>6, <1>7, <1>8, <1>9 DEF IInv

-----------------------------------------------------------------------------
(* The theorems.                                                           *)

\* Nothing runs and nothing is stored.
LEMMA InitIInv == Init => IInv
<1> SUFFICES ASSUME Init PROVE IInv
  OBVIOUS
<1>1. NoDir \in DirRec /\ NoDir.entries = [n \in Names |-> None]
  BY DEF NoDir, DirRec
<1>2. disk \in [Versions -> DirRec] /\ \A v \in Versions : disk[v] = NoDir
  BY <1>1 DEF Init
<1>3. /\ proc \in [Procs -> ProcRec]
      /\ \A p \in Procs : ProcOk(proc[p]) /\ proc[p].temp = None
  BY DownOk DEF Init, ProcOk
<1>4. DirsOk
  BY <1>1, <1>2, <1>3 DEF DirsOk
<1>5. Whole
  BY <1>1, <1>2 DEF Whole
<1> QED BY <1>2, <1>3, <1>4, <1>5 DEF Init, IInv, NeverMisled

\* Every step keeps the invariant.
LEMMA NextIInv == IInv /\ [Next]_vars => IInv'
<1> SUFFICES ASSUME IInv, [Next]_vars PROVE IInv'
  OBVIOUS
<1>1. ASSUME NEW p \in Procs, Works(p)
      PROVE  IInv'
  <2>1. CASE \E victims \in SUBSET Versions : Stamp(p, victims)
    BY <2>1, StampStep
  <2>2. CASE \E old \in SUBSET Procs : SweepTemps(p, old)
    BY <2>2, SweepStep
  <2>3. CASE \E v \in Versions : RemoveFile(p, v) \/ RemoveDir(p, v)
    BY <2>3, RemoveFileStep, RemoveDirStep
  <2> QED BY <1>1, <2>1, <2>2, <2>3, WorkerStep, OpenStep, FillStep, RenameStep DEF Works
<1>2. CASE \E p \in Procs : End(p) \/ \E v \in Versions : Start(p, v)
  BY <1>2, LifeStep
<1>3. CASE \E p \in Procs :
        Compile(p) \/ Flush(p) \/ FlushWaits(p) \/ FlushReturns(p)
        \/ \E k \in Keys : Load(p, k)
  BY <1>3, CompileStep, FlushStep, LoadStep
<1>4. CASE \E lost \in SUBSET (Versions \X Names) :
             \E harm \in {"gone", "header", "payload"} : PowerFails(lost, harm)
  BY <1>4, OutageStep
<1>5. CASE UNCHANGED vars
  <2>1. UNCHANGED <<disk, proc, outage, misled>>
    BY <1>5 DEF vars
  <2> QED BY <2>1 DEF IInv, DirsOk, Whole, NeverMisled
<1> QED BY <1>1, <1>2, <1>3, <1>4, <1>5 DEF Next

\* The invariant holds throughout.
LEMMA Invariance == Spec => []IInv
BY InitIInv, NextIInv, PTL DEF Spec

\* Whatever names the hash gives to keys, and whatever other processes, crashes and
\* outages do to the files, a client gets the variant that it asked for (DecodeEntry).
THEOREM ClientsAreNotMisled == Spec => []NeverMisled
<1>1. IInv => NeverMisled
  BY DEF IInv
<1> QED BY <1>1, Invariance, PTL

\* Without an outage no entry is torn, for any number of processes that write, tidy
\* and die (WriteEntry).
THEOREM EntriesAreWhole == Spec => []VisibleIsWhole
<1>1. IInv => VisibleIsWhole
  <2> SUFFICES ASSUME IInv PROVE VisibleIsWhole
    OBVIOUS
  <2>1. disk \in [Versions -> [there : BOOLEAN, entries : [Names -> Files \cup {None}]]]
    BY DEF IInv, DirRec
  <2>2. \A v \in Versions : ~disk[v].there => disk[v] = NoDir /\ Writers(v) = {}
    <3> SUFFICES ASSUME NEW v \in Versions, ~disk[v].there
                 PROVE  disk[v] = NoDir /\ Writers(v) = {}
      OBVIOUS
    <3>1. /\ disk[v] \in DirRec /\ disk[v].entries = [n \in Names |-> None]
          /\ \A p \in Procs : proc[p].version = v => proc[p].temp = None
      BY DEF IInv, DirsOk
    <3>2. disk[v] = NoDir
      BY <3>1 DEF DirRec, NoDir
    <3> QED BY <3>1, <3>2 DEF Writers
  <2>3. \A p \in Procs :
          /\ proc[p].temp \in Files \cup {None}
          /\ proc[p].pc \in {"open", "fill", "rename", "written"} <=> Writing(p)
          /\ proc[p].temp # None => proc[p].pc \in {"fill", "rename"}
          /\ Len(proc[p].jobs) <= MaxJobs
    BY ProcFields DEF IInv, ProcOk, Busy, Writing
  <2> QED BY <2>1, <2>2, <2>3 DEF IInv, Whole, VisibleIsWhole, TypeOK
<1> QED BY <1>1, Invariance, PTL

\* A Flush that returns has seen every earlier job written or given up, and one that
\* sleeps will be woken (DiskStore::Flush).
THEOREM FlushIsSound == Spec => []FlushCovers
<1>1. IInv => FlushCovers
  <2> SUFFICES ASSUME IInv, NEW p \in Procs
               PROVE  /\ Client(p, "flushed") => proc[p].owed = 0
                      /\ Client(p, "asleep") => ~Flushed(p)
    BY DEF FlushCovers
  <2>1. ProcOk(proc[p])
    BY DEF IInv
  <2>2. Flushed(p) => Pending(proc[p]) = 0
    BY DEF Flushed, Writing, Pending
  <2> QED BY <2>1, <2>2 DEF ProcOk, Client
<1> QED BY <1>1, Invariance, PTL

===============================================================================
