---------------------------- MODULE ShaderDiskCache ----------------------------
(***************************************************************************)
(* The directory of compiled shaders that runs of the program share:       *)
(* DiskStore (gpu/shader_recompiler/ShaderDiskCache.cpp), the files it     *)
(* writes and reads (ShaderCacheDirectory.hpp), and the client that asks   *)
(* for variants (findOrCompileVariant, Recompiler.cpp).                    *)
(*                                                                         *)
(* Every build has a directory of its own below the root.  A process has a *)
(* worker thread, which tidies the root and then writes the variants that  *)
(* its client has compiled.  Processes start, are killed and lose power at *)
(* any point, and any write can fail.  Time is left out: a directory of    *)
(* another build may have been unused for two weeks whenever it is looked  *)
(* at, and a temporary may be over an hour old, even that of a live writer *)
(* when the machine has slept.  Temporaries without a writer have no       *)
(* effect and are left out too.                                            *)
(***************************************************************************)
EXTENDS Integers, Sequences

CONSTANTS
  Procs,     \* processes that share the root
  Versions,  \* builds, by SourceVersion()
  Keys,      \* what variants are compiled for (BuildKey)
  Name,      \* EntryName: two 64-bit hashes of the key, so keys may share one
  MaxStarts, \* how often a process starts
  MaxJobs,   \* most jobs in a queue
  None       \* no file, no job, no build

ASSUME DiskConstants ==
  /\ MaxStarts \in Nat /\ MaxJobs \in Nat
  /\ None \notin Versions \cup Keys

VARIABLES
  disk,    \* the directory of every build
  proc,    \* the processes
  starts,  \* how often each has started
  outage,  \* the power has failed once
  misled   \* a client was served a variant that is not the one it asked for

vars == <<disk, proc, starts, outage, misled>>

Names == {Name[k] : k \in Keys}

\* A file holds the variant of a key as one build compiled it.  `bad' says what of
\* it is lost: the header or the key, or the payload alone.
Damage == {"no", "header", "payload"}
Files  == [key : Keys, version : Versions, bad : Damage]

NoDir == [there |-> FALSE, entries |-> [n \in Names |-> None]]

\* `temp' is the temporary that the worker is writing.  Temporaries carry a serial
\* number: no two are the same file.
Down == [up |-> FALSE, version |-> None, pc |-> "down", victims |-> {}, jobs |-> <<>>,
         job |-> None, temp |-> None,
         client |-> "idle", want |-> None, owed |-> 0]

Init ==
  /\ disk = [v \in Versions |-> NoDir]
  /\ proc = [p \in Procs |-> Down]
  /\ starts = [p \in Procs |-> 0]
  /\ outage = FALSE /\ misled = FALSE

At(p, pc) == proc[p].pc = pc
Client(p, pc) == proc[p].up /\ proc[p].client = pc
Writing(p) == proc[p].job # None
Dir(p) == disk[proc[p].version]

-----------------------------------------------------------------------------
(* Processes begin and end.                                                *)

\* The store, with its worker, is made by the first call of the process.
Start(p, v) ==
  /\ ~proc[p].up /\ starts[p] < MaxStarts
  /\ proc' = [proc EXCEPT ![p] = [Down EXCEPT !.up = TRUE, !.version = v, !.pc = "stamp"]]
  /\ starts' = [starts EXCEPT ![p] = @ + 1]
  /\ UNCHANGED <<disk, outage, misled>>

\* The worker is detached: nothing waits for it, and its temporary is abandoned.
End(p) ==
  /\ proc[p].up
  /\ proc' = [proc EXCEPT ![p] = Down]
  /\ UNCHANGED <<disk, starts, outage, misled>>

\* No file is synced: an outage can take or tear any of them.
PowerFails(lost, harm) ==
  /\ ~outage
  /\ outage' = TRUE
  /\ disk' = [v \in Versions |-> [disk[v] EXCEPT !.entries = [n \in Names |->
       IF <<v, n>> \notin lost \/ @[n] = None THEN @[n]
       ELSE IF harm = "gone" THEN None ELSE [@[n] EXCEPT !.bad = harm]]]]
  /\ proc' = [p \in Procs |-> Down]
  /\ UNCHANGED <<starts, misled>>

-----------------------------------------------------------------------------
(* The worker: housekeeping.                                               *)

Made(dir) == [dir EXCEPT !.there = TRUE]

\* Creates and stamps the directory of this build, then looks for other ones that
\* have not been used for long.
Stamp(p, victims) ==
  /\ At(p, "stamp")
  /\ victims \subseteq {v \in Versions \ {proc[p].version} : disk[v].there}
  /\ disk' = [disk EXCEPT ![proc[p].version] = Made(@)]
  /\ proc' = [proc EXCEPT ![p].pc = "tidy", ![p].victims = victims]
  /\ UNCHANGED <<starts, outage, misled>>

Writers(v) == {p \in Procs : proc[p].version = v /\ proc[p].temp # None}

\* remove_all takes the files one by one, and the directory when it is empty; what
\* is created meanwhile, or cannot be removed, stays, and the directory with it.
RemoveFile(p, v) ==
  /\ At(p, "tidy") /\ v \in proc[p].victims
  /\ \/ \E n \in Names :
          /\ disk[v].entries[n] # None
          /\ disk' = [disk EXCEPT ![v].entries[n] = None]
          /\ UNCHANGED proc
     \/ \E q \in Writers(v) :
          /\ proc' = [proc EXCEPT ![q].temp = None]
          /\ UNCHANGED disk
  /\ UNCHANGED <<starts, outage, misled>>

RemoveDir(p, v) ==
  /\ At(p, "tidy") /\ v \in proc[p].victims
  /\ disk' = IF disk[v] = Made(NoDir) /\ Writers(v) = {}
             THEN [disk EXCEPT ![v] = NoDir] ELSE disk
  /\ proc' = [proc EXCEPT ![p].victims = @ \ {v}]
  /\ UNCHANGED <<starts, outage, misled>>

\* Temporaries of this build that are old are removed.
SweepTemps(p, old) ==
  /\ At(p, "tidy") /\ proc[p].victims = {}
  /\ old \subseteq Writers(proc[p].version)
  /\ proc' = [q \in Procs |->
       IF q = p THEN [proc[p] EXCEPT !.pc = "wait"]
       ELSE IF q \in old THEN [proc[q] EXCEPT !.temp = None] ELSE proc[q]]
  /\ UNCHANGED <<disk, starts, outage, misled>>

-----------------------------------------------------------------------------
(* The worker: jobs.                                                       *)

\* The client is woken when the queue has run dry, and looks again.
Woken(r) == IF r.client = "asleep" THEN [r EXCEPT !.client = "flush"] ELSE r

NextJob(r) ==
  IF r.jobs = <<>> THEN Woken([r EXCEPT !.pc = "wait", !.job = None])
  ELSE [r EXCEPT !.pc = "open", !.job = Head(r.jobs), !.jobs = Tail(r.jobs)]

\* Woken by a job, or after ten seconds by none.
Wake(p) ==
  /\ At(p, "wait")
  /\ proc' = [proc EXCEPT ![p] = NextJob(@)]
  /\ UNCHANGED <<disk, starts, outage, misled>>

\* The directory is created if it is gone, which can fail, as can the file.
OpenTemp(p) ==
  /\ At(p, "open")
  /\ \/ /\ disk' = [disk EXCEPT ![proc[p].version] = Made(@)]
        /\ proc' = [proc EXCEPT ![p].pc = "fill",
             ![p].temp = [key |-> proc[p].job, version |-> proc[p].version, bad |-> "header"]]
     \/ /\ disk' \in {disk, [disk EXCEPT ![proc[p].version] = Made(@)]}
        /\ proc' = [proc EXCEPT ![p].pc = "written"]
  /\ UNCHANGED <<starts, outage, misled>>

Dropped(r) == [r EXCEPT !.pc = "written", !.temp = None]

FillTemp_Unchecked(p) ==
  /\ At(p, "fill")
  /\ \/ proc' = [proc EXCEPT ![p].pc = "rename",
          ![p].temp = IF @ = None THEN None ELSE [@ EXCEPT !.bad = "no"]]
     \/ proc' = [proc EXCEPT ![p].pc = "rename"]
  /\ UNCHANGED <<disk, starts, outage, misled>>

\* A write that fails removes the temporary.
FillTemp(p) ==
  /\ At(p, "fill")
  /\ \/ proc' = [proc EXCEPT ![p].pc = "rename",
          ![p].temp = IF @ = None THEN None ELSE [@ EXCEPT !.bad = "no"]]
     \/ proc' = [proc EXCEPT ![p] = Dropped(@)]
  /\ UNCHANGED <<disk, starts, outage, misled>>

\* The temporary replaces the entry in one step.  It fails when another process has
\* removed the temporary, or for a reason of its own.
Rename(p) ==
  /\ At(p, "rename")
  /\ \/ /\ proc[p].temp # None
        /\ disk' = [disk EXCEPT ![proc[p].version].entries[Name[proc[p].job]] = proc[p].temp]
     \/ UNCHANGED disk
  /\ proc' = [proc EXCEPT ![p] = Dropped(@)]
  /\ UNCHANGED <<starts, outage, misled>>

\* `owed' counts the jobs that a waiting Flush has been called after.
Paid(r) == [r EXCEPT !.owed = IF @ > 0 THEN @ - 1 ELSE 0]

Written(p) ==
  /\ At(p, "written")
  /\ proc' = [proc EXCEPT ![p] = NextJob(Paid(@))]
  /\ UNCHANGED <<disk, starts, outage, misled>>

-----------------------------------------------------------------------------
(* The client.                                                             *)

\* DecodeEntry compares the header, the key and the payload in this order.
Decode_AnyKey(file, v, k) ==
  IF file = None THEN "absent"
  ELSE IF file.bad = "header" \/ file.version # v THEN "rejected"
  ELSE IF file.bad = "payload" THEN "rejected"
  ELSE "loaded"

Decode(file, v, k) ==
  IF file = None THEN "absent"
  ELSE IF file.bad = "header" \/ file.version # v THEN "rejected"
  ELSE IF file.key # k THEN "mismatch"
  ELSE IF file.bad = "payload" THEN "rejected"
  ELSE "loaded"

\* A file that is read stays as it is: an entry is replaced or removed, never
\* written to.
Load(p, k) ==
  LET file == Dir(p).entries[Name[k]]
  IN  /\ Client(p, "idle")
      /\ IF Decode(file, proc[p].version, k) = "loaded"
         THEN /\ misled' = (misled \/ file # [key |-> k, version |-> proc[p].version, bad |-> "no"])
              /\ UNCHANGED proc
         ELSE /\ proc' = [proc EXCEPT ![p].client = "compile", ![p].want = k]
              /\ UNCHANGED misled
      /\ UNCHANGED <<disk, starts, outage>>

\* The emission can fail, and then nothing is stored.
Compile(p) ==
  /\ Client(p, "compile")
  /\ \/ /\ Len(proc[p].jobs) < MaxJobs
        /\ proc' = [proc EXCEPT ![p].client = "idle", ![p].want = None,
             ![p].jobs = Append(@, proc[p].want)]
     \/ proc' = [proc EXCEPT ![p].client = "idle", ![p].want = None]
  /\ UNCHANGED <<disk, starts, outage, misled>>

Flush(p) ==
  /\ Client(p, "idle")
  /\ proc' = [proc EXCEPT ![p].client = "flush",
       ![p].owed = Len(proc[p].jobs) + IF Writing(p) THEN 1 ELSE 0]
  /\ UNCHANGED <<disk, starts, outage, misled>>

Flushed_QueueOnly(p) == proc[p].jobs = <<>>
Flushed(p) == proc[p].jobs = <<>> /\ ~Writing(p)

FlushWaits(p) ==
  /\ Client(p, "flush")
  /\ proc' = [proc EXCEPT ![p].client = IF Flushed(p) THEN "flushed" ELSE "asleep"]
  /\ UNCHANGED <<disk, starts, outage, misled>>

FlushReturns(p) ==
  /\ Client(p, "flushed")
  /\ proc' = [proc EXCEPT ![p].client = "idle", ![p].owed = 0]
  /\ UNCHANGED <<disk, starts, outage, misled>>

-----------------------------------------------------------------------------
Works(p) ==
  \/ \E victims \in SUBSET Versions : Stamp(p, victims)
  \/ \E old \in SUBSET Procs : SweepTemps(p, old)
  \/ Wake(p)
  \/ \E v \in Versions : RemoveFile(p, v) \/ RemoveDir(p, v)
  \/ OpenTemp(p) \/ FillTemp(p) \/ Rename(p) \/ Written(p)

Next ==
  \/ \E p \in Procs :
       \/ End(p) \/ Works(p) \/ Compile(p) \/ Flush(p) \/ FlushWaits(p) \/ FlushReturns(p)
       \/ \E v \in Versions : Start(p, v)
       \/ \E k \in Keys : Load(p, k)
  \/ \E lost \in SUBSET (Versions \X Names) :
       \E harm \in {"gone", "header", "payload"} : PowerFails(lost, harm)

Spec == Init /\ [][Next]_vars

-----------------------------------------------------------------------------
(* Properties.                                                             *)

\* Types: files are in directories that exist, under the names of their keys, and
\* what a worker is at agrees with its job and its temporary.
TypeOK ==
  /\ disk \in [Versions -> [there : BOOLEAN, entries : [Names -> Files \cup {None}]]]
  /\ \A v \in Versions : ~disk[v].there => disk[v] = NoDir /\ Writers(v) = {}
  /\ \A p \in Procs :
       /\ proc[p].temp \in Files \cup {None}
       /\ proc[p].pc \in {"open", "fill", "rename", "written"} <=> Writing(p)
       /\ proc[p].temp # None => proc[p].pc \in {"fill", "rename"}
       /\ Len(proc[p].jobs) <= MaxJobs

\* A client is served exactly the variant it asked for: keys that share a file name,
\* torn files and files of other builds are told apart and lead to a recompilation.
NeverMisled == ~misled

\* An entry is visible whole or not at all: killed writers, failed writes and
\* housekeeping of other processes never leave part of one.  Only an outage does.
VisibleIsWhole ==
  /\ TypeOK
  /\ ~outage => \A v \in Versions, n \in Names :
       disk[v].entries[n] = None \/ disk[v].entries[n].bad = "no"

\* Flush returns only when every job stored before the call has been tried, and
\* sleeps only while there is one to wait for.
FlushCovers ==
  \A p \in Procs :
    /\ Client(p, "flushed") => proc[p].owed = 0
    /\ Client(p, "asleep") => ~Flushed(p)
=============================================================================
