------------------------------ MODULE ShaderCapture ------------------------------
(***************************************************************************)
(* What a submission does about the shaders that the guest has loaded:     *)
(* SubmitDescriptors and the capture leg of RunGpuPathEvidence             *)
(* (gpu/gnm/gnm_submit.cpp), ShaderCapture::CaptureAndRecompile            *)
(* (gpu/shader/shader_capture.cpp) and the service it asks for SPIR-V,     *)
(* GuestShaderRecompiler (gpu/shader/shader_recompiler_service.cpp).       *)
(*                                                                         *)
(* A stage remembers the program it tried last: one that was captured, and *)
(* delivered where a sink for modules is registered, is not read again,    *)
(* and one that fails is tried a few times.  The service is shared with    *)
(* the device's own proof (gpu/vulkan_device.cpp) and compiles outside its *)
(* mutex.  The guest rewrites and unmaps its code at any time.             *)
(*                                                                         *)
(* Submissions are assumed to come one at a time.  The code does not see   *)
(* to it: neither GnmSubmit nor the import that calls it takes a lock, and *)
(* two guest threads that submit at once would race for everything here.   *)
(* A shader's interface (user data, threads, wave size) is part of its     *)
(* code here, and two inputs never share a hash.                           *)
(***************************************************************************)
EXTENDS Integers, Sequences, FiniteSets

CONSTANTS
  Stages,       \* as a sequence: the order in which they are visited
  Programs,     \* addresses of code
  Codes,        \* what can stand there
  Rejected,     \* what the recompiler refuses
  None,         \* no program; nothing readable
  MaxAttempts,  \* kMaxCaptureAttemptsPerVaddr
  MaxCache,     \* kMaxCacheEntries
  MaxOutcomes,  \* kMaxCaptureOutcomes
  MaxBuffers,   \* buffers that are submitted
  MaxRewrites,  \* changes of the guest's code
  MaxProofs     \* requests by the device's proof

S == {Stages[i] : i \in DOMAIN Stages}
Metas == [stage : S, code : Codes]

ASSUME CaptureConstants ==
  /\ Stages \in Seq(S) /\ Stages # <<>>
  /\ Rejected \subseteq Codes /\ None \notin Programs \cup Codes \cup Metas
  /\ {MaxAttempts, MaxCache, MaxOutcomes} \subseteq Nat \ {0}
  /\ {MaxBuffers, MaxRewrites, MaxProofs} \subseteq Nat

VARIABLES
  code,      \* the guest's memory: what stands at an address
  loaded,    \* the program registers of every stage
  sink,      \* a sink for modules is registered
  memo,      \* StageMemo of every stage
  outcomes,  \* the last outcomes
  count,     \* counters of GnmSubmit
  submit,    \* the submission that is under way
  proof,     \* the request of the device's proof
  service,   \* GuestShaderRecompiler
  seen       \* ghost: what has happened so far

vars == <<code, loaded, sink, memo, outcomes, count, submit, proof, service, seen>>

NoMemo == [vaddr |-> None, attempts |-> 0, ok |-> FALSE, tried |-> FALSE,
           moduleOk |-> FALSE]
Idle   == [pc |-> "idle", at |-> 0, left |-> 0, rc |-> 0, meta |-> None]

Init ==
  /\ code \in [Programs -> Codes]
  /\ loaded = [s \in S |-> None]
  /\ sink = FALSE
  /\ memo = [s \in S |-> NoMemo]
  /\ outcomes = <<>>
  /\ count = [attempts |-> 0, ok |-> 0, skips |-> 0, modules |-> 0, moduleFailures |-> 0]
  /\ submit = Idle
  /\ proof = None
  /\ service = [cache |-> {}, cached |-> 0, recompiles |-> 0, hits |-> 0, failures |-> 0]
  /\ seen = [buffers |-> 0, rewrites |-> 0, proofs |-> 0, asked |-> 0, visits |-> 0,
             bad |-> FALSE, captured |-> {}, delivered |-> {},
             tries |-> [s \in S |-> 0], changes |-> [s \in S |-> 0]]

-----------------------------------------------------------------------------
(* The service.  `v' is its state.                                         *)

Cached(v, meta) == \E e \in v.cache : e.meta = meta

Hit(v)    == [v EXCEPT !.hits = @ + 1]
Failed(v) == [v EXCEPT !.failures = @ + 1]

\* A full cache is emptied first.  An entry that came in meanwhile stays.
Inserted(v, meta, of) ==
  LET kept == IF Cardinality(v.cache) >= MaxCache THEN {} ELSE v.cache
      now  == IF \E e \in kept : e.meta = meta THEN kept
              ELSE kept \cup {[meta |-> meta, of |-> of]}
  IN [v EXCEPT !.recompiles = @ + 1, !.cache = now, !.cached = Cardinality(now)]

\* A mistake: the recompiler walks the guest's memory, not the copy.
Compiled_InPlace(meta, now) == now

\* The copy that was read, whatever stands in memory by `now'.
Compiled(meta, now) == meta.code

-----------------------------------------------------------------------------
(* The guest, the engine, and the device's proof.                          *)

Rewrite(p, c) ==
  /\ seen.rewrites < MaxRewrites /\ code[p] # c
  /\ code' = [code EXCEPT ![p] = c]
  /\ seen' = [seen EXCEPT !.rewrites = @ + 1]
  /\ UNCHANGED <<loaded, sink, memo, outcomes, count, submit, proof, service>>

SetShaderModuleSink ==
  /\ ~sink /\ submit.pc = "idle"
  /\ sink' = TRUE
  /\ UNCHANGED <<code, loaded, memo, outcomes, count, submit, proof, service, seen>>

\* The proof has compute shaders of its own.
ProofAsks(meta) ==
  /\ meta.stage = "compute"
  /\ proof = None /\ seen.proofs < MaxProofs
  /\ seen' = [seen EXCEPT !.proofs = @ + 1, !.asked = @ + 1]
  /\ IF Cached(service, meta)
     THEN service' = Hit(service) /\ UNCHANGED proof
     ELSE proof' = meta /\ UNCHANGED service
  /\ UNCHANGED <<code, loaded, sink, memo, outcomes, count, submit>>

ProofCompiles ==
  /\ proof # None
  /\ service' = IF proof.code \in Rejected THEN Failed(service)
                ELSE Inserted(service, proof, proof.code)
  /\ proof' = None
  /\ UNCHANGED <<code, loaded, sink, memo, outcomes, count, submit, seen>>

-----------------------------------------------------------------------------
(* The submission.                                                         *)

SubmitDescriptors(n) ==
  /\ submit.pc = "idle" /\ seen.buffers + n <= MaxBuffers
  /\ submit' = [Idle EXCEPT !.pc = "next", !.left = n]
  /\ seen' = [seen EXCEPT !.buffers = @ + n, !.bad = FALSE]
  /\ UNCHANGED <<code, loaded, sink, memo, outcomes, count, proof, service>>

\* A mistake: a good buffer clears the error of an earlier one.
Taken_ClearsError(sub) == [sub EXCEPT !.pc = "stage", !.at = 1, !.left = @ - 1, !.rc = 0]

Taken(sub) == [sub EXCEPT !.pc = "stage", !.at = 1, !.left = @ - 1]

\* A descriptor with a bad size or address is passed over.
BadBuffer ==
  /\ submit.pc = "next" /\ submit.left > 0
  /\ submit' = [submit EXCEPT !.left = @ - 1, !.rc = -1]
  /\ seen' = [seen EXCEPT !.bad = TRUE]
  /\ UNCHANGED <<code, loaded, sink, memo, outcomes, count, proof, service>>

\* The packets of a buffer load programs, or none.
Buffer(programs) ==
  /\ submit.pc = "next" /\ submit.left > 0
  /\ loaded' = programs
  /\ submit' = Taken(submit)
  /\ UNCHANGED <<code, sink, memo, outcomes, count, proof, service, seen>>

SubmitReturns ==
  /\ submit.pc = "next" /\ submit.left = 0
  /\ submit' = [submit EXCEPT !.pc = "idle"]
  /\ UNCHANGED <<code, loaded, sink, memo, outcomes, count, proof, service, seen>>

Stage == Stages[submit.at]
AtStage == submit.pc = "stage" /\ submit.at \in DOMAIN Stages

Onward(sub) ==
  IF sub.at = Len(Stages) THEN [sub EXCEPT !.pc = "next", !.at = 0, !.meta = None]
  ELSE [sub EXCEPT !.pc = "stage", !.at = @ + 1, !.meta = None]

\* The memo is about the program that is loaded now.
Same(m, p) == m.tried /\ m.vaddr = p
Pinned(m)  == m.ok /\ (sink => m.moduleOk)

\* A mistake: the program is replaced in the memo and its verdict stays.
Renewed_KeepsVerdict(m, p) == [m EXCEPT !.vaddr = p, !.tried = TRUE, !.attempts = 0]

Renewed(m, p) == [NoMemo EXCEPT !.vaddr = p, !.tried = TRUE]

\* A mistake: an attempt is counted when the capture has come back with a program.
Attempted_WhenRead(m, p) ==
  LET n == IF Same(m, p) THEN m ELSE Renewed(m, p)
  IN IF code[p] = None THEN n ELSE [n EXCEPT !.attempts = @ + 1]

Attempted(m, p) ==
  LET n == IF Same(m, p) THEN m ELSE Renewed(m, p)
  IN [n EXCEPT !.attempts = @ + 1]

NoProgram ==
  /\ AtStage /\ loaded[Stage] = None
  /\ submit' = Onward(submit)
  /\ UNCHANGED <<code, loaded, sink, memo, outcomes, count, proof, service, seen>>

Skips(m, p) == Same(m, p) /\ (Pinned(m) \/ m.attempts >= MaxAttempts)

Skip ==
  /\ AtStage /\ loaded[Stage] # None
  /\ Skips(memo[Stage], loaded[Stage])
  /\ count' = [count EXCEPT !.skips = @ + 1]
  /\ seen' = [seen EXCEPT !.visits = @ + 1]
  /\ submit' = Onward(submit)
  /\ UNCHANGED <<code, loaded, sink, memo, outcomes, proof, service>>

\* The code is copied, all of it or nothing, and the service looks it up.
Capture ==
  LET p == loaded[Stage]
      c == code[p]
      meta == [stage |-> Stage, code |-> c]
  IN
  /\ AtStage /\ p # None
  /\ ~Skips(memo[Stage], p)
  /\ memo' = [memo EXCEPT ![Stage] = Attempted(@, p)]
  /\ count' = [count EXCEPT !.attempts = @ + 1]
  /\ seen' = [seen EXCEPT !.visits = @ + 1, !.tries[Stage] = @ + 1,
                !.changes[Stage] = IF Same(memo[Stage], p) THEN @ ELSE @ + 1,
                !.asked = IF c = None THEN @ ELSE @ + 1]
  /\ \/ /\ c = None
        /\ submit' = [submit EXCEPT !.pc = "failed"] /\ UNCHANGED service
     \/ /\ c # None /\ Cached(service, meta)
        /\ submit' = [submit EXCEPT !.pc = "captured"] /\ service' = Hit(service)
     \/ /\ c # None /\ ~Cached(service, meta)
        /\ submit' = [submit EXCEPT !.pc = "compile", !.meta = meta]
        /\ UNCHANGED service
  /\ UNCHANGED <<code, loaded, sink, outcomes, proof>>

Compile ==
  LET of == Compiled(submit.meta, code[loaded[Stage]]) IN
  /\ submit.pc = "compile"
  /\ IF of \in Rejected \cup {None}
     THEN /\ service' = Failed(service)
          /\ submit' = [submit EXCEPT !.pc = "failed"]
     ELSE /\ service' = Inserted(service, submit.meta, of)
          /\ submit' = [submit EXCEPT !.pc = "captured"]
  /\ UNCHANGED <<code, loaded, sink, memo, outcomes, count, proof, seen>>

Pushed(log, o) ==
  IF Len(log) < MaxOutcomes THEN Append(log, o) ELSE Append(Tail(log), o)

Outcome(ok) == [stage |-> Stage, vaddr |-> loaded[Stage], ok |-> ok]

CaptureFails ==
  /\ submit.pc = "failed"
  /\ outcomes' = Pushed(outcomes, Outcome(FALSE))
  /\ submit' = Onward(submit)
  /\ UNCHANGED <<code, loaded, sink, memo, count, proof, service, seen>>

\* Without a sink the SPIR-V goes no further; a sink may fail.
Deliver(moduleOk) ==
  /\ submit.pc = "captured"
  /\ moduleOk => sink
  /\ memo' = [memo EXCEPT ![Stage].ok = TRUE, ![Stage].moduleOk = @ \/ moduleOk]
  /\ count' = [count EXCEPT !.ok = @ + 1,
                 !.modules = IF moduleOk THEN @ + 1 ELSE @,
                 !.moduleFailures = IF sink /\ ~moduleOk THEN @ + 1 ELSE @]
  /\ seen' = [seen EXCEPT
       !.captured = @ \cup {<<Stage, loaded[Stage]>>},
       !.delivered = IF moduleOk THEN @ \cup {<<Stage, loaded[Stage]>>} ELSE @]
  /\ outcomes' = Pushed(outcomes, Outcome(TRUE))
  /\ submit' = Onward(submit)
  /\ UNCHANGED <<code, loaded, sink, proof, service>>

Submission ==
  \/ BadBuffer \/ SubmitReturns \/ NoProgram \/ Skip \/ Capture \/ Compile
  \/ CaptureFails
  \/ \E programs \in [S -> Programs \cup {None}] : Buffer(programs)
  \/ \E moduleOk \in BOOLEAN : Deliver(moduleOk)

\* The guest submits no more.
Rest == submit.pc = "idle" /\ seen.buffers = MaxBuffers /\ UNCHANGED vars

Next ==
  \/ Submission \/ SetShaderModuleSink \/ ProofCompiles
  \/ \E n \in 1 .. MaxBuffers : SubmitDescriptors(n)
  \/ \E p \in Programs, c \in Codes \cup {None} : Rewrite(p, c)
  \/ \E meta \in Metas : ProofAsks(meta)
  \/ Rest

Spec == Init /\ [][Next]_vars

-----------------------------------------------------------------------------
TypeOK ==
  /\ code \in [Programs -> Codes \cup {None}]
  /\ loaded \in [S -> Programs \cup {None}]
  /\ \A s \in S : memo[s].vaddr \in Programs \cup {None} /\ memo[s].attempts \in 0 .. MaxAttempts
  /\ submit.at \in 0 .. Len(Stages) /\ submit.meta \in Metas \cup {None}
  /\ proof \in Metas \cup {None}
  /\ Len(outcomes) <= MaxOutcomes

\* Nothing goes unaccounted, with the proof's requests in between: every visit of a
\* stage with a program is an attempt or a skip, every request to the service becomes
\* a hit, a recompilation or a failure, the cache keeps to its limit and reports its
\* size, and the submission's result tells of a bad buffer, also of one followed by
\* good ones.
Accounted ==
  LET waiting == (IF proof # None THEN 1 ELSE 0)
                 + (IF submit.pc = "compile" THEN 1 ELSE 0)
  IN /\ TypeOK
     /\ count.attempts + count.skips = seen.visits
     /\ count.modules + count.moduleFailures <= count.ok
     /\ service.recompiles + service.hits + service.failures + waiting = seen.asked
     /\ service.cached = Cardinality(service.cache)
     /\ service.cached <= MaxCache
     /\ (submit.rc # 0) = seen.bad

\* What pins a program is true of that program: it was captured, and a module of it was
\* delivered if the memo says so ("success pins the vaddr until the stream loads a
\* different program", gnm_submit.h:169-170).
PinnedIsDelivered ==
  \A s \in S :
    /\ memo[s].ok => <<s, memo[s].vaddr>> \in seen.captured
    /\ memo[s].moduleOk => <<s, memo[s].vaddr>> \in seen.delivered

\* What the service hands out for a piece of code was compiled from that code, though
\* the guest may rewrite it while it is compiled.
CacheIsFaithful == \A e \in service.cache : e.of = e.meta.code

\* A stage reads guest memory at most MaxAttempts times for each time that it turned
\* to another program.
CostBounded ==
  \A s \in S : seen.tries[s] <= MaxAttempts * seen.changes[s]
=============================================================================
