---------------------------- MODULE GnmSubmit_proofs ----------------------------
(***************************************************************************)
(* Proofs about what a submission does, in two parts.                      *)
(*                                                                         *)
(* ShaderCapture, for any number of stages, programs, codes, attempts and  *)
(* cache entries: what the memo of a stage says is true, the service's     *)
(* entries belong to their keys, reading is bounded, and the counters are  *)
(* exact.                                                                  *)
(*                                                                         *)
(* GnmStream, for any packets, buffers and capacities of the logs: what is *)
(* lowered are the guest's own operations, no write goes uncounted, and    *)
(* the render passes are the stretches between dispatches.                 *)
(***************************************************************************)
EXTENDS ShaderCapture, GnmStream, FiniteSetTheorems, WellFoundedInduction, TLAPS

MemoRec == [vaddr : Programs \cup {None}, attempts : 0 .. MaxAttempts,
            ok : BOOLEAN, tried : BOOLEAN, moduleOk : BOOLEAN]
SubmitRec == [pc : {"idle", "next", "stage", "compile", "captured", "failed"},
              at : 0 .. Len(Stages), left : Int, rc : Int, meta : Metas \cup {None}]
CountRec == [attempts : Nat, ok : Nat, skips : Nat, modules : Nat, moduleFailures : Nat]
ServiceRec == [cache : SUBSET [meta : Metas, of : Codes], cached : Nat,
               recompiles : Nat, hits : Nat, failures : Nat]
SeenRec == [buffers : Nat, rewrites : Nat, proofs : Nat, asked : Nat, visits : Nat,
            bad : BOOLEAN, captured : SUBSET (S \X (Programs \cup {None})),
            delivered : SUBSET (S \X (Programs \cup {None})),
            tries : [S -> Nat], changes : [S -> Nat]]

\* The type of every variable; the outcomes are counted only.
Types ==
  /\ code \in [Programs -> Codes \cup {None}]
  /\ loaded \in [S -> Programs \cup {None}]
  /\ sink \in BOOLEAN
  /\ memo \in [S -> MemoRec]
  /\ outcomes \in Seq([stage : S, vaddr : Programs \cup {None}, ok : BOOLEAN])
  /\ Len(outcomes) <= MaxOutcomes
  /\ count \in CountRec
  /\ submit \in SubmitRec
  /\ proof \in Metas \cup {None}
  /\ service \in ServiceRec
  /\ seen \in SeenRec

\* While a stage is tried its memo is about the program that is loaded.
Trying ==
  /\ submit.pc = "stage" => submit.at \in DOMAIN Stages
  /\ submit.pc \in {"compile", "captured", "failed"} =>
       /\ submit.at \in DOMAIN Stages
       /\ loaded[Stage] # None
       /\ memo[Stage].tried /\ memo[Stage].vaddr = loaded[Stage]
  /\ submit.pc = "compile" => submit.meta \in Metas

\* The attempts that a stage still has with its program are part of its budget.
Budget ==
  \A s \in S :
    IF memo[s].tried
    THEN seen.tries[s] + MaxAttempts <= MaxAttempts * seen.changes[s] + memo[s].attempts
    ELSE seen.tries[s] = 0 /\ seen.changes[s] = 0

CacheBounded ==
  /\ IsFiniteSet(service.cache)
  /\ service.cached = Cardinality(service.cache)
  /\ service.cached <= MaxCache

Waiting == (IF proof # None THEN 1 ELSE 0) + (IF submit.pc = "compile" THEN 1 ELSE 0)

Counts ==
  /\ count.attempts + count.skips = seen.visits
  /\ count.modules + count.moduleFailures <= count.ok
  /\ service.recompiles + service.hits + service.failures + Waiting = seen.asked
  /\ (submit.rc # 0) = seen.bad

IInv == Types /\ Trying /\ PinnedIsDelivered /\ CacheIsFaithful /\ Budget /\ CacheBounded /\ Counts

-----------------------------------------------------------------------------
(* The constants, and the fields of the records.                           *)

\* The stages are visited from the first to the last.
LEMMA StageFacts ==
  /\ Len(Stages) \in Nat \ {0}
  /\ DOMAIN Stages = 1 .. Len(Stages)
  /\ \A i \in DOMAIN Stages : Stages[i] \in S
BY CaptureConstants DEF S

\* The bounds are positive numbers.
LEMMA BoundFacts ==
  MaxAttempts \in Nat \ {0} /\ MaxCache \in Nat \ {0} /\ MaxOutcomes \in Nat \ {0}
BY CaptureConstants

\* The fields of a memo.
LEMMA MemoFields ==
  ASSUME NEW m \in MemoRec
  PROVE  /\ m.vaddr \in Programs \cup {None} /\ m.attempts \in 0 .. MaxAttempts
         /\ m.ok \in BOOLEAN /\ m.tried \in BOOLEAN /\ m.moduleOk \in BOOLEAN
BY DEF MemoRec

\* The fields of a submission.
LEMMA SubmitFields ==
  ASSUME NEW u \in SubmitRec
  PROVE  /\ u.pc \in {"idle", "next", "stage", "compile", "captured", "failed"}
         /\ u.at \in 0 .. Len(Stages) /\ u.left \in Int /\ u.rc \in Int
         /\ u.meta \in Metas \cup {None}
BY DEF SubmitRec

\* The fields of the counters.
LEMMA CountFields ==
  ASSUME NEW c \in CountRec
  PROVE  /\ c.attempts \in Nat /\ c.ok \in Nat /\ c.skips \in Nat
         /\ c.modules \in Nat /\ c.moduleFailures \in Nat
BY DEF CountRec

\* The fields of the service.
LEMMA ServiceFields ==
  ASSUME NEW v \in ServiceRec
  PROVE  /\ v.cache \in SUBSET [meta : Metas, of : Codes] /\ v.cached \in Nat
         /\ v.recompiles \in Nat /\ v.hits \in Nat /\ v.failures \in Nat
BY DEF ServiceRec

\* The fields of the ghost.
LEMMA SeenFields ==
  ASSUME NEW g \in SeenRec
  PROVE  /\ g.buffers \in Nat /\ g.rewrites \in Nat /\ g.proofs \in Nat
         /\ g.asked \in Nat /\ g.visits \in Nat /\ g.bad \in BOOLEAN
         /\ g.captured \in SUBSET (S \X (Programs \cup {None}))
         /\ g.delivered \in SUBSET (S \X (Programs \cup {None}))
         /\ g.tries \in [S -> Nat] /\ g.changes \in [S -> Nat]
BY DEF SeenRec

-----------------------------------------------------------------------------
(* The service keeps to its limit, and its entries to their keys.          *)

\* A service that is consistent.
ServiceOk(v) ==
  /\ v \in ServiceRec
  /\ IsFiniteSet(v.cache)
  /\ v.cached = Cardinality(v.cache)
  /\ v.cached <= MaxCache
  /\ \A e \in v.cache : e.of = e.meta.code

\* A hit is counted and changes nothing else.
LEMMA HitOk ==
  ASSUME NEW v, ServiceOk(v)
  PROVE  /\ ServiceOk(Hit(v))
         /\ Hit(v).hits = v.hits + 1
         /\ Hit(v).recompiles = v.recompiles /\ Hit(v).failures = v.failures
BY ServiceFields DEF ServiceOk, ServiceRec, Hit

\* A refusal is counted and changes nothing else.
LEMMA FailedOk ==
  ASSUME NEW v, ServiceOk(v)
  PROVE  /\ ServiceOk(Failed(v))
         /\ Failed(v).failures = v.failures + 1
         /\ Failed(v).recompiles = v.recompiles /\ Failed(v).hits = v.hits
BY ServiceFields DEF ServiceOk, ServiceRec, Failed

\* What was compiled goes into a cache that has room for it.
LEMMA InsertedOk ==
  ASSUME NEW v, ServiceOk(v), NEW meta \in Metas, meta.code \in Codes
  PROVE  LET w == Inserted(v, meta, meta.code)
         IN  /\ ServiceOk(w)
             /\ w.recompiles = v.recompiles + 1
             /\ w.hits = v.hits /\ w.failures = v.failures
<1> DEFINE entry == [meta |-> meta, of |-> meta.code]
           kept == IF Cardinality(v.cache) >= MaxCache THEN {} ELSE v.cache
           now == IF \E e \in kept : e.meta = meta THEN kept ELSE kept \cup {entry}
           w == Inserted(v, meta, meta.code)
<1> USE BoundFacts
<1>1. /\ v \in ServiceRec /\ IsFiniteSet(v.cache) /\ Cardinality(v.cache) \in Nat
      /\ Cardinality(v.cache) <= MaxCache
      /\ v.cache \in SUBSET [meta : Metas, of : Codes]
      /\ \A e \in v.cache : e.of = e.meta.code
  BY FS_CardinalityType, ServiceFields DEF ServiceOk
<1>2. /\ IsFiniteSet(kept) /\ Cardinality(kept) \in Nat
      /\ Cardinality(kept) + 1 <= MaxCache
      /\ kept \subseteq v.cache
  BY <1>1, FS_EmptySet
<1>3. /\ IsFiniteSet(now) /\ Cardinality(now) \in Nat
      /\ Cardinality(now) <= MaxCache
  <2>1. /\ IsFiniteSet(kept \cup {entry})
        /\ \/ Cardinality(kept \cup {entry}) = Cardinality(kept)
           \/ Cardinality(kept \cup {entry}) = Cardinality(kept) + 1
    BY <1>2, FS_AddElement
  <2> QED BY <1>2, <2>1
<1>4. entry \in [meta : Metas, of : Codes] /\ entry.of = entry.meta.code
  OBVIOUS
<1>5. /\ now \subseteq v.cache \cup {entry}
      /\ now \in SUBSET [meta : Metas, of : Codes]
      /\ \A e \in now : e.of = e.meta.code
  BY <1>1, <1>2, <1>4
<1>6. w = [v EXCEPT !.recompiles = @ + 1, !.cache = now, !.cached = Cardinality(now)]
  BY DEF Inserted
<1> HIDE DEF now, w, kept, entry
<1>7. /\ w \in ServiceRec /\ w.cache = now /\ w.cached = Cardinality(now)
      /\ w.recompiles = v.recompiles + 1
      /\ w.hits = v.hits /\ w.failures = v.failures
  <2>1. /\ DOMAIN v = {"cache", "cached", "recompiles", "hits", "failures"}
        /\ v.recompiles + 1 \in Nat
    BY <1>1 DEF ServiceRec
  <2>2. w = [cache |-> now, cached |-> Cardinality(now), recompiles |-> v.recompiles + 1,
             hits |-> v.hits, failures |-> v.failures]
    BY <1>1, <1>6, <2>1 DEF ServiceRec
  <2>3. v.hits \in Nat /\ v.failures \in Nat
    BY <1>1, ServiceFields
  <2> QED BY <1>3, <1>5, <2>1, <2>2, <2>3 DEF ServiceRec
<1>8. ServiceOk(w)
  BY <1>3, <1>5, <1>7 DEF ServiceOk
<1> QED BY <1>7, <1>8 DEF w

-----------------------------------------------------------------------------
(* A stage is tried, and the submission goes on.                           *)

\* What an attempt leaves in the memo: another program starts anew.
LEMMA AttemptedFacts ==
  ASSUME NEW m \in MemoRec, NEW p \in Programs, ~Skips(m, p)
  PROVE  LET n == Attempted(m, p)
         IN  /\ n \in MemoRec /\ n.tried /\ n.vaddr = p
             /\ Same(m, p) => /\ n.attempts = m.attempts + 1
                              /\ n.ok = m.ok /\ n.moduleOk = m.moduleOk
             /\ ~Same(m, p) => n.attempts = 1 /\ ~n.ok /\ ~n.moduleOk
<1> USE BoundFacts
<1>1. CASE Same(m, p)
  <2>1. m.attempts \in 0 .. MaxAttempts /\ m.attempts < MaxAttempts
    BY <1>1, MemoFields DEF Skips
  <2>2. Attempted(m, p) = [m EXCEPT !.attempts = @ + 1]
    BY <1>1 DEF Attempted
  <2>3. /\ Attempted(m, p).attempts = m.attempts + 1
        /\ Attempted(m, p).ok = m.ok /\ Attempted(m, p).moduleOk = m.moduleOk
        /\ Attempted(m, p).tried = m.tried /\ Attempted(m, p).vaddr = m.vaddr
    BY <2>2 DEF MemoRec
  <2>4. m.attempts + 1 \in 0 .. MaxAttempts
    BY <2>1
  <2>5. Attempted(m, p) \in MemoRec
    BY <2>2, <2>4 DEF MemoRec
  <2> QED BY <1>1, <2>3, <2>5 DEF Same
<1>2. CASE ~Same(m, p)
  <2>1. NoMemo \in MemoRec /\ NoMemo.attempts = 0 /\ ~NoMemo.ok /\ ~NoMemo.moduleOk
    BY DEF NoMemo, MemoRec
  <2> DEFINE r == Renewed(m, p)
  <2>2. r = [NoMemo EXCEPT !.vaddr = p, !.tried = TRUE]
    BY DEF Renewed
  <2> HIDE DEF r
  <2>3. /\ r \in MemoRec /\ r.vaddr = p /\ r.tried
        /\ r.attempts = 0 /\ ~r.ok /\ ~r.moduleOk
    BY <2>1, <2>2 DEF MemoRec
  <2>4. Attempted(m, p) = [r EXCEPT !.attempts = @ + 1]
    BY <1>2 DEF Attempted, r
  <2>5. r.attempts + 1 = 1 /\ 1 \in 0 .. MaxAttempts
    BY <2>3
  <2>6. /\ Attempted(m, p).vaddr = p /\ Attempted(m, p).tried
        /\ Attempted(m, p).attempts = 1
        /\ ~Attempted(m, p).ok /\ ~Attempted(m, p).moduleOk
    BY <2>3, <2>4, <2>5 DEF MemoRec
  <2>7. Attempted(m, p) \in MemoRec
    BY <2>3, <2>4, <2>5 DEF MemoRec
  <2> QED BY <1>2, <2>6, <2>7
<1> QED BY <1>1, <1>2

\* The submission goes to the next stage, or to the next buffer after the last one.
LEMMA OnwardFacts ==
  ASSUME NEW u \in SubmitRec, u.at \in DOMAIN Stages
  PROVE  /\ Onward(u) \in SubmitRec /\ Onward(u).rc = u.rc
         /\ Onward(u).pc \in {"next", "stage"}
         /\ Onward(u).pc = "stage" => Onward(u).at \in DOMAIN Stages
<1> USE StageFacts
<1>1. /\ u.at \in 1 .. Len(Stages) /\ u.left \in Int /\ u.rc \in Int
  BY SubmitFields
<1>2. CASE u.at = Len(Stages)
  <2>1. Onward(u) = [u EXCEPT !.pc = "next", !.at = 0, !.meta = None]
    BY <1>2 DEF Onward
  <2>2. /\ Onward(u).rc = u.rc /\ Onward(u).pc = "next"
    BY <2>1 DEF SubmitRec
  <2>3. Onward(u) = [pc |-> "next", at |-> 0, left |-> u.left, rc |-> u.rc, meta |-> None]
    BY <2>1 DEF SubmitRec
  <2>4. 0 \in 0 .. Len(Stages)
    OBVIOUS
  <2>5. Onward(u) \in SubmitRec
    BY <1>1, <2>3, <2>4 DEF SubmitRec
  <2> QED BY <2>2, <2>5
<1>3. CASE u.at # Len(Stages)
  <2>1. Onward(u) = [u EXCEPT !.pc = "stage", !.at = @ + 1, !.meta = None]
    BY <1>3 DEF Onward
  <2>2. /\ Onward(u).rc = u.rc /\ Onward(u).pc = "stage" /\ Onward(u).at = u.at + 1
    BY <2>1 DEF SubmitRec
  <2>3. u.at + 1 \in 1 .. Len(Stages) /\ u.at + 1 \in 0 .. Len(Stages)
    BY <1>1, <1>3
  <2>4. Onward(u) = [pc |-> "stage", at |-> u.at + 1, left |-> u.left, rc |-> u.rc,
                     meta |-> None]
    BY <2>1 DEF SubmitRec
  <2>5. Onward(u) \in SubmitRec
    BY <1>1, <2>3, <2>4 DEF SubmitRec
  <2> QED BY <2>2, <2>3, <2>5
<1> QED BY <1>2, <1>3

\* The log of outcomes keeps to its limit.
LEMMA PushedFacts ==
  ASSUME NEW T, NEW log \in Seq(T), Len(log) <= MaxOutcomes, NEW o \in T
  PROVE  Pushed(log, o) \in Seq(T) /\ Len(Pushed(log, o)) <= MaxOutcomes
<1> USE BoundFacts
<1>1. CASE Len(log) < MaxOutcomes
  BY <1>1 DEF Pushed
<1>2. CASE ~(Len(log) < MaxOutcomes)
  <2>1. Tail(log) \in Seq(T) /\ Len(Tail(log)) = Len(log) - 1 /\ Len(log) \in Nat
    BY <1>2
  <2>2. Pushed(log, o) = Append(Tail(log), o)
    BY <1>2 DEF Pushed
  <2> QED BY <2>1, <2>2
<1> QED BY <1>1, <1>2

\* The service and what is known of it, one way and the other.
LEMMA ServiceParts ==
  Types /\ CacheIsFaithful /\ CacheBounded <=> Types /\ ServiceOk(service)
BY DEF Types, CacheIsFaithful, CacheBounded, ServiceOk

\* Before the first submission.
LEMMA InitIInv == Init => IInv
<1> SUFFICES ASSUME Init PROVE IInv
  OBVIOUS
<1> USE BoundFacts, StageFacts
<1>1. NoMemo \in MemoRec /\ Idle \in SubmitRec
  BY DEF NoMemo, MemoRec, Idle, SubmitRec
<1>2. IsFiniteSet({}) /\ Cardinality({}) = 0
  BY FS_EmptySet
<1>3. seen \in SeenRec /\ count \in CountRec /\ service \in ServiceRec
  BY DEF Init, SeenRec, CountRec, ServiceRec
<1>4. memo \in [S -> MemoRec] /\ submit \in SubmitRec
  BY <1>1 DEF Init
<1>5. outcomes \in Seq([stage : S, vaddr : Programs \cup {None}, ok : BOOLEAN])
      /\ Len(outcomes) <= MaxOutcomes
  BY DEF Init
<1>6. Types
  BY <1>3, <1>4, <1>5 DEF Init, Types
<1>7. Trying
  BY DEF Init, Trying, Idle
<1>8. PinnedIsDelivered /\ CacheIsFaithful
  BY DEF Init, PinnedIsDelivered, CacheIsFaithful, NoMemo
<1>9. Budget
  BY DEF Init, Budget, NoMemo
<1>10. CacheBounded
  BY <1>2 DEF Init, CacheBounded
<1>11. Counts
  <2>1. Waiting = 0
    BY DEF Init, Waiting, Idle
  <2>2. (submit.rc # 0) = seen.bad
    BY DEF Init, Idle
  <2>3. count.attempts + count.skips = seen.visits /\ count.modules + count.moduleFailures <= count.ok
    BY DEF Init
  <2>4. service.recompiles + service.hits + service.failures = seen.asked /\ seen.asked = 0
    BY DEF Init
  <2> QED BY <2>1, <2>2, <2>3, <2>4 DEF Counts, Init
<1> QED BY <1>6, <1>7, <1>8, <1>9, <1>10, <1>11 DEF IInv

-----------------------------------------------------------------------------
(* The guest, the engine, and the device's proof.                          *)

\* The guest's code and the sink are no part of what the invariant relates.
LEMMA QuietStep ==
  ASSUME IInv, code' \in [Programs -> Codes \cup {None}], sink' \in BOOLEAN,
         UNCHANGED <<loaded, memo, outcomes, count, submit, proof, service>>,
         seen' \in SeenRec,
         NEW r, seen' = [seen EXCEPT !.rewrites = r]
  PROVE  IInv'
<1> USE DEF IInv
<1>1. /\ seen'.asked = seen.asked /\ seen'.visits = seen.visits /\ seen'.bad = seen.bad
      /\ seen'.captured = seen.captured /\ seen'.delivered = seen.delivered
      /\ seen'.tries = seen.tries /\ seen'.changes = seen.changes
  BY DEF Types, SeenRec
<1>2. Types'
  BY DEF Types
<1>3. Trying'
  BY DEF Trying, Stage
<1>4. PinnedIsDelivered' /\ CacheIsFaithful'
  BY <1>1 DEF PinnedIsDelivered, CacheIsFaithful
<1>5. Budget'
  BY <1>1 DEF Budget
<1>6. CacheBounded'
  BY DEF CacheBounded
<1>7. Counts'
  BY <1>1 DEF Counts, Waiting
<1> QED BY <1>2, <1>3, <1>4, <1>5, <1>6, <1>7

\* The guest rewrites its code.
LEMMA RewriteStep ==
  ASSUME IInv, NEW p \in Programs, NEW c \in Codes \cup {None}, Rewrite(p, c)
  PROVE  IInv'
<1>1. seen \in SeenRec /\ seen.rewrites \in Nat /\ code \in [Programs -> Codes \cup {None}]
      /\ sink \in BOOLEAN
  BY SeenFields DEF IInv, Types
<1>2. seen' = [seen EXCEPT !.rewrites = seen.rewrites + 1]
  BY DEF Rewrite
<1>3. seen' \in SeenRec
  BY <1>1, <1>2 DEF SeenRec
<1>4. code' \in [Programs -> Codes \cup {None}]
  BY <1>1 DEF Rewrite
<1>5. sink' \in BOOLEAN /\ UNCHANGED <<loaded, memo, outcomes, count, submit, proof, service>>
  BY <1>1 DEF Rewrite
<1> QED BY <1>2, <1>3, <1>4, <1>5, QuietStep

\* A sink is registered; nothing happens.
LEMMA SinkStep ==
  ASSUME IInv, SetShaderModuleSink \/ UNCHANGED vars
  PROVE  IInv'
<1>1. seen \in SeenRec /\ code \in [Programs -> Codes \cup {None}] /\ sink \in BOOLEAN
  BY DEF IInv, Types
<1>2. /\ seen' = seen /\ code' = code /\ sink' \in BOOLEAN
      /\ UNCHANGED <<loaded, memo, outcomes, count, submit, proof, service>>
  BY <1>1 DEF SetShaderModuleSink, vars
<1>3. seen = [seen EXCEPT !.rewrites = seen.rewrites]
  BY <1>1 DEF SeenRec
<1> QED BY <1>1, <1>2, <1>3, QuietStep

\* The proof's request is a hit, or waits to be compiled.
LEMMA ProofAsksStep ==
  ASSUME IInv, NEW meta \in Metas, ProofAsks(meta)
  PROVE  IInv'
<1>1. /\ Types /\ Trying /\ PinnedIsDelivered /\ CacheIsFaithful /\ Budget /\ CacheBounded
      /\ Counts
  BY DEF IInv
<1>2. /\ seen \in SeenRec /\ seen.asked \in Nat /\ seen.proofs \in Nat
      /\ ServiceOk(service)
  BY <1>1, SeenFields, ServiceParts DEF Types
<1>3. seen' = [seen EXCEPT !.proofs = @ + 1, !.asked = @ + 1]
  BY DEF ProofAsks
<1>4. /\ seen' \in SeenRec /\ seen'.asked = seen.asked + 1
      /\ seen'.visits = seen.visits /\ seen'.bad = seen.bad
      /\ seen'.captured = seen.captured /\ seen'.delivered = seen.delivered
      /\ seen'.tries = seen.tries /\ seen'.changes = seen.changes
  <2>1. seen.asked + 1 \in Nat /\ seen.proofs + 1 \in Nat
    BY <1>2
  <2>2. seen' \in SeenRec
    BY <1>2, <1>3, <2>1 DEF SeenRec
  <2>3. /\ seen'.asked = seen.asked + 1
        /\ seen'.visits = seen.visits /\ seen'.bad = seen.bad
    BY <1>2, <1>3 DEF SeenRec
  <2>4. /\ seen'.captured = seen.captured /\ seen'.delivered = seen.delivered
        /\ seen'.tries = seen.tries /\ seen'.changes = seen.changes
    BY <1>2, <1>3 DEF SeenRec
  <2> QED BY <2>2, <2>3, <2>4
<1>5. /\ UNCHANGED <<code, loaded, sink, memo, outcomes, count, submit>>
      /\ proof = None
      /\ \/ service' = Hit(service) /\ proof' = proof
         \/ service' = service /\ proof' = meta
  BY DEF ProofAsks
<1>6. ServiceOk(service')
  BY <1>2, <1>5, HitOk
<1>7. service' \in ServiceRec
  BY <1>6 DEF ServiceOk
<1>8. Types'
  BY <1>1, <1>4, <1>5, <1>7 DEF Types
<1>9. CacheIsFaithful' /\ CacheBounded'
  BY <1>6 DEF ServiceOk, CacheIsFaithful, CacheBounded
<1>10. Trying'
  BY <1>1, <1>5 DEF Trying, Stage
<1>11. PinnedIsDelivered'
  BY <1>1, <1>4, <1>5 DEF PinnedIsDelivered
<1>12. Budget'
  BY <1>1, <1>4, <1>5 DEF Budget
<1>13. Counts'
  <2>1. service.recompiles \in Nat /\ service.hits \in Nat /\ service.failures \in Nat
    BY <1>2, ServiceFields DEF ServiceOk
  <2>2. Waiting \in Nat
    BY DEF Waiting
  <2>3. service.recompiles + service.hits + service.failures + Waiting = seen.asked
    BY <1>1 DEF Counts
  <2>4. service'.recompiles + service'.hits + service'.failures + Waiting' = seen'.asked
    <3>1. CASE service' = Hit(service) /\ proof' = proof
      <4>1. Waiting' = Waiting
        BY <1>5, <3>1 DEF Waiting
      <4>2. /\ service'.hits = service.hits + 1
            /\ service'.recompiles = service.recompiles
            /\ service'.failures = service.failures
        BY <1>2, <3>1, HitOk
      <4> QED BY <1>2, <1>4, <2>1, <2>2, <2>3, <4>1, <4>2
    <3>2. CASE service' = service /\ proof' = meta
      <4>1. meta # None => Waiting' = Waiting + 1
        BY <1>5, <3>2 DEF Waiting
      <4>2. meta # None
        BY CaptureConstants
      <4>3. /\ service'.recompiles = service.recompiles
            /\ service'.hits = service.hits /\ service'.failures = service.failures
        BY <3>2
      <4>4. seen'.asked = seen.asked + 1
        BY <1>4
      <4> QED BY <2>1, <2>2, <2>3, <4>1, <4>2, <4>3, <4>4
    <3> QED BY <1>5, <3>1, <3>2
  <2> QED BY <1>1, <1>4, <1>5, <2>4 DEF Counts
<1> QED BY <1>8, <1>9, <1>10, <1>11, <1>12, <1>13 DEF IInv

\* The proof's program is compiled, or refused.
LEMMA ProofCompilesStep ==
  ASSUME IInv, ProofCompiles
  PROVE  IInv'
<1>1. /\ Types /\ Trying /\ PinnedIsDelivered /\ CacheIsFaithful /\ Budget /\ CacheBounded
      /\ Counts
  BY DEF IInv
<1>2. ServiceOk(service) /\ proof \in Metas /\ proof.code \in Codes
  <2>1. proof \in Metas
    BY <1>1 DEF ProofCompiles, Types
  <2> QED BY <1>1, <2>1, ServiceParts DEF Metas
<1>3. /\ UNCHANGED <<code, loaded, sink, memo, outcomes, count, submit, seen>>
      /\ proof # None /\ proof' = None
      /\ \/ service' = Failed(service)
         \/ service' = Inserted(service, proof, proof.code)
  BY DEF ProofCompiles
<1>4. /\ ServiceOk(service')
      /\ service'.hits = service.hits
      /\ \/ /\ service'.failures = service.failures + 1
            /\ service'.recompiles = service.recompiles
         \/ /\ service'.failures = service.failures
            /\ service'.recompiles = service.recompiles + 1
  BY <1>2, <1>3, FailedOk, InsertedOk
<1>5. Types'
  BY <1>1, <1>3, <1>4 DEF Types, ServiceOk
<1>6. CacheIsFaithful' /\ CacheBounded'
  BY <1>4 DEF ServiceOk, CacheIsFaithful, CacheBounded
<1>7. Trying'
  BY <1>1, <1>3 DEF Trying, Stage
<1>8. PinnedIsDelivered' /\ Budget'
  BY <1>1, <1>3 DEF PinnedIsDelivered, Budget
<1>9. Counts'
  <2>1. service.recompiles \in Nat /\ service.hits \in Nat /\ service.failures \in Nat
    BY <1>2, ServiceFields DEF ServiceOk
  <2>2. Waiting' \in Nat /\ Waiting = Waiting' + 1
    BY <1>3 DEF Waiting
  <2>3. service.recompiles + service.hits + service.failures + Waiting = seen.asked
    BY <1>1 DEF Counts
  <2>4. service'.recompiles + service'.hits + service'.failures + Waiting' = seen.asked
    BY <1>4, <2>1, <2>2, <2>3
  <2> QED BY <1>1, <1>3, <2>4 DEF Counts
<1> QED BY <1>5, <1>6, <1>7, <1>8, <1>9 DEF IInv

-----------------------------------------------------------------------------
(* The submission.                                                         *)

\* A submission that is not trying a stage: what it relates is the error.
LEMMA SubmitMoves ==
  ASSUME IInv, submit' \in SubmitRec, submit'.pc \in {"idle", "next", "stage"},
         submit'.pc = "stage" => submit'.at \in DOMAIN Stages,
         loaded' \in [S -> Programs \cup {None}], submit.pc # "compile",
         UNCHANGED <<code, sink, memo, outcomes, count, proof, service>>,
         NEW b, seen' = [seen EXCEPT !.buffers = b, !.bad = (submit'.rc # 0)],
         b \in Nat
  PROVE  IInv'
<1>1. /\ Types /\ PinnedIsDelivered /\ CacheIsFaithful /\ Budget /\ CacheBounded /\ Counts
  BY DEF IInv
<1>2. seen \in SeenRec
  BY <1>1 DEF Types
<1>3. seen' \in SeenRec
  BY <1>2 DEF SeenRec
<1>4. /\ seen'.asked = seen.asked /\ seen'.visits = seen.visits
      /\ seen'.bad = (submit'.rc # 0)
  BY <1>2 DEF SeenRec
<1>5. /\ seen'.captured = seen.captured /\ seen'.delivered = seen.delivered
      /\ seen'.tries = seen.tries /\ seen'.changes = seen.changes
  BY <1>2 DEF SeenRec
<1>6. Types'
  BY <1>1, <1>3 DEF Types
<1>7. Trying'
  BY DEF Trying
<1>8. PinnedIsDelivered' /\ CacheIsFaithful'
  BY <1>1, <1>5 DEF PinnedIsDelivered, CacheIsFaithful
<1>9. Budget' /\ CacheBounded'
  BY <1>1, <1>5 DEF Budget, CacheBounded
<1>10. Counts'
  <2>1. Waiting' = Waiting
    BY DEF Waiting
  <2> QED BY <1>1, <1>4, <2>1 DEF Counts
<1> QED BY <1>6, <1>7, <1>8, <1>9, <1>10 DEF IInv

\* A submission comes in.
LEMMA SubmitStep ==
  ASSUME IInv, NEW n \in 1 .. MaxBuffers, SubmitDescriptors(n)
  PROVE  IInv'
<1>1. seen \in SeenRec /\ seen.buffers \in Nat /\ loaded \in [S -> Programs \cup {None}]
  BY SeenFields DEF IInv, Types
<1>2. submit' = [pc |-> "next", at |-> 0, left |-> n, rc |-> 0, meta |-> None]
  BY DEF SubmitDescriptors, Idle
<1>3. submit' \in SubmitRec /\ submit'.rc = 0 /\ submit'.pc = "next"
  BY <1>2, StageFacts DEF SubmitRec
<1>4. n \in Nat /\ seen.buffers + n \in Nat
  BY <1>1, CaptureConstants
<1>5. seen' = [seen EXCEPT !.buffers = seen.buffers + n, !.bad = (submit'.rc # 0)]
  BY <1>3 DEF SubmitDescriptors
<1>6. /\ submit.pc = "idle" /\ UNCHANGED <<code, sink, memo, outcomes, count, proof, service>>
      /\ loaded' \in [S -> Programs \cup {None}]
  BY <1>1 DEF SubmitDescriptors
<1> QED BY <1>3, <1>4, <1>5, <1>6, SubmitMoves

\* A buffer is passed over, taken, or the submission is over.
LEMMA BufferStep ==
  ASSUME IInv,
         \/ BadBuffer \/ SubmitReturns
         \/ \E programs \in [S -> Programs \cup {None}] : Buffer(programs)
  PROVE  IInv'
<1>1. /\ seen \in SeenRec /\ seen.buffers \in Nat /\ submit \in SubmitRec
      /\ loaded \in [S -> Programs \cup {None}] /\ (submit.rc # 0) = seen.bad
  BY SeenFields DEF IInv, Types, Counts
<1>2. submit.pc = "next"
  BY DEF BadBuffer, SubmitReturns, Buffer
<1>3. UNCHANGED <<code, sink, memo, outcomes, count, proof, service>>
  BY DEF BadBuffer, SubmitReturns, Buffer
<1>4. CASE BadBuffer
  <2>1. submit' = [submit EXCEPT !.left = @ - 1, !.rc = -1]
    BY <1>4 DEF BadBuffer
  <2>2. submit' \in SubmitRec /\ submit'.rc = -1 /\ submit'.pc = "next"
    <3>1. submit.left - 1 \in Int /\ -1 \in Int
      BY <1>1, SubmitFields
    <3>2. submit' \in SubmitRec
      BY <1>1, <2>1, <3>1 DEF SubmitRec
    <3> QED BY <1>1, <1>2, <2>1, <3>2 DEF SubmitRec
  <2>3. submit'.rc # 0
    BY <2>2
  <2>4. seen' = [seen EXCEPT !.buffers = seen.buffers, !.bad = (submit'.rc # 0)]
    <3>1. seen' = [seen EXCEPT !.bad = TRUE]
      BY <1>4 DEF BadBuffer
    <3> QED BY <1>1, <2>3, <3>1 DEF SeenRec
  <2>5. loaded' \in [S -> Programs \cup {None}]
    BY <1>1, <1>4 DEF BadBuffer
  <2> QED BY <1>1, <1>2, <1>3, <2>2, <2>4, <2>5, SubmitMoves
<1>5. CASE SubmitReturns
  <2>1. submit' = [submit EXCEPT !.pc = "idle"]
    BY <1>5 DEF SubmitReturns
  <2>2. submit' \in SubmitRec /\ submit'.rc = submit.rc /\ submit'.pc = "idle"
    BY <1>1, <2>1 DEF SubmitRec
  <2>3. seen' = [seen EXCEPT !.buffers = seen.buffers, !.bad = (submit'.rc # 0)]
    <3>1. seen' = seen
      BY <1>5 DEF SubmitReturns
    <3> QED BY <1>1, <2>2, <3>1 DEF SeenRec
  <2>4. loaded' \in [S -> Programs \cup {None}]
    BY <1>1, <1>5 DEF SubmitReturns
  <2> QED BY <1>1, <1>2, <1>3, <2>2, <2>3, <2>4, SubmitMoves
<1>6. CASE \E programs \in [S -> Programs \cup {None}] : Buffer(programs)
  <2>1. PICK programs \in [S -> Programs \cup {None}] : Buffer(programs)
    BY <1>6
  <2>2. submit' = [submit EXCEPT !.pc = "stage", !.at = 1, !.left = @ - 1]
    BY <2>1 DEF Buffer, Taken
  <2>3. 1 \in 0 .. Len(Stages) /\ 1 \in DOMAIN Stages
    BY StageFacts
  <2>4. submit' \in SubmitRec
    <3>1. submit.left - 1 \in Int
      BY <1>1, SubmitFields
    <3> QED BY <1>1, <2>2, <2>3, <3>1 DEF SubmitRec
  <2>5. submit'.rc = submit.rc /\ submit'.pc = "stage" /\ submit'.at = 1
    BY <1>1, <2>2 DEF SubmitRec
  <2>6. seen' = [seen EXCEPT !.buffers = seen.buffers, !.bad = (submit'.rc # 0)]
    <3>1. seen' = seen
      BY <2>1 DEF Buffer
    <3> QED BY <1>1, <2>5, <3>1 DEF SeenRec
  <2>7. loaded' \in [S -> Programs \cup {None}]
    BY <2>1 DEF Buffer
  <2> QED BY <1>1, <1>2, <1>3, <2>3, <2>4, <2>5, <2>6, <2>7, SubmitMoves
<1> QED BY <1>4, <1>5, <1>6

\* A stage without a program is passed by.
LEMMA NoProgramStep ==
  ASSUME IInv, NoProgram
  PROVE  IInv'
<1>1. /\ seen \in SeenRec /\ seen.buffers \in Nat /\ submit \in SubmitRec
      /\ loaded \in [S -> Programs \cup {None}] /\ (submit.rc # 0) = seen.bad
  BY SeenFields DEF IInv, Types, Counts
<1>2. submit.pc = "stage" /\ submit.at \in DOMAIN Stages /\ submit' = Onward(submit)
  BY DEF NoProgram, AtStage
<1>3. /\ submit' \in SubmitRec /\ submit'.rc = submit.rc
      /\ submit'.pc \in {"next", "stage"}
      /\ submit'.pc = "stage" => submit'.at \in DOMAIN Stages
  BY <1>1, <1>2, OnwardFacts
<1>4. /\ UNCHANGED <<code, sink, memo, outcomes, count, proof, service>>
      /\ loaded' = loaded /\ seen' = seen
  BY DEF NoProgram
<1>5. seen' = [seen EXCEPT !.buffers = seen.buffers, !.bad = (submit'.rc # 0)]
  BY <1>1, <1>3, <1>4 DEF SeenRec
<1> QED BY <1>1, <1>2, <1>3, <1>4, <1>5, SubmitMoves

\* A program that is pinned, or that failed too often, is skipped and counted.
LEMMA SkipStep ==
  ASSUME IInv, Skip
  PROVE  IInv'
<1>1. /\ Types /\ PinnedIsDelivered /\ CacheIsFaithful /\ Budget /\ CacheBounded /\ Counts
  BY DEF IInv
<1>2. /\ seen \in SeenRec /\ count \in CountRec /\ submit \in SubmitRec
      /\ seen.visits \in Nat /\ count.skips \in Nat /\ count.attempts \in Nat
  BY <1>1, SeenFields, CountFields DEF Types
<1>3. /\ submit.pc = "stage" /\ submit.at \in DOMAIN Stages /\ submit' = Onward(submit)
      /\ count' = [count EXCEPT !.skips = @ + 1]
      /\ seen' = [seen EXCEPT !.visits = @ + 1]
      /\ UNCHANGED <<code, loaded, sink, memo, outcomes, proof, service>>
  BY DEF Skip, AtStage
<1>4. /\ submit' \in SubmitRec /\ submit'.rc = submit.rc
      /\ submit'.pc \in {"next", "stage"}
      /\ submit'.pc = "stage" => submit'.at \in DOMAIN Stages
  BY <1>2, <1>3, OnwardFacts
<1>5. seen.visits + 1 \in Nat /\ count.skips + 1 \in Nat
  BY <1>2
<1>6. /\ seen' \in SeenRec /\ seen'.visits = seen.visits + 1
      /\ seen'.asked = seen.asked /\ seen'.bad = seen.bad
      /\ seen'.captured = seen.captured /\ seen'.delivered = seen.delivered
      /\ seen'.tries = seen.tries /\ seen'.changes = seen.changes
  BY <1>2, <1>3, <1>5 DEF SeenRec
<1>7. /\ count' \in CountRec /\ count'.skips = count.skips + 1
      /\ count'.attempts = count.attempts /\ count'.ok = count.ok
      /\ count'.modules = count.modules /\ count'.moduleFailures = count.moduleFailures
  BY <1>2, <1>3, <1>5 DEF CountRec
<1>8. Types'
  BY <1>1, <1>3, <1>4, <1>6, <1>7 DEF Types
<1>9. Trying'
  BY <1>4 DEF Trying
<1>10. PinnedIsDelivered' /\ CacheIsFaithful'
  BY <1>1, <1>3, <1>6 DEF PinnedIsDelivered, CacheIsFaithful
<1>11. Budget' /\ CacheBounded'
  BY <1>1, <1>3, <1>6 DEF Budget, CacheBounded
<1>12. Counts'
  <2>1. Waiting' = Waiting
    BY <1>3, <1>4 DEF Waiting
  <2>2. count.attempts + count.skips = seen.visits
    BY <1>1 DEF Counts
  <2>3. count'.attempts + count'.skips = seen'.visits
    BY <1>2, <1>6, <1>7, <2>2
  <2> QED BY <1>1, <1>3, <1>4, <1>6, <1>7, <2>1, <2>3 DEF Counts
<1> QED BY <1>8, <1>9, <1>10, <1>11, <1>12 DEF IInv

\* A capture that fails is logged.
LEMMA CaptureFailsStep ==
  ASSUME IInv, CaptureFails
  PROVE  IInv'
<1>1. /\ Types /\ Trying /\ PinnedIsDelivered /\ CacheIsFaithful /\ Budget /\ CacheBounded
      /\ Counts
  BY DEF IInv
<1>2. /\ submit \in SubmitRec /\ submit.pc = "failed" /\ submit.at \in DOMAIN Stages
      /\ loaded[Stage] \in Programs \cup {None} /\ Stage \in S
  BY <1>1, StageFacts DEF CaptureFails, Types, Trying, Stage
<1>3. /\ submit' = Onward(submit) /\ outcomes' = Pushed(outcomes, Outcome(FALSE))
      /\ UNCHANGED <<code, loaded, sink, memo, count, proof, service, seen>>
  BY DEF CaptureFails
<1>4. /\ submit' \in SubmitRec /\ submit'.rc = submit.rc
      /\ submit'.pc \in {"next", "stage"}
      /\ submit'.pc = "stage" => submit'.at \in DOMAIN Stages
  BY <1>2, <1>3, OnwardFacts
<1>5. Outcome(FALSE) \in [stage : S, vaddr : Programs \cup {None}, ok : BOOLEAN]
  BY <1>2 DEF Outcome
<1>6. /\ outcomes' \in Seq([stage : S, vaddr : Programs \cup {None}, ok : BOOLEAN])
      /\ Len(outcomes') <= MaxOutcomes
  BY <1>1, <1>3, <1>5, PushedFacts DEF Types
<1>7. Types'
  BY <1>1, <1>3, <1>4, <1>6 DEF Types
<1>8. Trying'
  BY <1>4 DEF Trying
<1>9. PinnedIsDelivered' /\ CacheIsFaithful'
  BY <1>1, <1>3 DEF PinnedIsDelivered, CacheIsFaithful
<1>10. Budget' /\ CacheBounded'
  BY <1>1, <1>3 DEF Budget, CacheBounded
<1>11. Counts'
  BY <1>1, <1>2, <1>3, <1>4 DEF Counts, Waiting
<1> QED BY <1>7, <1>8, <1>9, <1>10, <1>11 DEF IInv

\* The copy is compiled, or refused.
LEMMA CompileStep ==
  ASSUME IInv, Compile
  PROVE  IInv'
<1>1. /\ Types /\ Trying /\ PinnedIsDelivered /\ CacheIsFaithful /\ Budget /\ CacheBounded
      /\ Counts
  BY DEF IInv
<1>2. /\ submit \in SubmitRec /\ submit.pc = "compile"
      /\ submit.meta \in Metas /\ submit.meta.code \in Codes /\ ServiceOk(service)
  <2>1. submit \in SubmitRec /\ submit.pc = "compile" /\ submit.meta \in Metas
    BY <1>1 DEF Compile, Types, Trying
  <2> QED BY <1>1, <2>1, ServiceParts DEF Metas
<1>3. UNCHANGED <<code, loaded, sink, memo, outcomes, count, proof, seen>>
  BY DEF Compile
<1>4. \/ /\ service' = Failed(service) /\ submit' = [submit EXCEPT !.pc = "failed"]
      \/ /\ service' = Inserted(service, submit.meta, submit.meta.code)
         /\ submit' = [submit EXCEPT !.pc = "captured"]
  BY DEF Compile, Compiled
<1>5. /\ submit' \in SubmitRec /\ submit'.pc \in {"failed", "captured"}
      /\ submit'.at = submit.at /\ submit'.rc = submit.rc
  BY <1>2, <1>4 DEF SubmitRec
<1>6. /\ ServiceOk(service')
      /\ service'.hits = service.hits
      /\ \/ /\ service'.failures = service.failures + 1
            /\ service'.recompiles = service.recompiles
         \/ /\ service'.failures = service.failures
            /\ service'.recompiles = service.recompiles + 1
  BY <1>2, <1>4, FailedOk, InsertedOk
<1>7. Types'
  BY <1>1, <1>3, <1>5, <1>6 DEF Types, ServiceOk
<1>8. CacheIsFaithful' /\ CacheBounded'
  BY <1>6 DEF ServiceOk, CacheIsFaithful, CacheBounded
<1>9. Trying'
  BY <1>1, <1>2, <1>3, <1>5 DEF Trying, Stage
<1>10. PinnedIsDelivered' /\ Budget'
  BY <1>1, <1>3 DEF PinnedIsDelivered, Budget
<1>11. Counts'
  <2>1. service.recompiles \in Nat /\ service.hits \in Nat /\ service.failures \in Nat
    BY <1>2, ServiceFields DEF ServiceOk
  <2>2. Waiting' \in Nat /\ Waiting = Waiting' + 1
    BY <1>2, <1>3, <1>5 DEF Waiting
  <2>3. service.recompiles + service.hits + service.failures + Waiting = seen.asked
    BY <1>1 DEF Counts
  <2>4. service'.recompiles + service'.hits + service'.failures + Waiting' = seen.asked
    BY <1>6, <2>1, <2>2, <2>3
  <2> QED BY <1>1, <1>3, <1>5, <2>4 DEF Counts
<1> QED BY <1>7, <1>8, <1>9, <1>10, <1>11 DEF IInv

\* An attempt is taken from the stage's budget, and the service is asked if the code
\* could be read.
LEMMA CaptureStep ==
  ASSUME IInv, Capture
  PROVE  IInv'
<1> DEFINE p == loaded[Stage]
           c == code[p]
           meta == [stage |-> Stage, code |-> c]
           same == Same(memo[Stage], p)
<1>1. /\ Types /\ PinnedIsDelivered /\ CacheIsFaithful /\ Budget /\ CacheBounded /\ Counts
  BY DEF IInv
<1>2. /\ Stage \in S /\ submit.pc = "stage" /\ submit.at \in DOMAIN Stages
      /\ p \in Programs /\ c \in Codes \cup {None} /\ memo[Stage] \in MemoRec
      /\ ~Skips(memo[Stage], p)
  BY <1>1, StageFacts DEF Capture, AtStage, Types, Stage
<1>3. /\ memo' = [memo EXCEPT ![Stage] = Attempted(@, p)]
      /\ count' = [count EXCEPT !.attempts = @ + 1]
      /\ UNCHANGED <<code, loaded, sink, outcomes, proof>>
  BY DEF Capture
<1>4. seen' = [seen EXCEPT !.visits = @ + 1, !.tries[Stage] = @ + 1,
                 !.changes[Stage] = IF same THEN @ ELSE @ + 1,
                 !.asked = IF c = None THEN @ ELSE @ + 1]
  BY DEF Capture
<1>5. \/ /\ c = None /\ service' = service
         /\ submit' = [submit EXCEPT !.pc = "failed"]
      \/ /\ c # None /\ service' = Hit(service)
         /\ submit' = [submit EXCEPT !.pc = "captured"]
      \/ /\ c # None /\ service' = service
         /\ submit' = [submit EXCEPT !.pc = "compile", !.meta = meta]
  BY DEF Capture
<1> HIDE DEF c, same
<1>6. /\ memo' \in [S -> MemoRec]
      /\ \A s \in S : s # Stage => memo'[s] = memo[s]
      /\ memo'[Stage].tried /\ memo'[Stage].vaddr = p
      /\ same => /\ memo'[Stage].attempts = memo[Stage].attempts + 1
                 /\ memo'[Stage].ok = memo[Stage].ok
                 /\ memo'[Stage].moduleOk = memo[Stage].moduleOk
                 /\ memo[Stage].tried /\ memo[Stage].vaddr = p
      /\ ~same => /\ memo'[Stage].attempts = 1
                  /\ ~memo'[Stage].ok /\ ~memo'[Stage].moduleOk
  <2>1. memo \in [S -> MemoRec]
    BY <1>1 DEF Types
  <2>2. memo'[Stage] = Attempted(memo[Stage], p)
    BY <1>2, <1>3, <2>1
  <2>3. Attempted(memo[Stage], p) \in MemoRec
    BY <1>2, AttemptedFacts
  <2>4. memo' \in [S -> MemoRec] /\ \A s \in S : s # Stage => memo'[s] = memo[s]
    BY <1>2, <1>3, <2>1, <2>3
  <2>5. same => memo[Stage].tried /\ memo[Stage].vaddr = p
    BY DEF same, Same
  <2> QED BY <1>2, <2>2, <2>4, <2>5, AttemptedFacts DEF same
<1>7. /\ seen \in SeenRec /\ seen.visits \in Nat /\ seen.asked \in Nat
      /\ seen.tries \in [S -> Nat] /\ seen.changes \in [S -> Nat]
  BY <1>1, SeenFields DEF Types
<1>8. /\ seen'.visits = seen.visits + 1
      /\ seen'.asked = IF c = None THEN seen.asked ELSE seen.asked + 1
      /\ seen'.bad = seen.bad
      /\ seen'.captured = seen.captured /\ seen'.delivered = seen.delivered
  BY <1>4, <1>7 DEF SeenRec
<1>9. /\ seen'.tries = [seen.tries EXCEPT ![Stage] = @ + 1]
      /\ seen'.changes = [seen.changes EXCEPT ![Stage] = IF same THEN @ ELSE @ + 1]
  BY <1>4, <1>7 DEF SeenRec
<1>10. seen'.tries \in [S -> Nat] /\ seen'.changes \in [S -> Nat]
  BY <1>2, <1>7, <1>9
<1>11. seen' \in SeenRec
  <2>1. seen' = [seen EXCEPT !.visits = seen'.visits, !.tries = seen'.tries,
                   !.changes = seen'.changes, !.asked = seen'.asked]
    BY <1>4, <1>7 DEF SeenRec
  <2>2. seen'.visits \in Nat /\ seen'.asked \in Nat
    BY <1>7, <1>8
  <2> QED BY <1>7, <1>10, <2>1, <2>2 DEF SeenRec
<1>12. /\ count' \in CountRec /\ count'.attempts = count.attempts + 1
       /\ count'.skips = count.skips /\ count'.ok = count.ok
       /\ count'.modules = count.modules /\ count'.moduleFailures = count.moduleFailures
       /\ count.attempts \in Nat /\ count.skips \in Nat
  <2>1. count \in CountRec /\ count.attempts \in Nat /\ count.skips \in Nat
    BY <1>1, CountFields DEF Types
  <2>2. count.attempts + 1 \in Nat
    BY <2>1
  <2> QED BY <1>3, <2>1, <2>2 DEF CountRec
<1>13. ServiceOk(service) /\ ServiceOk(service')
  BY <1>1, <1>5, ServiceParts, HitOk
<1>14. c # None => meta \in Metas
  BY <1>2 DEF meta, Metas
<1>15. /\ submit' \in SubmitRec /\ submit'.at = submit.at /\ submit'.rc = submit.rc
       /\ submit'.pc \in {"compile", "captured", "failed"}
       /\ submit'.pc = "compile" => submit'.meta \in Metas
  <2>1. submit \in SubmitRec
    BY <1>1 DEF Types
  <2>2. CASE submit' = [submit EXCEPT !.pc = "failed"]
    BY <2>1, <2>2 DEF SubmitRec
  <2>3. CASE submit' = [submit EXCEPT !.pc = "captured"]
    BY <2>1, <2>3 DEF SubmitRec
  <2>4. CASE c # None /\ submit' = [submit EXCEPT !.pc = "compile", !.meta = meta]
    <3> HIDE DEF meta
    <3> QED BY <1>14, <2>1, <2>4 DEF SubmitRec
  <2> QED BY <1>5, <2>2, <2>3, <2>4
<1>16. Types'
  BY <1>1, <1>3, <1>6, <1>11, <1>12, <1>13, <1>15 DEF Types, ServiceOk
<1>17. Trying'
  <2>1. Stage' = Stage /\ loaded'[Stage] = p
    BY <1>3, <1>15 DEF Stage
  <2> QED BY <1>2, <1>6, <1>15, <2>1, CaptureConstants DEF Trying
<1>18. PinnedIsDelivered'
  BY <1>1, <1>6, <1>8 DEF PinnedIsDelivered
<1>19. CacheIsFaithful' /\ CacheBounded'
  BY <1>13 DEF ServiceOk, CacheIsFaithful, CacheBounded
<1>20. Budget'
  <2> SUFFICES ASSUME NEW s \in S
               PROVE  IF memo'[s].tried
                      THEN seen'.tries[s] + MaxAttempts
                             <= MaxAttempts * seen'.changes[s] + memo'[s].attempts
                      ELSE seen'.tries[s] = 0 /\ seen'.changes[s] = 0
    BY DEF Budget
  <2>1. CASE s # Stage
    BY <1>1, <1>6, <1>7, <1>9, <2>1 DEF Budget
  <2>2. CASE s = Stage
    <3> DEFINE a == memo[s].attempts
               t == seen.tries[s]
               n == seen.changes[s]
    <3>1. /\ t \in Nat /\ n \in Nat /\ MaxAttempts \in Nat \ {0}
          /\ a \in Nat /\ a <= MaxAttempts
      BY <1>2, <1>7, <2>2, MemoFields, BoundFacts
    <3>2. /\ seen'.tries[s] = t + 1
          /\ seen'.changes[s] = IF same THEN n ELSE n + 1
      BY <1>7, <1>9, <2>2
    <3>3. IF memo[s].tried THEN t + MaxAttempts <= MaxAttempts * n + a
          ELSE t = 0 /\ n = 0
      BY <1>1 DEF Budget
    <3>4. MaxAttempts * (n + 1) = MaxAttempts * n + MaxAttempts
          /\ MaxAttempts * n \in Nat
      BY <3>1
    <3> HIDE DEF a, t, n
    <3>5. CASE same
      <4>1. memo'[s].attempts = a + 1 /\ memo[s].tried
        BY <1>6, <2>2, <3>5 DEF a
      <4>2. t + MaxAttempts <= MaxAttempts * n + a
        BY <3>3, <4>1
      <4>3. t + 1 + MaxAttempts <= MaxAttempts * n + (a + 1)
        BY <3>1, <3>4, <4>2
      <4> QED BY <1>6, <2>2, <3>2, <3>5, <4>1, <4>3
    <3>6. CASE ~same
      <4>1. memo'[s].attempts = 1
        BY <1>6, <2>2, <3>6
      <4>2. t <= MaxAttempts * n
        <5>1. CASE memo[s].tried
          BY <3>1, <3>3, <3>4, <5>1
        <5>2. CASE ~memo[s].tried
          BY <3>1, <3>3, <3>4, <5>2
        <5> QED BY <5>1, <5>2
      <4>3. t + 1 + MaxAttempts <= MaxAttempts * (n + 1) + 1
        BY <3>1, <3>4, <4>2
      <4> QED BY <1>6, <2>2, <3>2, <3>6, <4>1, <4>3
    <3> QED BY <3>5, <3>6
  <2> QED BY <2>1, <2>2
<1>21. Counts'
  <2>1. count.attempts + count.skips = seen.visits
        /\ service.recompiles + service.hits + service.failures + Waiting = seen.asked
    BY <1>1 DEF Counts
  <2>2. count'.attempts + count'.skips = seen'.visits
    BY <1>7, <1>8, <1>12, <2>1
  <2>3. service.recompiles \in Nat /\ service.hits \in Nat /\ service.failures \in Nat
    BY <1>13, ServiceFields DEF ServiceOk
  <2>4. Waiting \in Nat /\ Waiting' \in Nat
    BY DEF Waiting
  <2>5. service'.recompiles + service'.hits + service'.failures + Waiting' = seen'.asked
    <3>1. submit \in SubmitRec
      BY <1>1 DEF Types
    <3>2. CASE c = None /\ service' = service /\ submit' = [submit EXCEPT !.pc = "failed"]
      <4>1. submit'.pc = "failed"
        BY <3>1, <3>2 DEF SubmitRec
      <4>2. Waiting' = Waiting
        BY <1>2, <1>3, <4>1 DEF Waiting
      <4>3. seen'.asked = seen.asked
        BY <1>8, <3>2
      <4> QED BY <2>1, <3>2, <4>2, <4>3
    <3>3. CASE c # None /\ service' = Hit(service)
               /\ submit' = [submit EXCEPT !.pc = "captured"]
      <4>1. submit'.pc = "captured"
        BY <3>1, <3>3 DEF SubmitRec
      <4>2. Waiting' = Waiting
        BY <1>2, <1>3, <4>1 DEF Waiting
      <4>3. seen'.asked = seen.asked + 1
        BY <1>8, <3>3
      <4>4. /\ service'.hits = service.hits + 1
            /\ service'.recompiles = service.recompiles
            /\ service'.failures = service.failures
        BY <1>13, <3>3, HitOk
      <4> QED BY <1>7, <2>1, <2>3, <2>4, <4>2, <4>3, <4>4
    <3>4. CASE c # None /\ service' = service
               /\ submit' = [submit EXCEPT !.pc = "compile", !.meta = meta]
      <4> HIDE DEF meta
      <4>1. submit'.pc = "compile"
        BY <3>1, <3>4 DEF SubmitRec
      <4>2. Waiting' = Waiting + 1
        BY <1>2, <1>3, <4>1 DEF Waiting
      <4>3. seen'.asked = seen.asked + 1
        BY <1>8, <3>4
      <4>4. /\ service'.hits = service.hits
            /\ service'.recompiles = service.recompiles
            /\ service'.failures = service.failures
        BY <3>4
      <4> QED BY <1>7, <2>1, <2>3, <2>4, <4>2, <4>3, <4>4
    <3> QED BY <1>5, <3>2, <3>3, <3>4
  <2> QED BY <1>1, <1>8, <1>12, <1>15, <2>2, <2>5 DEF Counts
<1> QED BY <1>16, <1>17, <1>18, <1>19, <1>20, <1>21 DEF IInv

\* What was captured is pinned, and what was delivered too.
LEMMA DeliverStep ==
  ASSUME IInv, NEW moduleOk \in BOOLEAN, Deliver(moduleOk)
  PROVE  IInv'
<1> DEFINE p == loaded[Stage]
<1>1. /\ Types /\ Trying /\ PinnedIsDelivered /\ CacheIsFaithful /\ Budget /\ CacheBounded
      /\ Counts
  BY DEF IInv
<1>2. /\ submit \in SubmitRec /\ submit.pc = "captured" /\ submit.at \in DOMAIN Stages
      /\ p \in Programs \cup {None} /\ Stage \in S
      /\ memo[Stage].tried /\ memo[Stage].vaddr = p
  BY <1>1, StageFacts DEF Deliver, Types, Trying, Stage
<1>3. /\ submit' = Onward(submit) /\ outcomes' = Pushed(outcomes, Outcome(TRUE))
      /\ memo' = [memo EXCEPT ![Stage].ok = TRUE, ![Stage].moduleOk = @ \/ moduleOk]
      /\ count' = [count EXCEPT !.ok = @ + 1,
                     !.modules = IF moduleOk THEN @ + 1 ELSE @,
                     !.moduleFailures = IF sink /\ ~moduleOk THEN @ + 1 ELSE @]
      /\ seen' = [seen EXCEPT
           !.captured = @ \cup {<<Stage, p>>},
           !.delivered = IF moduleOk THEN @ \cup {<<Stage, p>>} ELSE @]
      /\ UNCHANGED <<code, loaded, sink, proof, service>>
  BY DEF Deliver
<1>4. /\ submit' \in SubmitRec /\ submit'.rc = submit.rc
      /\ submit'.pc \in {"next", "stage"}
      /\ submit'.pc = "stage" => submit'.at \in DOMAIN Stages
  BY <1>2, <1>3, OnwardFacts
<1>5. Outcome(TRUE) \in [stage : S, vaddr : Programs \cup {None}, ok : BOOLEAN]
  BY <1>2 DEF Outcome
<1>6. /\ outcomes' \in Seq([stage : S, vaddr : Programs \cup {None}, ok : BOOLEAN])
      /\ Len(outcomes') <= MaxOutcomes
  BY <1>1, <1>3, <1>5, PushedFacts DEF Types
<1> HIDE DEF p
<1>7. /\ memo' \in [S -> MemoRec]
      /\ \A s \in S : s # Stage => memo'[s] = memo[s]
      /\ memo'[Stage].tried = memo[Stage].tried
      /\ memo'[Stage].vaddr = memo[Stage].vaddr
      /\ memo'[Stage].attempts = memo[Stage].attempts
      /\ memo'[Stage].moduleOk => memo[Stage].moduleOk \/ moduleOk
  <2> DEFINE m == memo[Stage]
             n == [[m EXCEPT !.ok = TRUE] EXCEPT !.moduleOk = @ \/ moduleOk]
  <2>1. memo \in [S -> MemoRec] /\ m \in MemoRec
    BY <1>1, <1>2 DEF Types
  <2>2. memo' = [memo EXCEPT ![Stage] = n]
    BY <1>2, <1>3, <2>1
  <2>3. (m.moduleOk \/ moduleOk) \in BOOLEAN
    OBVIOUS
  <2>4. /\ n \in MemoRec /\ n.tried = m.tried /\ n.vaddr = m.vaddr
        /\ n.attempts = m.attempts /\ n.moduleOk = (m.moduleOk \/ moduleOk)
    BY <2>1, <2>3 DEF MemoRec
  <2> HIDE DEF n
  <2>5. memo'[Stage] = n
    BY <1>2, <2>1, <2>2
  <2>6. memo' \in [S -> MemoRec] /\ \A s \in S : s # Stage => memo'[s] = memo[s]
    BY <1>2, <2>1, <2>2, <2>4
  <2> QED BY <2>4, <2>5, <2>6
<1>8. /\ seen \in SeenRec
      /\ seen.captured \in SUBSET (S \X (Programs \cup {None}))
      /\ seen.delivered \in SUBSET (S \X (Programs \cup {None}))
  BY <1>1, SeenFields DEF Types
<1>9. /\ seen'.captured = seen.captured \cup {<<Stage, p>>}
      /\ seen'.delivered = IF moduleOk THEN seen.delivered \cup {<<Stage, p>>}
                           ELSE seen.delivered
      /\ seen'.tries = seen.tries /\ seen'.changes = seen.changes
      /\ seen'.visits = seen.visits /\ seen'.asked = seen.asked /\ seen'.bad = seen.bad
  BY <1>3, <1>8 DEF SeenRec
<1>10. seen' \in SeenRec
  <2>1. seen' = [seen EXCEPT !.captured = seen'.captured, !.delivered = seen'.delivered]
    BY <1>3, <1>8 DEF SeenRec
  <2>2. /\ seen'.captured \in SUBSET (S \X (Programs \cup {None}))
        /\ seen'.delivered \in SUBSET (S \X (Programs \cup {None}))
    BY <1>2, <1>8, <1>9
  <2> QED BY <1>8, <2>1, <2>2 DEF SeenRec
<1>11. /\ count' \in CountRec
       /\ count'.attempts = count.attempts /\ count'.skips = count.skips
       /\ count'.modules + count'.moduleFailures <= count'.ok
  <2>1. /\ count \in CountRec /\ count.ok \in Nat /\ count.modules \in Nat
        /\ count.moduleFailures \in Nat
        /\ count.modules + count.moduleFailures <= count.ok
    BY <1>1, CountFields DEF Types, Counts
  <2>2. /\ count'.attempts = count.attempts /\ count'.skips = count.skips
        /\ count'.ok = count.ok + 1
    BY <1>3, <2>1 DEF CountRec
  <2>3. /\ count'.modules = IF moduleOk THEN count.modules + 1 ELSE count.modules
        /\ count'.moduleFailures = IF sink /\ ~moduleOk THEN count.moduleFailures + 1
                                   ELSE count.moduleFailures
    BY <1>3, <2>1 DEF CountRec
  <2>4. count' = [count EXCEPT !.ok = count'.ok, !.modules = count'.modules,
                    !.moduleFailures = count'.moduleFailures]
    BY <1>3, <2>1 DEF CountRec
  <2>5. count'.ok \in Nat /\ count'.modules \in Nat /\ count'.moduleFailures \in Nat
    BY <2>1, <2>2, <2>3
  <2>6. count' \in CountRec
    BY <2>1, <2>4, <2>5 DEF CountRec
  <2> QED BY <2>1, <2>2, <2>3, <2>6
<1>12. Types'
  BY <1>1, <1>3, <1>4, <1>6, <1>7, <1>10, <1>11 DEF Types
<1>13. Trying'
  BY <1>4 DEF Trying
<1>14. PinnedIsDelivered'
  <2> SUFFICES ASSUME NEW s \in S
               PROVE  /\ memo'[s].ok => <<s, memo'[s].vaddr>> \in seen'.captured
                      /\ memo'[s].moduleOk => <<s, memo'[s].vaddr>> \in seen'.delivered
    BY DEF PinnedIsDelivered
  <2>1. CASE s # Stage
    BY <1>1, <1>7, <1>9, <2>1 DEF PinnedIsDelivered
  <2>2. CASE s = Stage
    <3>1. <<s, memo'[s].vaddr>> = <<Stage, p>>
      BY <1>2, <1>7, <2>2
    <3>2. memo[s].moduleOk => <<Stage, p>> \in seen.delivered
      BY <1>1, <1>2, <2>2 DEF PinnedIsDelivered
    <3> QED BY <1>7, <1>9, <2>2, <3>1, <3>2
  <2> QED BY <2>1, <2>2
<1>15. CacheIsFaithful' /\ CacheBounded'
  BY <1>1, <1>3 DEF CacheIsFaithful, CacheBounded
<1>16. Budget'
  <2>1. \A s \in S : /\ memo'[s].tried = memo[s].tried
                     /\ memo'[s].attempts = memo[s].attempts
    BY <1>7
  <2> QED BY <1>1, <1>9, <2>1 DEF Budget
<1>17. Counts'
  <2>1. Waiting' = Waiting
    BY <1>2, <1>3, <1>4 DEF Waiting
  <2> QED BY <1>1, <1>3, <1>4, <1>9, <1>11, <2>1 DEF Counts
<1> QED BY <1>12, <1>13, <1>14, <1>15, <1>16, <1>17 DEF IInv

-----------------------------------------------------------------------------
(* The theorems.                                                           *)

\* Every step keeps the invariant.
LEMMA NextIInv == IInv /\ [Next]_vars => IInv'
<1> SUFFICES ASSUME IInv, [Next]_vars PROVE IInv'
  OBVIOUS
<1>1. CASE Submission
  <2>1. CASE \E moduleOk \in BOOLEAN : Deliver(moduleOk)
    BY <2>1, DeliverStep
  <2> QED BY <1>1, <2>1, BufferStep, NoProgramStep, SkipStep, CaptureStep, CompileStep,
             CaptureFailsStep DEF Submission
<1>2. CASE \E n \in 1 .. MaxBuffers : SubmitDescriptors(n)
  BY <1>2, SubmitStep
<1>3. CASE \E p \in Programs, c \in Codes \cup {None} : Rewrite(p, c)
  BY <1>3, RewriteStep
<1>4. CASE \E meta \in Metas : ProofAsks(meta)
  BY <1>4, ProofAsksStep
<1>5. CASE ProofCompiles
  BY <1>5, ProofCompilesStep
<1>6. CASE SetShaderModuleSink \/ UNCHANGED vars
  BY <1>6, SinkStep
<1> QED BY <1>1, <1>2, <1>3, <1>4, <1>5, <1>6 DEF Next, Rest

\* The invariant holds throughout.
LEMMA Invariance == Spec => []IInv
BY InitIInv, NextIInv, PTL DEF Spec

\* The pins of SubmitDescriptors' memo are true of the programs they name, for any
\* number of stages and programs.
THEOREM PinsAreTrue == Spec => []PinnedIsDelivered
<1>1. IInv => PinnedIsDelivered
  BY DEF IInv
<1> QED BY <1>1, Invariance, PTL

\* Whatever the guest writes while the service compiles, an entry of its cache was
\* compiled from the code it is filed under.
THEOREM EntriesBelongToTheirKeys == Spec => []CacheIsFaithful
<1>1. IInv => CacheIsFaithful
  BY DEF IInv
<1> QED BY <1>1, Invariance, PTL

\* A stage reads guest memory at most MaxAttempts times for each change of its program,
\* for every MaxAttempts.
THEOREM ReadingIsBounded == Spec => []CostBounded
<1>1. IInv => CostBounded
  <2> SUFFICES ASSUME IInv, NEW s \in S
               PROVE  seen.tries[s] <= MaxAttempts * seen.changes[s]
    BY DEF CostBounded
  <2>1. /\ seen.tries[s] \in Nat /\ seen.changes[s] \in Nat /\ MaxAttempts \in Nat
        /\ memo[s].attempts \in Nat /\ memo[s].attempts <= MaxAttempts
    BY SeenFields, MemoFields, BoundFacts DEF IInv, Types
  <2>2. MaxAttempts * seen.changes[s] \in Nat
    BY <2>1
  <2>3. IF memo[s].tried
        THEN seen.tries[s] + MaxAttempts
               <= MaxAttempts * seen.changes[s] + memo[s].attempts
        ELSE seen.tries[s] = 0 /\ seen.changes[s] = 0
    BY DEF IInv, Budget
  <2>4. CASE memo[s].tried
    BY <2>1, <2>2, <2>3, <2>4
  <2>5. CASE ~memo[s].tried
    BY <2>1, <2>2, <2>3, <2>5
  <2> QED BY <2>4, <2>5
<1> QED BY <1>1, Invariance, PTL

\* Attempts, skips, hits, recompilations and failures add up to what was visited and
\* asked, the cache keeps to its limit, and a bad buffer is told of.
THEOREM CountersAreExact == Spec => []Accounted
<1>1. IInv => Accounted
  <2> SUFFICES ASSUME IInv PROVE Accounted
    OBVIOUS
  <2>1. TypeOK
    BY SubmitFields, MemoFields DEF IInv, Types, TypeOK
  <2>2. /\ count.attempts + count.skips = seen.visits
        /\ count.modules + count.moduleFailures <= count.ok
        /\ (submit.rc # 0) = seen.bad
    BY DEF IInv, Counts
  <2>3. service.recompiles + service.hits + service.failures
          + ((IF proof # None THEN 1 ELSE 0) + (IF submit.pc = "compile" THEN 1 ELSE 0))
        = seen.asked
    BY DEF IInv, Counts, Waiting
  <2>4. service.cached = Cardinality(service.cache) /\ service.cached <= MaxCache
    BY DEF IInv, CacheBounded
  <2> QED BY <2>1, <2>2, <2>3, <2>4 DEF Accounted
<1> QED BY <1>1, Invariance, PTL

-----------------------------------------------------------------------------
(* GnmStream: numbers and folds.                                          *)

\* A set of numbers has a least one.
LEMMA LeastNumber ==
  ASSUME NEW Y \in SUBSET Nat, Y # {}
  PROVE  \E n \in Y : \A m \in Y : n <= m
<1>1. \E n \in Y : \A m \in Y : <<m, n>> \notin OpToRel(<, Nat)
  BY NatLessThanWellFounded, WFMin, Zenon
<1>2. ASSUME NEW m \in Nat, NEW n \in Nat, m < n
      PROVE  <<m, n>> \in OpToRel(<, Nat)
  <2>1. <<m, n>> \in Nat \X Nat /\ <<m, n>>[1] = m /\ <<m, n>>[2] = n
    OBVIOUS
  <2> QED
    BY <1>2, <2>1 DEF OpToRel
<1>3. PICK n \in Y : \A m \in Y : <<m, n>> \notin OpToRel(<, Nat)
  BY <1>1
<1>4. ASSUME NEW m \in Y PROVE n <= m
  <2>1. m \in Nat /\ n \in Nat
    OBVIOUS
  <2>2. ~(m < n)
    BY <1>2, <1>3, <2>1
  <2> QED
    BY <2>1, <2>2
<1> QED
  BY <1>3, <1>4

\* The greatest element of a part of 1 .. m that has m.
LEMMA GreatestIs ==
  ASSUME NEW m \in Nat \ {0}, NEW Y \in SUBSET (1 .. m), m \in Y
  PROVE  Max(Y) = m
<1>1. \A y \in Y : m >= y
  OBVIOUS
<1>2. \A x \in Y : (\A y \in Y : x >= y) => x = m
  OBVIOUS
<1> QED
  BY <1>1, <1>2 DEF Max

\* There is one.
LEMMA GreatestExists ==
  ASSUME NEW n \in Nat, NEW Y \in SUBSET (1 .. n), Y # {}
  PROVE  Max(Y) \in Y /\ \A y \in Y : Max(Y) >= y
<1> DEFINE D == {n - x : x \in Y}
<1>1. D \in SUBSET Nat /\ D # {}
  <2>1. ASSUME NEW x \in Y PROVE n - x \in Nat
    OBVIOUS
  <2> QED
    BY <2>1
<1>2. PICK d \in D : \A x \in D : d <= x
  <2> HIDE DEF D
  <2> QED
    BY <1>1, LeastNumber
<1>3. PICK m \in Y : d = n - m
  BY <1>2
<1>4. ASSUME NEW y \in Y PROVE m >= y
  <2>1. n - m <= n - y
    BY <1>2, <1>3
  <2> QED
    BY <1>3, <2>1
<1> QED
  BY <1>3, <1>4 DEF Max

\* A function that folds every part of 1 .. n, its greatest element last.
Folding(f, V, n, base, step) ==
  /\ f \in [SUBSET (1 .. n) -> V]
  /\ \A Y \in SUBSET (1 .. n) :
       f[Y] = IF Y = {} THEN base ELSE step[Max(Y)][f[Y \ {Max(Y)}]]

\* A fold of one element more.
LEMMA FoldingLonger ==
  ASSUME NEW V, NEW m \in Nat \ {0}, NEW base \in V, NEW step, step[m] \in [V -> V],
         NEW f, Folding(f, V, m - 1, base, step)
  PROVE  \E g : Folding(g, V, m, base, step)
<1> DEFINE g == [Y \in SUBSET (1 .. m) |-> IF m \in Y THEN step[m][f[Y \ {m}]] ELSE f[Y]]
<1>1. \A Y \in SUBSET (1 .. m) : Y \ {m} \in SUBSET (1 .. m - 1)
  <2>1. (1 .. m) \ {m} = 1 .. m - 1
    OBVIOUS
  <2>2. \A Y \in SUBSET (1 .. m) : Y \ {m} \in SUBSET ((1 .. m) \ {m})
    OBVIOUS
  <2> QED
    BY <2>1, <2>2
<1>2. \A Y \in SUBSET (1 .. m) : m \notin Y => Y \in SUBSET (1 .. m - 1)
  OBVIOUS
<1>3. g \in [SUBSET (1 .. m) -> V]
  BY <1>1, <1>2 DEF Folding
<1>4. ASSUME NEW Y \in SUBSET (1 .. m)
      PROVE  g[Y] = IF Y = {} THEN base ELSE step[Max(Y)][g[Y \ {Max(Y)}]]
  <2>1. CASE m \in Y
    <3>1. Max(Y) = m
      BY <2>1, GreatestIs
    <3>2. g[Y \ {m}] = f[Y \ {m}]
      BY <1>1
    <3> QED
      BY <2>1, <3>1, <3>2
  <2>2. CASE m \notin Y
    <3>1. Y \in SUBSET (1 .. m - 1) /\ g[Y] = f[Y]
      BY <1>2, <2>2
    <3>2. \A T \in SUBSET (1 .. m - 1) : g[T] = f[T]
      <4> TAKE T \in SUBSET (1 .. m - 1)
      <4>1. m \notin T /\ T \in SUBSET (1 .. m)
        OBVIOUS
      <4> QED
        BY <4>1
    <3>3. Y \ {Max(Y)} \in SUBSET (1 .. m - 1)
      BY <3>1
    <3> QED
      BY <3>1, <3>2, <3>3 DEF Folding
  <2> QED
    BY <2>1, <2>2
<1> QED
  BY <1>3, <1>4 DEF Folding

\* There is such a function.
LEMMA FoldingExists ==
  ASSUME NEW V, NEW n \in Nat, NEW base \in V, NEW step \in [1 .. n -> [V -> V]]
  PROVE  \E f : Folding(f, V, n, base, step)
<1> DEFINE Bad == {m \in 0 .. n : ~\E f : Folding(f, V, m, base, step)}
<1> SUFFICES ASSUME Bad # {}
             PROVE  FALSE
  OBVIOUS
<1>0. Bad \in SUBSET Nat
  OBVIOUS
<1>1. PICK m \in Bad : \A k \in Bad : m <= k
  <2> HIDE DEF Bad
  <2> QED
    BY <1>0, LeastNumber
<1>2. CASE m = 0
  <2>1. Folding([Y \in SUBSET (1 .. 0) |-> base], V, 0, base, step)
    BY DEF Folding
  <2> QED
    BY <1>2, <2>1
<1>3. CASE m # 0
  <2>1. m - 1 \in 0 .. n /\ m - 1 \notin Bad /\ m \in Nat \ {0} /\ m \in 1 .. n
    BY <1>1, <1>3
  <2>2. PICK f : Folding(f, V, m - 1, base, step)
    BY <2>1
  <2>3. step[m] \in [V -> V]
    BY <2>1
  <2>4. \E g : Folding(g, V, m, base, step)
    BY <2>1, <2>2, <2>3, FoldingLonger
  <2> QED
    BY <2>4
<1> QED
  BY <1>2, <1>3
-----------------------------------------------------------------------------
(* The state of the decoder, typed.                                        *)

DrawRecs     == [kind : {"draw", "drawIndexed"}, seq : Nat, instances : Nat, indexType : Nat]
DispatchRecs == [kind : {"dispatch"}, seq : Nat, value : Nat]
WriteRecs    == [kind : Named, seq : Nat, value : Nat, paired : Nat]

GnmStates == [
  bank : [Regs -> Values \cup {0}], written : SUBSET Regs,
  total : Nat, named : Nat, carried : Nat, outside : Nat,
  seq : Nat, indexType : Nat, instances : Nat,
  draws : Seq(DrawRecs), dispatches : Seq(DispatchRecs), writes : Seq(WriteRecs)]

\* The packets a walk gets to.
Walkable == Packets \ Truncated

\* What a packet can be.
LEMMA PacketKinds ==
  ASSUME NEW p \in Walkable
  PROVE  \/ p.op = "set" /\ p.reg \in Named /\ p.value \in Values
         \/ p.op = "set" /\ p.reg \in {"other", "outside"} /\ p.value = 0
         \/ p.op = "indexType" /\ p.value \in Values
         \/ p.op \in {"instances", "dispatch"} /\ p.value \in Amounts
         \/ p.op = "draw" /\ p.indexed \in BOOLEAN
         \/ p.op = "skipped"
BY DEF Walkable, Packets, Truncated, SetRegs, SetOthers, Settings, Draws, Skipped

\* A log with one more record.
LEMMA LoggedType ==
  ASSUME NEW R, NEW log \in Seq(R), NEW r \in R, NEW max \in Nat \ {0}
  PROVE  /\ Logged(log, r, max) \in Seq(R)
         /\ Len(log) < max => /\ Len(Logged(log, r, max)) = Len(log) + 1
                              /\ \A k \in 1 .. Len(log) : Logged(log, r, max)[k] = log[k]
                              /\ Logged(log, r, max)[Len(log) + 1] = r
         /\ Len(log) = max => /\ Len(Logged(log, r, max)) = max
                              /\ \A k \in 1 .. max - 1 : Logged(log, r, max)[k] = log[k + 1]
                              /\ Logged(log, r, max)[max] = r
<1>1. CASE Len(log) < max
  BY <1>1 DEF Logged
<1>2. CASE ~(Len(log) < max)
  <2>1. log # <<>>
    BY <1>2
  <2>2. Tail(log) \in Seq(R) /\ Len(Tail(log)) = Len(log) - 1
    BY <2>1
  <2>3. \A k \in 1 .. Len(log) - 1 : Tail(log)[k] = log[k + 1]
    BY <2>1
  <2>4. Logged(log, r, max) = Append(Tail(log), r)
    BY <1>2 DEF Logged
  <2>5. Logged(log, r, max) \in Seq(R) /\ Len(Logged(log, r, max)) = Len(log)
    BY <2>2, <2>4
  <2> QED
    <3>1. \A k \in 1 .. Len(log) - 1 : Logged(log, r, max)[k] = log[k + 1]
      BY <2>2, <2>3, <2>4
    <3>2. Logged(log, r, max)[Len(log)] = r
      BY <2>2, <2>4
    <3> QED
      BY <1>2, <2>5, <3>1, <3>2
<1> QED
  BY <1>1, <1>2

\* What a write does to the register file.
Banked(g, r, v) == [g EXCEPT !.bank[r] = v, !.written = @ \cup {r}, !.total = @ + 1]

\* The value is in the bank and counted, and nothing else changes.
LEMMA BankWritten ==
  ASSUME NEW g \in GnmStates, NEW r \in Regs, NEW v \in Values \cup {0}
  PROVE  LET a == Banked(g, r, v)
         IN  /\ a \in GnmStates
             /\ a.bank = [g.bank EXCEPT ![r] = v] /\ a.written = g.written \cup {r}
             /\ a.total = g.total + 1 /\ a.named = g.named /\ a.carried = g.carried
             /\ a.outside = g.outside /\ a.seq = g.seq
             /\ a.indexType = g.indexType /\ a.instances = g.instances
             /\ a.draws = g.draws /\ a.dispatches = g.dispatches /\ a.writes = g.writes
<1> DEFINE b == [g.bank EXCEPT ![r] = v]
           w == g.written \cup {r}
           t == g.total + 1
<1>1. Banked(g, r, v)
      = [g EXCEPT !.bank = b, !.written = w, !.total = t]
  BY DEF GnmStates, Banked
<1>2. b \in [Regs -> Values \cup {0}] /\ w \in SUBSET Regs /\ t \in Nat
  BY DEF GnmStates
<1> HIDE DEF b, w, t
<1>3. [g EXCEPT !.bank = b, !.written = w, !.total = t] \in GnmStates
  BY <1>2 DEF GnmStates
<1>4. LET a == [g EXCEPT !.bank = b, !.written = w, !.total = t]
      IN  /\ a.bank = b /\ a.written = w
          /\ a.total = t /\ a.named = g.named /\ a.carried = g.carried
          /\ a.outside = g.outside /\ a.seq = g.seq
          /\ a.indexType = g.indexType /\ a.instances = g.instances
          /\ a.draws = g.draws /\ a.dispatches = g.dispatches /\ a.writes = g.writes
  BY DEF GnmStates
<1> DEFINE a == [g EXCEPT !.bank = b, !.written = w, !.total = t]
<1> HIDE DEF a
<1>5. a = Banked(g, r, v)
  BY <1>1 DEF a
<1>6. /\ a \in GnmStates
      /\ a.bank = b /\ a.written = w
      /\ a.total = t /\ a.named = g.named /\ a.carried = g.carried
      /\ a.outside = g.outside /\ a.seq = g.seq
      /\ a.indexType = g.indexType /\ a.instances = g.instances
      /\ a.draws = g.draws /\ a.dispatches = g.dispatches /\ a.writes = g.writes
  BY <1>3, <1>4 DEF a
<1> QED
  BY <1>5, <1>6, Zenon DEF b, w, t

\* What a named write does to the numbers and the counters.
Tallied(a, r) ==
  [a EXCEPT !.seq = @ + 1, !.named = @ + 1,
            !.carried = IF r = "INDEX" THEN @ + 1 ELSE @]

\* A named write is numbered and counted.
LEMMA Numbering ==
  ASSUME NEW a \in GnmStates, NEW r
  PROVE  LET n == Tallied(a, r)
         IN  /\ n \in GnmStates
             /\ n.bank = a.bank /\ n.written = a.written
             /\ n.total = a.total /\ n.named = a.named + 1
             /\ n.carried = IF r = "INDEX" THEN a.carried + 1 ELSE a.carried
             /\ n.outside = a.outside /\ n.seq = a.seq + 1
             /\ n.indexType = a.indexType /\ n.instances = a.instances
             /\ n.draws = a.draws /\ n.dispatches = a.dispatches /\ n.writes = a.writes
<1> DEFINE x == a.seq + 1
           y == a.named + 1
           z == IF r = "INDEX" THEN a.carried + 1 ELSE a.carried
<1>1. [a EXCEPT !.seq = @ + 1, !.named = @ + 1,
                !.carried = IF r = "INDEX" THEN @ + 1 ELSE @]
      = [a EXCEPT !.seq = x, !.named = y, !.carried = z]
  BY DEF GnmStates
<1>2. x \in Nat /\ y \in Nat /\ z \in Nat
  BY DEF GnmStates
<1> HIDE DEF x, y, z
<1> DEFINE n == [a EXCEPT !.seq = x, !.named = y, !.carried = z]
<1>3. /\ n \in GnmStates /\ n.bank = a.bank /\ n.written = a.written
      /\ n.total = a.total /\ n.named = y /\ n.carried = z
      /\ n.outside = a.outside /\ n.seq = x
      /\ n.indexType = a.indexType /\ n.instances = a.instances
      /\ n.draws = a.draws /\ n.dispatches = a.dispatches /\ n.writes = a.writes
  BY <1>2 DEF GnmStates
<1> HIDE DEF n
<1>4. n = Tallied(a, r)
  BY <1>1 DEF n, Tallied
<1> QED
  BY <1>3, <1>4, Zenon DEF x, y, z

\* A write of a register that is in no log.
LEMMA WriteOther ==
  ASSUME NEW g \in GnmStates
  PROVE  LET h == WriteRegister(g, "other", 0)
         IN  /\ h \in GnmStates
             /\ h.bank = [g.bank EXCEPT !["other"] = 0] /\ h.written = g.written \cup {"other"}
             /\ h.total = g.total + 1 /\ h.named = g.named /\ h.carried = g.carried
             /\ h.outside = g.outside /\ h.seq = g.seq
             /\ h.indexType = g.indexType /\ h.instances = g.instances
             /\ h.draws = g.draws /\ h.dispatches = g.dispatches /\ h.writes = g.writes
<1>1. "other" \in Regs /\ "other" \notin Named
  BY DEF Regs, Named
<1>2. WriteRegister(g, "other", 0) = Banked(g, "other", 0)
  BY <1>1 DEF WriteRegister, Banked
<1>3. 0 \in Values \cup {0}
  OBVIOUS
<1> DEFINE a == Banked(g, "other", 0)
<1>4. /\ a \in GnmStates
      /\ a.bank = [g.bank EXCEPT !["other"] = 0] /\ a.written = g.written \cup {"other"}
      /\ a.total = g.total + 1 /\ a.named = g.named /\ a.carried = g.carried
      /\ a.outside = g.outside /\ a.seq = g.seq
      /\ a.indexType = g.indexType /\ a.instances = g.instances
      /\ a.draws = g.draws /\ a.dispatches = g.dispatches /\ a.writes = g.writes
  BY <1>1, <1>3, BankWritten, Zenon
<1> HIDE DEF a
<1>5. WriteRegister(g, "other", 0) = a
  BY <1>2 DEF a
<1> QED
  BY <1>4, <1>5, Zenon

\* A write of one that is nowhere.
LEMMA WriteOutside ==
  ASSUME NEW g \in GnmStates
  PROVE  LET h == WriteRegister(g, "outside", 0)
         IN  /\ h \in GnmStates
             /\ h.bank = g.bank /\ h.written = g.written
             /\ h.total = g.total /\ h.named = g.named /\ h.carried = g.carried
             /\ h.outside = g.outside + 1 /\ h.seq = g.seq
             /\ h.indexType = g.indexType /\ h.instances = g.instances
             /\ h.draws = g.draws /\ h.dispatches = g.dispatches /\ h.writes = g.writes
<1>1. WriteRegister(g, "outside", 0) = [g EXCEPT !.outside = @ + 1]
  BY DEF WriteRegister, Regs, Named
<1>2. g.outside + 1 \in Nat /\ [g EXCEPT !.outside = @ + 1] = [g EXCEPT !.outside = g.outside + 1]
  BY DEF GnmStates
<1> DEFINE x == g.outside + 1
<1> HIDE DEF x
<1>3. LET h == [g EXCEPT !.outside = x]
      IN  /\ h \in GnmStates
          /\ h.bank = g.bank /\ h.written = g.written
          /\ h.total = g.total /\ h.named = g.named /\ h.carried = g.carried
          /\ h.outside = x /\ h.seq = g.seq
          /\ h.indexType = g.indexType /\ h.instances = g.instances
          /\ h.draws = g.draws /\ h.dispatches = g.dispatches /\ h.writes = g.writes
  BY <1>2 DEF GnmStates, x
<1> QED
  BY <1>1, <1>2, <1>3, Zenon DEF x

\* The record of a named write.
JournalRecord(g, r, v) ==
  [kind |-> r, seq |-> g.seq + 1, value |-> v,
   paired |-> IF r = "BR" /\ "TL" \in g.written THEN g.bank["TL"] ELSE 0]

\* A write of a named register, field by field.
LEMMA WriteNamed ==
  ASSUME NEW g \in GnmStates, NEW r \in Named, NEW v \in Values
  PROVE  LET h == WriteRegister(g, r, v)
         IN  /\ h \in GnmStates
             /\ h.bank = [g.bank EXCEPT ![r] = v] /\ h.written = g.written \cup {r}
             /\ h.total = g.total + 1 /\ h.named = g.named + 1
             /\ h.carried = IF r = "INDEX" THEN g.carried + 1 ELSE g.carried
             /\ h.outside = g.outside /\ h.seq = g.seq + 1
             /\ h.indexType = g.indexType /\ h.instances = g.instances
             /\ h.draws = g.draws /\ h.dispatches = g.dispatches
             /\ JournalRecord(g, r, v) \in WriteRecs
             /\ h.writes = Logged(g.writes, JournalRecord(g, r, v), MaxNamedWriteLog)
<1> DEFINE a == Banked(g, r, v)
           n == Tallied(a, r)
           h == [n EXCEPT !.writes = Logged(@, Journaled(n, r, v), MaxNamedWriteLog)]
<1>1. r \in Regs /\ v \in Nat /\ v \in Values \cup {0} /\ MaxNamedWriteLog \in Nat \ {0}
  BY StreamConstants DEF Regs
<1>2. WriteRegister(g, r, v) = h
  BY <1>1 DEF WriteRegister, Banked, Tallied
<1>3. /\ a \in GnmStates
      /\ a.bank = [g.bank EXCEPT ![r] = v] /\ a.written = g.written \cup {r}
      /\ a.total = g.total + 1 /\ a.named = g.named /\ a.carried = g.carried
      /\ a.outside = g.outside /\ a.seq = g.seq
      /\ a.indexType = g.indexType /\ a.instances = g.instances
      /\ a.draws = g.draws /\ a.dispatches = g.dispatches /\ a.writes = g.writes
  BY <1>1, BankWritten, Zenon
<1>4. /\ n \in GnmStates
      /\ n.bank = a.bank /\ n.written = a.written
      /\ n.total = a.total /\ n.named = a.named + 1
      /\ n.carried = IF r = "INDEX" THEN a.carried + 1 ELSE a.carried
      /\ n.outside = a.outside /\ n.seq = a.seq + 1
      /\ n.indexType = a.indexType /\ n.instances = a.instances
      /\ n.draws = a.draws /\ n.dispatches = a.dispatches /\ n.writes = a.writes
  <2> HIDE DEF a
  <2>1. a \in GnmStates
    BY <1>3
  <2> QED
    BY <2>1, Numbering, Zenon
<1>5. Journaled(n, r, v) = JournalRecord(g, r, v)
  <2>1. r = "BR" => (("TL" \in n.written) <=> ("TL" \in g.written)) /\ n.bank["TL"] = g.bank["TL"]
    <3> HIDE DEF a, n
    <3> QED
      BY <1>3, <1>4 DEF GnmStates, Regs, Named
  <2>2. n.seq = g.seq + 1
    BY <1>3, <1>4
  <2> HIDE DEF n, a
  <2> QED
    BY <2>1, <2>2 DEF Journaled, JournalRecord
<1>6. JournalRecord(g, r, v) \in WriteRecs
  <2>1. g.bank \in [Regs -> Values \cup {0}] /\ g.seq \in Nat /\ "TL" \in Regs /\ Values \subseteq Nat
    BY StreamConstants DEF GnmStates, Regs, Named
  <2>2. g.bank["TL"] \in Nat /\ g.seq + 1 \in Nat
    <3>1. g.bank["TL"] \in Values \cup {0}
      BY <2>1
    <3>2. g.seq + 1 \in Nat
      BY <2>1
    <3>3. \A x \in Values \cup {0} : x \in Nat
      BY <2>1
    <3>4. g.bank["TL"] \in Nat
      BY <3>1, <3>3, Zenon
    <3> QED
      BY <3>2, <3>4
  <2> DEFINE p == IF r = "BR" /\ "TL" \in g.written THEN g.bank["TL"] ELSE 0
             q == g.seq + 1
  <2>3. p \in Nat /\ q \in Nat
    BY <2>2
  <2> HIDE DEF p, q
  <2>4. [kind |-> r, seq |-> q, value |-> v, paired |-> p] \in WriteRecs
    BY <1>1, <2>3 DEF WriteRecs
  <2> QED
    BY <2>4 DEF JournalRecord, p, q
<1>7. Logged(g.writes, JournalRecord(g, r, v), MaxNamedWriteLog) \in Seq(WriteRecs)
  <2>1. g.writes \in Seq(WriteRecs)
    BY DEF GnmStates
  <2> QED
    BY <1>1, <1>6, <2>1, LoggedType
<1>8. /\ h \in GnmStates
      /\ h.bank = n.bank /\ h.written = n.written
      /\ h.total = n.total /\ h.named = n.named /\ h.carried = n.carried
      /\ h.outside = n.outside /\ h.seq = n.seq
      /\ h.indexType = n.indexType /\ h.instances = n.instances
      /\ h.draws = n.draws /\ h.dispatches = n.dispatches
      /\ h.writes = Logged(g.writes, JournalRecord(g, r, v), MaxNamedWriteLog)
  <2>1. n.writes = g.writes
    BY <1>3, <1>4
  <2> HIDE DEF n, a
  <2> QED
    BY <1>4, <1>5, <1>7, <2>1 DEF GnmStates
<1> HIDE DEF h, n, a
<1> QED
  BY <1>2, <1>3, <1>4, <1>6, <1>8

-----------------------------------------------------------------------------
(* What a packet does to the state.                                        *)

\* The register a named write is to.
Target(p) == IF p.op = "set" THEN p.reg ELSE "INDEX"

\* The top left corner that is in force.
Corner(g) == IF "TL" \in g.written THEN g.bank["TL"] ELSE 0

\* What a packet puts in the logs.
DrawRecord(g, p) ==
  [kind |-> IF p.indexed THEN "drawIndexed" ELSE "draw", seq |-> g.seq + 1,
   instances |-> g.instances, indexType |-> g.indexType]
DispatchRecord(g, p) == [kind |-> "dispatch", seq |-> g.seq + 1, value |-> p.value]
WriteRecord(g, p) ==
  [kind |-> Target(p), seq |-> g.seq + 1, value |-> p.value,
   paired |-> IF Target(p) = "BR" THEN Corner(g) ELSE 0]

\* Whether a packet writes one of some registers.
WritesIn(p, Y) == \E r \in Y : Writes(p, r)

\* The counters and the logs after a packet.
After(g, p, h) ==
  /\ h \in GnmStates
  /\ h.total = IF WritesIn(p, Regs) THEN g.total + 1 ELSE g.total
  /\ h.named = IF WritesIn(p, Named) THEN g.named + 1 ELSE g.named
  /\ h.carried = IF WritesIn(p, {"INDEX"}) THEN g.carried + 1 ELSE g.carried
  /\ h.outside = IF WritesIn(p, {"outside"}) THEN g.outside + 1 ELSE g.outside
  /\ h.seq = IF Class(p) # "none" THEN g.seq + 1 ELSE g.seq
  /\ h.instances = IF p.op = "instances" THEN p.value ELSE g.instances
  /\ h.indexType = IF p.op = "indexType" THEN p.value ELSE g.indexType
  /\ Corner(h) = IF Writes(p, "TL") THEN p.value ELSE Corner(g)
  /\ Class(p) = "draws" => DrawRecord(g, p) \in DrawRecs
  /\ h.draws = IF Class(p) = "draws" THEN Logged(g.draws, DrawRecord(g, p), MaxDrawLog)
               ELSE g.draws
  /\ Class(p) = "dispatches" => DispatchRecord(g, p) \in DispatchRecs
  /\ h.dispatches = IF Class(p) = "dispatches"
                    THEN Logged(g.dispatches, DispatchRecord(g, p), MaxDispatchLog)
                    ELSE g.dispatches
  /\ Class(p) = "writes" => WriteRecord(g, p) \in WriteRecs
  /\ h.writes = IF Class(p) = "writes"
                THEN Logged(g.writes, WriteRecord(g, p), MaxNamedWriteLog)
                ELSE g.writes

\* What a packet of each kind writes, and its class.
LEMMA PacketWrites ==
  ASSUME NEW p \in Walkable
  PROVE  /\ p.op = "set" => \A r : Writes(p, r) <=> r = p.reg
         /\ p.op = "indexType" => \A r : Writes(p, r) <=> r = "INDEX"
         /\ p.op \notin {"set", "indexType"} => \A r : ~Writes(p, r)
BY DEF Writes

\* The class of a packet follows from its kind.
LEMMA PacketClass ==
  ASSUME NEW p \in Walkable
  PROVE  /\ p.op = "set" /\ p.reg \in Named => Class(p) = "writes"
         /\ p.op = "set" /\ p.reg \notin Named => Class(p) = "none"
         /\ p.op = "indexType" => Class(p) = "writes"
         /\ p.op = "draw" => Class(p) = "draws"
         /\ p.op = "dispatch" => Class(p) = "dispatches"
         /\ p.op \in {"instances", "skipped"} => Class(p) = "none"
<1>1. p.op = "set" /\ p.reg \in Named => Class(p) = "writes"
  BY PacketWrites DEF Class
<1>2. p.op = "set" /\ p.reg \notin Named => Class(p) = "none"
  BY PacketWrites DEF Class
<1>3. p.op = "indexType" => Class(p) = "writes"
  BY PacketWrites DEF Class, Named
<1>4. p.op = "draw" => Class(p) = "draws"
  BY PacketWrites DEF Class
<1>5. p.op = "dispatch" => Class(p) = "dispatches"
  BY PacketWrites DEF Class
<1>6. p.op \in {"instances", "skipped"} => Class(p) = "none"
  BY PacketWrites DEF Class
<1> QED
  BY <1>1, <1>2, <1>3, <1>4, <1>5, <1>6

\* A named register.
LEMMA SetNamedStep ==
  ASSUME NEW g \in GnmStates, NEW p \in Walkable, p.op = "set", p.reg \in Named, p.value \in Values
  PROVE  After(g, p, Execute(g, p))
<1> DEFINE h == WriteRegister(g, p.reg, p.value)
<1>1. Execute(g, p) = h
  BY DEF Execute
<1>2. /\ h \in GnmStates
      /\ h.bank = [g.bank EXCEPT ![p.reg] = p.value] /\ h.written = g.written \cup {p.reg}
      /\ h.total = g.total + 1 /\ h.named = g.named + 1
      /\ h.carried = IF p.reg = "INDEX" THEN g.carried + 1 ELSE g.carried
      /\ h.outside = g.outside /\ h.seq = g.seq + 1
      /\ h.indexType = g.indexType /\ h.instances = g.instances
      /\ h.draws = g.draws /\ h.dispatches = g.dispatches
      /\ JournalRecord(g, p.reg, p.value) \in WriteRecs
      /\ h.writes = Logged(g.writes, JournalRecord(g, p.reg, p.value), MaxNamedWriteLog)
  BY WriteNamed, Zenon
<1> HIDE DEF h
<1>3. JournalRecord(g, p.reg, p.value) = WriteRecord(g, p)
  BY DEF JournalRecord, WriteRecord, Target, Corner
<1>4. Class(p) = "writes"
  BY PacketClass
<1>5. \A r : Writes(p, r) <=> r = p.reg
  BY PacketWrites
<1>6. Corner(h) = IF Writes(p, "TL") THEN p.value ELSE Corner(g)
  <2>1. g.bank \in [Regs -> Values \cup {0}] /\ "TL" \in Regs
    BY DEF GnmStates, Regs, Named
  <2> QED
    BY <1>2, <1>5, <2>1 DEF Corner
<1>7. /\ WritesIn(p, Regs) /\ WritesIn(p, Named)
      /\ WritesIn(p, {"INDEX"}) <=> p.reg = "INDEX"
      /\ ~WritesIn(p, {"outside"})
  BY <1>5 DEF WritesIn, Regs, Named
<1> QED
  BY <1>1, <1>2, <1>3, <1>4, <1>6, <1>7 DEF After

\* Any other register.
LEMMA SetOtherStep ==
  ASSUME NEW g \in GnmStates, NEW p \in Walkable, p.op = "set", p.reg \in {"other", "outside"},
         p.value = 0
  PROVE  After(g, p, Execute(g, p))
<1> DEFINE h == WriteRegister(g, p.reg, p.value)
<1>1. Execute(g, p) = h
  BY DEF Execute
<1>2. /\ h \in GnmStates
      /\ h.bank["TL"] = g.bank["TL"] /\ ("TL" \in h.written <=> "TL" \in g.written)
      /\ h.total = IF p.reg = "other" THEN g.total + 1 ELSE g.total
      /\ h.named = g.named /\ h.carried = g.carried
      /\ h.outside = IF p.reg = "outside" THEN g.outside + 1 ELSE g.outside
      /\ h.seq = g.seq
      /\ h.indexType = g.indexType /\ h.instances = g.instances
      /\ h.draws = g.draws /\ h.dispatches = g.dispatches /\ h.writes = g.writes
  <2>1. g.bank \in [Regs -> Values \cup {0}] /\ "TL" \in Regs /\ "TL" # "other"
    BY DEF GnmStates, Regs, Named
  <2>2. CASE p.reg = "other"
    <3>1. h = WriteRegister(g, "other", 0)
      BY <2>2
    <3> HIDE DEF h
    <3>2. h.bank = [g.bank EXCEPT !["other"] = 0] /\ h.written = g.written \cup {"other"}
      BY <3>1, WriteOther, Zenon
    <3>3. h.bank["TL"] = g.bank["TL"] /\ ("TL" \in h.written <=> "TL" \in g.written)
      BY <2>1, <3>2
    <3>4. /\ h \in GnmStates
          /\ h.total = g.total + 1 /\ h.named = g.named /\ h.carried = g.carried
          /\ h.outside = g.outside /\ h.seq = g.seq
          /\ h.indexType = g.indexType /\ h.instances = g.instances
          /\ h.draws = g.draws /\ h.dispatches = g.dispatches /\ h.writes = g.writes
      BY <3>1, WriteOther, Zenon
    <3> QED
      BY <2>2, <3>3, <3>4
  <2>3. CASE p.reg = "outside"
    <3>1. h = WriteRegister(g, "outside", 0)
      BY <2>3
    <3> HIDE DEF h
    <3>2. /\ h \in GnmStates /\ h.bank = g.bank /\ h.written = g.written
          /\ h.total = g.total /\ h.named = g.named /\ h.carried = g.carried
          /\ h.outside = g.outside + 1 /\ h.seq = g.seq
          /\ h.indexType = g.indexType /\ h.instances = g.instances
          /\ h.draws = g.draws /\ h.dispatches = g.dispatches /\ h.writes = g.writes
      BY <3>1, WriteOutside, Zenon
    <3> QED
      BY <2>3, <3>2
  <2> QED
    BY <2>2, <2>3
<1> HIDE DEF h
<1>3. Class(p) = "none"
  BY PacketClass DEF Named
<1>4. \A r : Writes(p, r) <=> r = p.reg
  BY PacketWrites
<1>5. /\ WritesIn(p, Regs) <=> p.reg = "other"
      /\ ~WritesIn(p, Named) /\ ~WritesIn(p, {"INDEX"}) /\ ~Writes(p, "TL")
      /\ WritesIn(p, {"outside"}) <=> p.reg = "outside"
  BY <1>4 DEF WritesIn, Regs, Named
<1>6. Corner(h) = Corner(g)
  BY <1>2 DEF Corner
<1> QED
  BY <1>1, <1>2, <1>3, <1>5, <1>6 DEF After

\* The index type goes into the state and, as a register, into the journal.
LEMMA IndexTypeStep ==
  ASSUME NEW g \in GnmStates, NEW p \in Walkable, p.op = "indexType", p.value \in Values
  PROVE  After(g, p, Execute(g, p))
<1> DEFINE v == p.value
           a == [g EXCEPT !.indexType = v]
           h == WriteRegister(a, "INDEX", v)
<1>1. Execute(g, p) = h
  BY DEF Execute
<1>2. v \in Nat
  BY StreamConstants
<1>3. /\ a \in GnmStates
      /\ a.bank = g.bank /\ a.written = g.written
      /\ a.total = g.total /\ a.named = g.named /\ a.carried = g.carried
      /\ a.outside = g.outside /\ a.seq = g.seq
      /\ a.indexType = v /\ a.instances = g.instances
      /\ a.draws = g.draws /\ a.dispatches = g.dispatches /\ a.writes = g.writes
  <2> HIDE DEF v
  <2> QED
    BY <1>2 DEF GnmStates
<1> HIDE DEF a
<1>4. /\ h \in GnmStates
      /\ h.bank = [a.bank EXCEPT !["INDEX"] = v] /\ h.written = a.written \cup {"INDEX"}
      /\ h.total = a.total + 1 /\ h.named = a.named + 1
      /\ h.carried = a.carried + 1
      /\ h.outside = a.outside /\ h.seq = a.seq + 1
      /\ h.indexType = a.indexType /\ h.instances = a.instances
      /\ h.draws = a.draws /\ h.dispatches = a.dispatches
      /\ JournalRecord(a, "INDEX", v) \in WriteRecs
      /\ h.writes = Logged(a.writes, JournalRecord(a, "INDEX", v), MaxNamedWriteLog)
  <2>1. "INDEX" \in Named
    BY DEF Named
  <2> QED
    BY <1>3, <2>1, WriteNamed
<1> HIDE DEF h
<1>5. JournalRecord(a, "INDEX", v) = WriteRecord(g, p)
  BY <1>3 DEF JournalRecord, WriteRecord, Target
<1>6. Class(p) = "writes"
  BY PacketClass
<1>7. \A r : Writes(p, r) <=> r = "INDEX"
  BY PacketWrites
<1>8. Corner(h) = Corner(g) /\ ~Writes(p, "TL")
  <2>1. g.bank \in [Regs -> Values \cup {0}] /\ "TL" \in Regs
    BY DEF GnmStates, Regs, Named
  <2> QED
    BY <1>3, <1>4, <1>7, <2>1 DEF Corner
<1>9. WritesIn(p, Regs) /\ WritesIn(p, Named) /\ WritesIn(p, {"INDEX"}) /\ ~WritesIn(p, {"outside"})
  BY <1>7 DEF WritesIn, Regs, Named
<1> QED
  BY <1>1, <1>3, <1>4, <1>5, <1>6, <1>8, <1>9 DEF After

\* The number of instances is in no log.
LEMMA InstancesStep ==
  ASSUME NEW g \in GnmStates, NEW p \in Walkable, p.op = "instances", p.value \in Amounts
  PROVE  After(g, p, Execute(g, p))
<1> DEFINE v == p.value
           h == [g EXCEPT !.instances = v]
<1>1. Execute(g, p) = h
  BY DEF Execute
<1>2. v \in Nat
  BY StreamConstants
<1>3. /\ h \in GnmStates
      /\ h.bank = g.bank /\ h.written = g.written
      /\ h.total = g.total /\ h.named = g.named /\ h.carried = g.carried
      /\ h.outside = g.outside /\ h.seq = g.seq
      /\ h.indexType = g.indexType /\ h.instances = v
      /\ h.draws = g.draws /\ h.dispatches = g.dispatches /\ h.writes = g.writes
  <2> HIDE DEF v
  <2> QED
    BY <1>2 DEF GnmStates
<1> HIDE DEF h
<1>4. Class(p) = "none"
  BY PacketClass
<1>5. \A r : ~Writes(p, r)
  BY PacketWrites
<1> QED
  BY <1>1, <1>3, <1>4, <1>5 DEF After, WritesIn, Corner

\* A draw and a dispatch are recorded.
LEMMA DrawStep ==
  ASSUME NEW g \in GnmStates, NEW p \in Walkable, p.op = "draw", p.indexed \in BOOLEAN
  PROVE  After(g, p, Execute(g, p))
<1> DEFINE n == [g EXCEPT !.seq = @ + 1]
           d == DrawRecord(g, p)
           log == Logged(g.draws, d, MaxDrawLog)
           q == g.seq + 1
           h == [g EXCEPT !.seq = q, !.draws = log]
<1>0. q \in Nat /\ g.instances \in Nat /\ g.indexType \in Nat /\ g.draws \in Seq(DrawRecs)
  BY DEF GnmStates
<1>1. n.seq = q /\ n.draws = g.draws /\ n = [g EXCEPT !.seq = q]
  BY DEF GnmStates
<1>2. Execute(g, p) = h
  <2>1. Execute(g, p) = [n EXCEPT !.draws = Logged(@,
            [kind |-> IF p.indexed THEN "drawIndexed" ELSE "draw", seq |-> n.seq,
             instances |-> g.instances, indexType |-> g.indexType], MaxDrawLog)]
    BY DEF Execute, RecordDraw
  <2>2. Execute(g, p) = [n EXCEPT !.draws = log]
    <3> HIDE DEF n, q
    <3> QED
      BY <1>1, <2>1 DEF DrawRecord, q
  <2> HIDE DEF log, q
  <2>3. [[g EXCEPT !.seq = q] EXCEPT !.draws = log] = h
    BY DEF GnmStates
  <2> HIDE DEF n
  <2> QED
    BY <1>1, <2>2, <2>3
<1>3. d \in DrawRecs
  <2> HIDE DEF q
  <2> QED
    BY <1>0 DEF DrawRecs, DrawRecord, q
<1>4. log \in Seq(DrawRecs)
  BY <1>0, <1>3, LoggedType, StreamConstants
<1> HIDE DEF log, d, q, n
<1>5. /\ h \in GnmStates
      /\ h.bank = g.bank /\ h.written = g.written
      /\ h.total = g.total /\ h.named = g.named /\ h.carried = g.carried
      /\ h.outside = g.outside /\ h.seq = q
      /\ h.indexType = g.indexType /\ h.instances = g.instances
      /\ h.draws = log /\ h.dispatches = g.dispatches /\ h.writes = g.writes
  BY <1>0, <1>4 DEF GnmStates
<1> HIDE DEF h
<1>6. Class(p) = "draws"
  BY PacketClass
<1>7. \A r : ~Writes(p, r)
  BY PacketWrites
<1> QED
  BY <1>2, <1>3, <1>5, <1>6, <1>7 DEF After, WritesIn, Corner, log, d, q

\* A dispatch.
LEMMA DispatchStep ==
  ASSUME NEW g \in GnmStates, NEW p \in Walkable, p.op = "dispatch", p.value \in Amounts
  PROVE  After(g, p, Execute(g, p))
<1> DEFINE n == [g EXCEPT !.seq = @ + 1]
           d == DispatchRecord(g, p)
           log == Logged(g.dispatches, d, MaxDispatchLog)
           q == g.seq + 1
           h == [g EXCEPT !.seq = q, !.dispatches = log]
<1>0. q \in Nat /\ p.value \in Nat /\ g.dispatches \in Seq(DispatchRecs)
  <2>1. p.value \in Nat
    BY StreamConstants
  <2> QED
    BY <2>1 DEF GnmStates
<1>1. n.seq = q /\ n.dispatches = g.dispatches /\ n = [g EXCEPT !.seq = q]
  BY DEF GnmStates
<1>2. Execute(g, p) = h
  <2>1. Execute(g, p) = [n EXCEPT !.dispatches = Logged(@,
            [kind |-> "dispatch", seq |-> n.seq, value |-> p.value], MaxDispatchLog)]
    BY DEF Execute, RecordDispatch
  <2>2. Execute(g, p) = [n EXCEPT !.dispatches = log]
    <3> HIDE DEF n, q
    <3> QED
      BY <1>1, <2>1 DEF DispatchRecord, q
  <2> HIDE DEF log, q
  <2>3. [[g EXCEPT !.seq = q] EXCEPT !.dispatches = log] = h
    BY DEF GnmStates
  <2> HIDE DEF n
  <2> QED
    BY <1>1, <2>2, <2>3
<1>3. d \in DispatchRecs
  <2> HIDE DEF q
  <2> QED
    BY <1>0 DEF DispatchRecs, DispatchRecord, q
<1>4. log \in Seq(DispatchRecs)
  BY <1>0, <1>3, LoggedType, StreamConstants
<1> HIDE DEF log, d, q, n
<1>5. /\ h \in GnmStates
      /\ h.bank = g.bank /\ h.written = g.written
      /\ h.total = g.total /\ h.named = g.named /\ h.carried = g.carried
      /\ h.outside = g.outside /\ h.seq = q
      /\ h.indexType = g.indexType /\ h.instances = g.instances
      /\ h.draws = g.draws /\ h.dispatches = log /\ h.writes = g.writes
  BY <1>0, <1>4 DEF GnmStates
<1> HIDE DEF h
<1>6. Class(p) = "dispatches"
  BY PacketClass
<1>7. \A r : ~Writes(p, r)
  BY PacketWrites
<1> QED
  BY <1>2, <1>3, <1>5, <1>6, <1>7 DEF After, WritesIn, Corner, log, d, q

\* What the decoder does about any packet.
LEMMA PacketStep ==
  ASSUME NEW g \in GnmStates, NEW p \in Walkable
  PROVE  After(g, p, Execute(g, p))
<1>1. CASE p.op = "skipped"
  <2>1. Execute(g, p) = g
    BY <1>1 DEF Execute
  <2>2. Class(p) = "none" /\ \A r : ~Writes(p, r)
    BY <1>1, PacketClass, PacketWrites
  <2> QED
    BY <1>1, <2>1, <2>2 DEF After, WritesIn
<1>2. CASE p.op = "set" /\ p.reg \in Named /\ p.value \in Values
  BY <1>2, SetNamedStep
<1>3. CASE p.op = "set" /\ p.reg \in {"other", "outside"} /\ p.value = 0
  BY <1>3, SetOtherStep
<1>4. CASE p.op = "indexType" /\ p.value \in Values
  BY <1>4, IndexTypeStep
<1>5. CASE p.op \in {"instances", "dispatch"} /\ p.value \in Amounts
  BY <1>5, InstancesStep, DispatchStep
<1>6. CASE p.op = "draw" /\ p.indexed \in BOOLEAN
  BY <1>6, DrawStep
<1> QED
  BY <1>1, <1>2, <1>3, <1>4, <1>5, <1>6, PacketKinds

-----------------------------------------------------------------------------
(* Counting packets.                                                       *)

\* How many of the first i packets are in Q.
Upto(h, i, Q) == Cardinality({j \in 1 .. i : h[j] \in Q})

\* The value that the last packet of Q before the i-th one gave, or zero.
Gave(h, i, Q) ==
  LET givers == {j \in 1 .. i - 1 : h[j] \in Q}
  IN IF givers = {} THEN 0 ELSE h[CHOOSE j \in givers : \A k \in givers : k <= j].value

\* It is a number, of at most all of them.
LEMMA UptoNat ==
  ASSUME NEW h, NEW i \in Nat, NEW Q
  PROVE  /\ IsFiniteSet({j \in 1 .. i : h[j] \in Q})
         /\ Upto(h, i, Q) \in Nat /\ Upto(h, i, Q) <= i
<1> DEFINE A == {j \in 1 .. i : h[j] \in Q}
<1>1. IsFiniteSet(1 .. i) /\ Cardinality(1 .. i) = i
  BY FS_Interval
<1>2. A \in SUBSET (1 .. i)
  OBVIOUS
<1> HIDE DEF A
<1>3. IsFiniteSet(A) /\ Cardinality(A) <= i
  BY <1>1, <1>2, FS_Subset
<1>4. Cardinality(A) \in Nat
  BY <1>3, FS_CardinalityType
<1> QED
  BY <1>3, <1>4 DEF Upto, A

\* Also of a whole history.
LEMMA UptoAll ==
  ASSUME NEW P, NEW h \in Seq(P), NEW Q
  PROVE  Upto(h, Len(h), Q) \in Nat
<1>1. Len(h) \in Nat
  OBVIOUS
<1> QED
  BY <1>1, UptoNat

\* No packets, none in Q.
LEMMA UptoZero ==
  ASSUME NEW h, NEW Q
  PROVE  Upto(h, 0, Q) = 0
<1>1. {j \in 1 .. 0 : h[j] \in Q} = {}
  OBVIOUS
<1> QED
  BY <1>1, FS_EmptySet DEF Upto

\* The i-th packet counts if it is in Q.
LEMMA UptoStep ==
  ASSUME NEW h, NEW i \in Nat \ {0}, NEW Q
  PROVE  Upto(h, i, Q) = Upto(h, i - 1, Q) + (IF h[i] \in Q THEN 1 ELSE 0)
<1> DEFINE A == {j \in 1 .. i - 1 : h[j] \in Q}
           B == {j \in 1 .. i : h[j] \in Q}
<1>0. i - 1 \in Nat /\ i \notin 1 .. i - 1
  OBVIOUS
<1>1. IsFiniteSet(A) /\ i \notin A /\ Cardinality(A) \in Nat
  <2>1. IsFiniteSet({j \in 1 .. i - 1 : h[j] \in Q}) /\ Upto(h, i - 1, Q) \in Nat
    BY <1>0, UptoNat
  <2> QED
    BY <1>0, <2>1 DEF Upto
<1>2. CASE h[i] \in Q
  <2>1. B = A \cup {i}
    BY <1>2
  <2> HIDE DEF A, B
  <2>2. Cardinality(B) = Cardinality(A) + 1
    BY <1>1, <2>1, FS_AddElement
  <2> QED
    BY <1>2, <2>2 DEF Upto, A, B
<1>3. CASE h[i] \notin Q
  <2>1. B = A
    BY <1>3
  <2> HIDE DEF A, B
  <2>2. Cardinality(B) = Cardinality(A) + 0
    BY <1>1, <2>1
  <2> QED
    BY <1>3, <2>2 DEF Upto, A, B
<1> QED
  BY <1>2, <1>3

\* Between two places.
LEMMA UptoRest ==
  ASSUME NEW h, NEW i \in Nat, NEW k \in Nat, i <= k, NEW Q
  PROVE  /\ Cardinality({j \in i + 1 .. k : h[j] \in Q}) = Upto(h, k, Q) - Upto(h, i, Q)
         /\ Upto(h, i, Q) <= Upto(h, k, Q)
         /\ i < k /\ h[k] \in Q => Upto(h, i, Q) < Upto(h, k, Q)
<1> DEFINE A == {j \in 1 .. i : h[j] \in Q}
           B == {j \in i + 1 .. k : h[j] \in Q}
           C == {j \in 1 .. k : h[j] \in Q}
<1>1. IsFiniteSet(A) /\ IsFiniteSet(C) /\ Cardinality(A) \in Nat /\ Cardinality(C) \in Nat
  BY UptoNat DEF Upto
<1>2. C = A \cup B /\ A \cap B = {} /\ B \in SUBSET C
  OBVIOUS
<1>3. i < k /\ h[k] \in Q => k \in B
  OBVIOUS
<1> HIDE DEF A, B, C
<1>4. IsFiniteSet(B) /\ Cardinality(B) \in Nat
  BY <1>1, <1>2, FS_Subset, FS_CardinalityType
<1>5. Cardinality(A \cap B) = 0
  BY <1>2, FS_EmptySet
<1>6. Cardinality(A \cup B) = Cardinality(A) + Cardinality(B) - Cardinality(A \cap B)
  BY <1>1, <1>4, FS_Union
<1>7. Cardinality(C) = Cardinality(A) + Cardinality(B)
  BY <1>1, <1>2, <1>4, <1>5, <1>6
<1>8. Cardinality(B) = 0 => B = {}
  BY <1>4, FS_EmptySet
<1>9. /\ Cardinality(B) = Cardinality(C) - Cardinality(A)
      /\ Cardinality(A) <= Cardinality(C)
      /\ i < k /\ h[k] \in Q => Cardinality(A) < Cardinality(C)
  BY <1>1, <1>3, <1>4, <1>7, <1>8
<1> QED
  BY <1>9 DEF Upto, A, B, C

\* A packet more.
LEMMA UptoOld ==
  ASSUME NEW P, NEW h \in Seq(P), NEW e \in P, NEW i \in 0 .. Len(h), NEW Q
  PROVE  Upto(Append(h, e), i, Q) = Upto(h, i, Q)
<1>1. \A j \in 1 .. i : Append(h, e)[j] = h[j]
  OBVIOUS
<1>2. {j \in 1 .. i : Append(h, e)[j] \in Q} = {j \in 1 .. i : h[j] \in Q}
  BY <1>1
<1> QED
  BY <1>2 DEF Upto

\* The new packet counts if it is in Q.
LEMMA UptoNew ==
  ASSUME NEW P, NEW h \in Seq(P), NEW e \in P, NEW Q
  PROVE  Upto(Append(h, e), Len(h) + 1, Q) = Upto(h, Len(h), Q) + (IF e \in Q THEN 1 ELSE 0)
<1>1. Append(h, e)[Len(h) + 1] = e /\ Len(h) \in Nat /\ Len(h) + 1 - 1 = Len(h)
  OBVIOUS
<1>2. Upto(Append(h, e), Len(h), Q) = Upto(h, Len(h), Q)
  BY UptoOld
<1> DEFINE n == Len(h) + 1
           a == Append(h, e)
<1>3. n \in Nat \ {0} /\ n - 1 = Len(h)
  BY <1>1
<1>4. Upto(a, n, Q) = Upto(a, n - 1, Q) + (IF a[n] \in Q THEN 1 ELSE 0)
  <2> HIDE DEF a, n
  <2> QED
    BY <1>3, UptoStep
<1> QED
  BY <1>1, <1>2, <1>3, <1>4

\* What was given before.
LEMMA GaveOld ==
  ASSUME NEW P, NEW h \in Seq(P), NEW e \in P, NEW i \in 1 .. Len(h) + 1, NEW Q
  PROVE  Gave(Append(h, e), i, Q) = Gave(h, i, Q)
<1>1. \A j \in 1 .. i - 1 : Append(h, e)[j] = h[j]
  OBVIOUS
<1> DEFINE A == {j \in 1 .. i - 1 : Append(h, e)[j] \in Q}
           B == {j \in 1 .. i - 1 : h[j] \in Q}
           last == CHOOSE j \in B : \A k \in B : k <= j
<1>2. A = B /\ IsFiniteSet(B)
  <2>1. i - 1 \in Nat
    OBVIOUS
  <2> QED
    BY <1>1, <2>1, UptoNat
<1>3. ASSUME B # {} PROVE last \in B
  <2>1. \E j \in B : \A k \in B : k <= j
    <3>1. B \subseteq 1 .. i - 1
      OBVIOUS
    <3> HIDE DEF B
    <3> DEFINE D == {i - k : k \in B}
    <3>2. D \in SUBSET Nat /\ D # {}
      <4>1. ASSUME NEW k \in B PROVE i - k \in Nat
        BY <3>1
      <4> QED
        BY <1>3, <4>1
    <3>3. PICK d \in D : \A x \in D : d <= x
      <4> HIDE DEF D
      <4> QED
        BY <3>2, LeastNumber
    <3>4. PICK j \in B : d = i - j
      BY <3>3
    <3>5. ASSUME NEW k \in B PROVE k <= j
      <4>1. i - j <= i - k
        BY <3>3, <3>4
      <4> QED
        BY <4>1, <3>1, <3>4
    <3> QED
      BY <3>5
  <2> HIDE DEF B
  <2> QED
    BY <2>1
<1>4. B # {} => Append(h, e)[last] = h[last]
  <2>1. B # {} => last \in 1 .. i - 1
    BY <1>3
  <2> HIDE DEF last
  <2> QED
    BY <1>1, <2>1
<1>5. Gave(Append(h, e), i, Q)
      = IF A = {} THEN 0 ELSE Append(h, e)[CHOOSE j \in A : \A k \in A : k <= j].value
  BY DEF Gave
<1>6. Gave(h, i, Q) = IF B = {} THEN 0 ELSE h[last].value
  BY DEF Gave
<1>7. A # {} => (CHOOSE j \in A : \A k \in A : k <= j) = last
  BY <1>2, Zenon
<1> HIDE DEF A, B, last
<1>8. CASE B = {}
  BY <1>2, <1>5, <1>6, <1>8
<1>9. CASE B # {}
  <2>1. Gave(Append(h, e), i, Q) = Append(h, e)[last].value
    BY <1>2, <1>5, <1>7, <1>9
  <2> QED
    BY <1>4, <1>6, <1>9, <2>1
<1> QED
  BY <1>8, <1>9

\* A packet of Q gives its value; after any other the value is the one before.
LEMMA GaveNew ==
  ASSUME NEW P, NEW h \in Seq(P), NEW e \in P, NEW Q
  PROVE  Gave(Append(h, e), Len(h) + 2, Q) = IF e \in Q THEN e.value ELSE Gave(h, Len(h) + 1, Q)
<1> DEFINE n == Len(h) + 1
           a == Append(h, e)
           A == {j \in 1 .. n : a[j] \in Q}
           B == {j \in 1 .. n - 1 : a[j] \in Q}
<1>1. n \in Nat /\ a[n] = e /\ Len(h) + 2 - 1 = n
  OBVIOUS
<1>2. Gave(a, Len(h) + 2, Q) = IF A = {} THEN 0 ELSE a[CHOOSE j \in A : \A k \in A : k <= j].value
  <2> DEFINE m == Len(h) + 2
  <2>1. m - 1 = n
    BY <1>1
  <2> HIDE DEF m, n, a
  <2>2. Gave(a, m, Q) = LET givers == {j \in 1 .. m - 1 : a[j] \in Q}
                        IN IF givers = {} THEN 0
                           ELSE a[CHOOSE j \in givers : \A k \in givers : k <= j].value
    BY DEF Gave
  <2> QED
    BY <2>1, <2>2 DEF m
<1>3. CASE e \in Q
  <2>1. n \in A /\ \A k \in A : k <= n
    BY <1>1, <1>3
  <2>2. \A j \in A : (\A k \in A : k <= j) => j = n
    BY <1>1, <2>1
  <2> HIDE DEF A, n
  <2>3. (CHOOSE j \in A : \A k \in A : k <= j) = n
    BY <2>1, <2>2
  <2> QED
    BY <1>1, <1>2, <1>3, <2>1, <2>3
<1>4. CASE e \notin Q
  <2>1. A = B
    BY <1>1, <1>4
  <2>2. Gave(a, n, Q) = IF B = {} THEN 0 ELSE a[CHOOSE j \in B : \A k \in B : k <= j].value
    BY DEF Gave
  <2>3. Gave(a, n, Q) = Gave(h, n, Q)
    <3>1. n \in 1 .. Len(h) + 1
      OBVIOUS
    <3> QED
      BY <3>1, GaveOld
  <2>4. Gave(a, Len(h) + 2, Q) = Gave(a, n, Q)
    <3> HIDE DEF A, B, n, a
    <3> QED
      BY <1>2, <2>1, <2>2
  <2> QED
    BY <1>4, <2>3, <2>4
<1> QED
  BY <1>3, <1>4

-----------------------------------------------------------------------------
(* The state as the packets have made it.                                  *)

\* A log holds what the last packets of Q have left, in their order.
LogOf(log, h, Q, max, at) ==
  LET all == Upto(h, Len(h), Q) IN
  /\ Len(log) = IF all < max THEN all ELSE max
  /\ \A k \in 1 .. Len(log) : \E i \in DOMAIN h :
       h[i] \in Q /\ Upto(h, i, Q) = k + all - Len(log) /\ log[k] = at[i]

\* The packet is none of the log's.
LEMMA LogStays ==
  ASSUME NEW P, NEW h \in Seq(P), NEW e \in P, NEW Q, e \notin Q, NEW max \in Nat \ {0},
         NEW R, NEW log \in Seq(R), NEW at, NEW to, \A i \in DOMAIN h : to[i] = at[i],
         LogOf(log, h, Q, max, at)
  PROVE  LogOf(log, Append(h, e), Q, max, to)
<1> DEFINE a == Append(h, e)
<1>1. Len(a) = Len(h) + 1 /\ DOMAIN h \subseteq DOMAIN a /\ DOMAIN h = 1 .. Len(h)
  OBVIOUS
<1>2. Upto(a, Len(a), Q) = Upto(h, Len(h), Q)
  <2>1. Upto(a, Len(h) + 1, Q) = Upto(h, Len(h), Q) + (IF e \in Q THEN 1 ELSE 0)
    BY UptoNew, Zenon
  <2>2. Upto(h, Len(h), Q) \in Nat
    BY UptoAll
  <2> QED
    BY <1>1, <2>1, <2>2
<1>3. \A i \in DOMAIN h : a[i] = h[i] /\ Upto(a, i, Q) = Upto(h, i, Q)
  BY <1>1, UptoOld
<1> HIDE DEF a
<1>4. ASSUME NEW k \in 1 .. Len(log)
      PROVE  \E i \in DOMAIN a : /\ a[i] \in Q
                                 /\ Upto(a, i, Q) = k + Upto(a, Len(a), Q) - Len(log)
                                 /\ log[k] = to[i]
  BY <1>1, <1>2, <1>3 DEF LogOf
<1> QED
  BY <1>2, <1>4 DEF LogOf, a

\* The packet is recorded.
LEMMA LogGrows ==
  ASSUME NEW P, NEW h \in Seq(P), NEW e \in P, NEW Q, e \in Q, NEW max \in Nat \ {0},
         NEW R, NEW log \in Seq(R), NEW r \in R,
         NEW at, NEW to, \A i \in DOMAIN h : to[i] = at[i], to[Len(h) + 1] = r,
         LogOf(log, h, Q, max, at)
  PROVE  LogOf(Logged(log, r, max), Append(h, e), Q, max, to)
<1> DEFINE a == Append(h, e)
           n == Len(h)
           all == Upto(h, n, Q)
           new == Logged(log, r, max)
<1>1. Len(a) = n + 1 /\ DOMAIN h \subseteq DOMAIN a /\ DOMAIN h = 1 .. n /\ n \in Nat
      /\ n + 1 \in DOMAIN a /\ a[n + 1] = e
  OBVIOUS
<1>2. Upto(a, Len(a), Q) = all + 1 /\ all \in Nat
  <2>1. Upto(a, Len(h) + 1, Q) = Upto(h, Len(h), Q) + (IF e \in Q THEN 1 ELSE 0)
    BY UptoNew
  <2>2. Upto(h, Len(h), Q) \in Nat
    BY UptoAll
  <2> QED
    BY <1>1, <2>1, <2>2
<1>3. \A i \in DOMAIN h : a[i] = h[i] /\ Upto(a, i, Q) = Upto(h, i, Q)
  BY <1>1, UptoOld
<1>4. /\ Len(log) \in Nat
      /\ Len(log) = IF all < max THEN all ELSE max
      /\ \A k \in 1 .. Len(log) : \E i \in DOMAIN h :
           h[i] \in Q /\ Upto(h, i, Q) = k + all - Len(log) /\ log[k] = at[i]
  BY DEF LogOf
<1>5. /\ Len(log) < max => /\ Len(new) = Len(log) + 1
                           /\ \A k \in 1 .. Len(log) : new[k] = log[k]
                           /\ new[Len(log) + 1] = r
      /\ Len(log) = max => /\ Len(new) = max
                           /\ \A k \in 1 .. max - 1 : new[k] = log[k + 1]
                           /\ new[max] = r
  <2> HIDE DEF a, n, all
  <2> QED
    BY LoggedType
<1> HIDE DEF a, n, all, new
<1>6. Len(new) = IF all + 1 < max THEN all + 1 ELSE max
  BY <1>2, <1>4, <1>5
<1>7. ASSUME NEW k \in 1 .. Len(new)
      PROVE  \E i \in DOMAIN a : /\ a[i] \in Q
                                 /\ Upto(a, i, Q) = k + (all + 1) - Len(new)
                                 /\ new[k] = to[i]
  <2>1. CASE k = Len(new)
    <3>1. new[k] = r
      BY <1>4, <1>5, <2>1
    <3>2. Upto(a, n + 1, Q) = all + 1
      BY <1>1, <1>2
    <3>3. k + (all + 1) - Len(new) = all + 1
      BY <1>2, <1>6, <2>1
    <3> QED
      BY <1>1, <3>1, <3>2, <3>3 DEF n
  <2>2. CASE k # Len(new) /\ Len(log) < max
    <3>1. k \in 1 .. Len(log) /\ new[k] = log[k] /\ Len(new) = Len(log) + 1
      BY <1>4, <1>5, <2>2
    <3>2. PICK i \in DOMAIN h : h[i] \in Q /\ Upto(h, i, Q) = k + all - Len(log) /\ log[k] = at[i]
      BY <1>4, <3>1
    <3>3. k + all - Len(log) = k + (all + 1) - Len(new)
      BY <1>2, <1>4, <3>1
    <3> QED
      BY <1>1, <1>3, <3>1, <3>2, <3>3
  <2>3. CASE k # Len(new) /\ Len(log) = max
    <3>1. k \in 1 .. max - 1 /\ k + 1 \in 1 .. Len(log) /\ new[k] = log[k + 1] /\ Len(new) = Len(log)
      BY <1>4, <1>5, <2>3
    <3>2. PICK i \in DOMAIN h : h[i] \in Q /\ Upto(h, i, Q) = (k + 1) + all - Len(log)
                                /\ log[k + 1] = at[i]
      BY <1>4, <3>1
    <3>3. (k + 1) + all - Len(log) = k + (all + 1) - Len(new)
      BY <1>2, <1>4, <3>1
    <3> QED
      BY <1>1, <1>3, <3>1, <3>2, <3>3
  <2> QED
    BY <1>4, <2>1, <2>2, <2>3
<1>8. /\ Len(new) = IF Upto(a, Len(a), Q) < max THEN Upto(a, Len(a), Q) ELSE max
      /\ \A k \in 1 .. Len(new) : \E i \in DOMAIN a :
           a[i] \in Q /\ Upto(a, i, Q) = k + Upto(a, Len(a), Q) - Len(new) /\ new[k] = to[i]
  BY <1>2, <1>6, <1>7
<1> QED
  BY <1>8 DEF LogOf, new, a

\* Packets by what they do.
Writing(Y)   == {p \in Walkable : WritesIn(p, Y)}
OfClass(c)   == {p \in Walkable : Class(p) = c}
Classed      == {p \in Walkable : Class(p) # "none"}
Instancing   == {p \in Walkable : p.op = "instances"}
IndexTyping  == {p \in Walkable : p.op = "indexType"}
Cornering    == {p \in Walkable : Writes(p, "TL")}

\* What a packet of each class has left in its log.
DrawsAt(h) ==
  [i \in DOMAIN h |->
     [kind |-> IF h[i].indexed THEN "drawIndexed" ELSE "draw", seq |-> Upto(h, i, Classed),
      instances |-> Gave(h, i, Instancing), indexType |-> Gave(h, i, IndexTyping)]]
DispatchesAt(h) ==
  [i \in DOMAIN h |-> [kind |-> "dispatch", seq |-> Upto(h, i, Classed), value |-> h[i].value]]
WritesAt(h) ==
  [i \in DOMAIN h |->
     [kind |-> Target(h[i]), seq |-> Upto(h, i, Classed), value |-> h[i].value,
      paired |-> IF Target(h[i]) = "BR" THEN Gave(h, i, Cornering) ELSE 0]]

Counted(g, h) ==
  LET n == Len(h) IN
  /\ g.total = Upto(h, n, Writing(Regs)) /\ g.named = Upto(h, n, Writing(Named))
  /\ g.carried = Upto(h, n, Writing({"INDEX"})) /\ g.outside = Upto(h, n, Writing({"outside"}))
  /\ g.seq = Upto(h, n, Classed)

InForce(g, h) ==
  LET n == Len(h) + 1 IN
  /\ g.instances = Gave(h, n, Instancing) /\ g.indexType = Gave(h, n, IndexTyping)
  /\ Corner(g) = Gave(h, n, Cornering)

Recorded(g, h) ==
  /\ LogOf(g.draws, h, OfClass("draws"), MaxDrawLog, DrawsAt(h))
  /\ LogOf(g.dispatches, h, OfClass("dispatches"), MaxDispatchLog, DispatchesAt(h))
  /\ LogOf(g.writes, h, OfClass("writes"), MaxNamedWriteLog, WritesAt(h))

Matches(g, h) ==
  g \in GnmStates /\ h \in Seq(Walkable) /\ Counted(g, h) /\ InForce(g, h) /\ Recorded(g, h)

\* The counters match one packet more.
LEMMA CountedStep ==
  ASSUME NEW g, NEW h, Matches(g, h), NEW p \in Walkable, NEW e, After(g, p, e)
  PROVE  Counted(e, Append(h, p))
<1> DEFINE a == Append(h, p)
           n == Len(h)
<1>1. h \in Seq(Walkable) /\ Len(a) = n + 1
  BY DEF Matches
<1>2. \A Q : Upto(a, n + 1, Q) = Upto(h, n, Q) + (IF p \in Q THEN 1 ELSE 0)
  BY <1>1, UptoNew, Zenon
<1>3. \A Q : Upto(h, n, Q) \in Nat
  BY <1>1, UptoAll
<1>4. /\ \A Y : p \in Writing(Y) <=> WritesIn(p, Y)
      /\ p \in Classed <=> Class(p) # "none"
  BY DEF Writing, Classed
<1> HIDE DEF a, n
<1>5. Counted(g, h) /\ n = Len(h)
  BY DEF Matches, n
<1>6. /\ e.total = IF WritesIn(p, Regs) THEN g.total + 1 ELSE g.total
      /\ e.named = IF WritesIn(p, Named) THEN g.named + 1 ELSE g.named
      /\ e.carried = IF WritesIn(p, {"INDEX"}) THEN g.carried + 1 ELSE g.carried
      /\ e.outside = IF WritesIn(p, {"outside"}) THEN g.outside + 1 ELSE g.outside
      /\ e.seq = IF Class(p) # "none" THEN g.seq + 1 ELSE g.seq
  BY DEF After
<1>7. e.total = Upto(a, n + 1, Writing(Regs))
  BY <1>2, <1>3, <1>4, <1>5, <1>6 DEF Counted
<1>8. e.named = Upto(a, n + 1, Writing(Named))
  BY <1>2, <1>3, <1>4, <1>5, <1>6 DEF Counted
<1>9. e.carried = Upto(a, n + 1, Writing({"INDEX"}))
  BY <1>2, <1>3, <1>4, <1>5, <1>6 DEF Counted
<1>10. e.outside = Upto(a, n + 1, Writing({"outside"}))
  BY <1>2, <1>3, <1>4, <1>5, <1>6 DEF Counted
<1>11. e.seq = Upto(a, n + 1, Classed)
  BY <1>2, <1>3, <1>4, <1>5, <1>6 DEF Counted
<1> QED
  BY <1>1, <1>7, <1>8, <1>9, <1>10, <1>11 DEF Counted, a

\* What is in force matches one packet more.
LEMMA InForceStep ==
  ASSUME NEW g, NEW h, Matches(g, h), NEW p \in Walkable, NEW e, After(g, p, e)
  PROVE  InForce(e, Append(h, p))
<1> DEFINE a == Append(h, p)
           n == Len(h)
<1>1. h \in Seq(Walkable) /\ Len(a) + 1 = n + 2
  BY DEF Matches
<1>2. \A Q : Gave(a, n + 2, Q) = IF p \in Q THEN p.value ELSE Gave(h, n + 1, Q)
  BY <1>1, GaveNew, Zenon
<1>3. /\ p \in Instancing <=> p.op = "instances"
      /\ p \in IndexTyping <=> p.op = "indexType"
      /\ p \in Cornering <=> Writes(p, "TL")
  BY DEF Instancing, IndexTyping, Cornering
<1> HIDE DEF a
<1>4. InForce(g, h)
  BY DEF Matches
<1>5. /\ e.instances = IF p.op = "instances" THEN p.value ELSE g.instances
      /\ e.indexType = IF p.op = "indexType" THEN p.value ELSE g.indexType
      /\ Corner(e) = IF Writes(p, "TL") THEN p.value ELSE Corner(g)
  BY DEF After
<1>6. /\ e.instances = Gave(a, n + 2, Instancing)
      /\ e.indexType = Gave(a, n + 2, IndexTyping)
      /\ Corner(e) = Gave(a, n + 2, Cornering)
  BY <1>2, <1>3, <1>4, <1>5 DEF InForce
<1> QED
  BY <1>1, <1>6 DEF InForce, a

\* The logs match one packet more.
LEMMA RecordedStep ==
  ASSUME NEW g, NEW h, Matches(g, h), NEW p \in Walkable, NEW e, After(g, p, e)
  PROVE  Recorded(e, Append(h, p))
<1> DEFINE a == Append(h, p)
           n == Len(h)
<1>1. /\ h \in Seq(Walkable) /\ DOMAIN h = 1 .. n /\ DOMAIN a = 1 .. n + 1 /\ n \in Nat
      /\ a[n + 1] = p /\ \A i \in 1 .. n : a[i] = h[i]
  BY DEF Matches
<1>2. \A i \in 1 .. n : /\ Upto(a, i, Classed) = Upto(h, i, Classed)
                        /\ Gave(a, i, Instancing) = Gave(h, i, Instancing)
                        /\ Gave(a, i, IndexTyping) = Gave(h, i, IndexTyping)
                        /\ Gave(a, i, Cornering) = Gave(h, i, Cornering)
  BY <1>1, UptoOld, GaveOld
<1>3. /\ Gave(a, n + 1, Instancing) = Gave(h, n + 1, Instancing)
      /\ Gave(a, n + 1, IndexTyping) = Gave(h, n + 1, IndexTyping)
      /\ Gave(a, n + 1, Cornering) = Gave(h, n + 1, Cornering)
  <2>1. n + 1 \in 1 .. Len(h) + 1
    BY <1>1
  <2> QED
    BY <1>1, <2>1, GaveOld
<1>4. Class(p) # "none" => Upto(a, n + 1, Classed) = g.seq + 1
  <2>1. Upto(a, n + 1, Classed) = Upto(h, n, Classed) + (IF p \in Classed THEN 1 ELSE 0)
    BY <1>1, UptoNew
  <2>2. g.seq = Upto(h, n, Classed)
    BY DEF Matches, Counted
  <2> HIDE DEF a, n
  <2> QED
    BY <2>1, <2>2 DEF Classed
<1>5. g.instances = Gave(h, n + 1, Instancing) /\ g.indexType = Gave(h, n + 1, IndexTyping)
      /\ Corner(g) = Gave(h, n + 1, Cornering)
  BY DEF Matches, InForce
<1>6. /\ LogOf(g.draws, h, OfClass("draws"), MaxDrawLog, DrawsAt(h))
      /\ LogOf(g.dispatches, h, OfClass("dispatches"), MaxDispatchLog, DispatchesAt(h))
      /\ LogOf(g.writes, h, OfClass("writes"), MaxNamedWriteLog, WritesAt(h))
      /\ g.draws \in Seq(DrawRecs) /\ g.dispatches \in Seq(DispatchRecs)
      /\ g.writes \in Seq(WriteRecs)
  BY DEF Matches, Recorded, GnmStates
<1>7. {MaxDrawLog, MaxDispatchLog, MaxNamedWriteLog} \subseteq Nat \ {0}
  BY StreamConstants
<1>8. \A c : p \in OfClass(c) <=> Class(p) = c
  BY DEF OfClass
<1>9. After(g, p, e)
  OBVIOUS
<1> HIDE DEF a
<1>10. LogOf(e.draws, a, OfClass("draws"), MaxDrawLog, DrawsAt(a))
  <2>1. \A i \in DOMAIN h : DrawsAt(a)[i] = DrawsAt(h)[i]
    BY <1>1, <1>2 DEF DrawsAt
  <2>2. Class(p) = "draws" => DrawsAt(a)[Len(h) + 1] = DrawRecord(g, p)
    BY <1>1, <1>3, <1>4, <1>5 DEF DrawsAt, DrawRecord
  <2>3. CASE Class(p) = "draws"
    <3>1. e.draws = Logged(g.draws, DrawRecord(g, p), MaxDrawLog) /\ DrawRecord(g, p) \in DrawRecs
      BY <2>3 DEF After
    <3> DEFINE Q   == OfClass("draws")
               at  == DrawsAt(h)
               to  == DrawsAt(a)
               r   == DrawRecord(g, p)
               log == g.draws
               max == MaxDrawLog
               R   == DrawRecs
    <3>2. p \in Q /\ r \in R /\ log \in Seq(R) /\ max \in Nat \ {0} /\ a = Append(h, p)
      BY <1>6, <1>7, <1>8, <2>3, <3>1 DEF a
    <3>3. LogOf(log, h, Q, max, at) /\ (\A i \in DOMAIN h : to[i] = at[i]) /\ to[Len(h) + 1] = r
      BY <1>6, <2>1, <2>2, <2>3
    <3>4. e.draws = Logged(log, r, max)
      BY <3>1
    <3> HIDE DEF Q, at, to, r, log, max, R
    <3>5. LogOf(Logged(log, r, max), Append(h, p), Q, max, to)
      BY <1>1, <3>2, <3>3, LogGrows
    <3>6. LogOf(e.draws, a, Q, max, to)
      BY <3>2, <3>4, <3>5
    <3> QED
      BY <3>6 DEF Q, max, to
  <2>4. CASE Class(p) # "draws"
    <3>1. e.draws = g.draws
      BY <2>4 DEF After
    <3> QED
      BY <1>1, <1>6, <1>7, <1>8, <2>1, <2>4, <3>1, LogStays DEF a
  <2> QED
    BY <2>3, <2>4
<1>11. LogOf(e.dispatches, a, OfClass("dispatches"), MaxDispatchLog, DispatchesAt(a))
  <2>1. \A i \in DOMAIN h : DispatchesAt(a)[i] = DispatchesAt(h)[i]
    BY <1>1, <1>2 DEF DispatchesAt
  <2>2. Class(p) = "dispatches" => DispatchesAt(a)[Len(h) + 1] = DispatchRecord(g, p)
    BY <1>1, <1>4 DEF DispatchesAt, DispatchRecord
  <2>3. CASE Class(p) = "dispatches"
    <3>1. /\ e.dispatches = Logged(g.dispatches, DispatchRecord(g, p), MaxDispatchLog)
          /\ DispatchRecord(g, p) \in DispatchRecs
      BY <2>3 DEF After
    <3> DEFINE Q   == OfClass("dispatches")
               at  == DispatchesAt(h)
               to  == DispatchesAt(a)
               r   == DispatchRecord(g, p)
               log == g.dispatches
               max == MaxDispatchLog
               R   == DispatchRecs
    <3>2. p \in Q /\ r \in R /\ log \in Seq(R) /\ max \in Nat \ {0} /\ a = Append(h, p)
      BY <1>6, <1>7, <1>8, <2>3, <3>1 DEF a
    <3>3. LogOf(log, h, Q, max, at) /\ (\A i \in DOMAIN h : to[i] = at[i]) /\ to[Len(h) + 1] = r
      BY <1>6, <2>1, <2>2, <2>3
    <3>4. e.dispatches = Logged(log, r, max)
      BY <3>1
    <3> HIDE DEF Q, at, to, r, log, max, R
    <3>5. LogOf(Logged(log, r, max), Append(h, p), Q, max, to)
      BY <1>1, <3>2, <3>3, LogGrows
    <3>6. LogOf(e.dispatches, a, Q, max, to)
      BY <3>2, <3>4, <3>5
    <3> QED
      BY <3>6 DEF Q, max, to
  <2>4. CASE Class(p) # "dispatches"
    <3>1. e.dispatches = g.dispatches
      BY <2>4 DEF After
    <3> QED
      BY <1>1, <1>6, <1>7, <1>8, <2>1, <2>4, <3>1, LogStays DEF a
  <2> QED
    BY <2>3, <2>4
<1>12. LogOf(e.writes, a, OfClass("writes"), MaxNamedWriteLog, WritesAt(a))
  <2>1. \A i \in DOMAIN h : WritesAt(a)[i] = WritesAt(h)[i]
    BY <1>1, <1>2 DEF WritesAt
  <2>2. Class(p) = "writes" => WritesAt(a)[Len(h) + 1] = WriteRecord(g, p)
    BY <1>1, <1>3, <1>4, <1>5 DEF WritesAt, WriteRecord
  <2>3. CASE Class(p) = "writes"
    <3>1. /\ e.writes = Logged(g.writes, WriteRecord(g, p), MaxNamedWriteLog)
          /\ WriteRecord(g, p) \in WriteRecs
      BY <2>3 DEF After
    <3> DEFINE Q   == OfClass("writes")
               at  == WritesAt(h)
               to  == WritesAt(a)
               r   == WriteRecord(g, p)
               log == g.writes
               max == MaxNamedWriteLog
               R   == WriteRecs
    <3>2. p \in Q /\ r \in R /\ log \in Seq(R) /\ max \in Nat \ {0} /\ a = Append(h, p)
      BY <1>6, <1>7, <1>8, <2>3, <3>1 DEF a
    <3>3. LogOf(log, h, Q, max, at) /\ (\A i \in DOMAIN h : to[i] = at[i]) /\ to[Len(h) + 1] = r
      BY <1>6, <2>1, <2>2, <2>3
    <3>4. e.writes = Logged(log, r, max)
      BY <3>1
    <3> HIDE DEF Q, at, to, r, log, max, R
    <3>5. LogOf(Logged(log, r, max), Append(h, p), Q, max, to)
      BY <1>1, <3>2, <3>3, LogGrows
    <3>6. LogOf(e.writes, a, Q, max, to)
      BY <3>2, <3>4, <3>5
    <3> QED
      BY <3>6 DEF Q, max, to
  <2>4. CASE Class(p) # "writes"
    <3>1. e.writes = g.writes
      BY <2>4 DEF After
    <3> QED
      BY <1>1, <1>6, <1>7, <1>8, <2>1, <2>4, <3>1, LogStays DEF a
  <2> QED
    BY <2>3, <2>4
<1> QED
  BY <1>10, <1>11, <1>12 DEF Recorded, a

\* The state matches one packet more.
LEMMA MatchesStep ==
  ASSUME NEW g, NEW h, Matches(g, h), NEW p \in Walkable
  PROVE  Matches(Execute(g, p), Append(h, p))
<1>1. g \in GnmStates /\ h \in Seq(Walkable)
  BY DEF Matches
<1>2. After(g, p, Execute(g, p))
  BY <1>1, PacketStep
<1>3. Counted(Execute(g, p), Append(h, p))
  BY <1>2, CountedStep
<1>4. InForce(Execute(g, p), Append(h, p))
  BY <1>2, InForceStep
<1>5. Recorded(Execute(g, p), Append(h, p))
  BY <1>2, RecordedStep
<1>6. Execute(g, p) \in GnmStates
  BY <1>2 DEF After
<1>7. Append(h, p) \in Seq(Walkable)
  BY <1>1
<1> QED
  BY <1>3, <1>4, <1>5, <1>6, <1>7 DEF Matches

-----------------------------------------------------------------------------
(* A buffer.                                                               *)

\* The fold over a buffer, as a function of the part that has been decoded.
Decoding(f, g, s) ==
  f = [Y \in SUBSET DOMAIN s |->
         IF Y = {} THEN g ELSE Execute(f[Y \ {Max(Y)}], s[Max(Y)])]

\* FoldLeft chooses such a function.
LEMMA DecodeIs ==
  ASSUME NEW g, NEW s
  PROVE  FoldLeft(Execute, g, s) = (CHOOSE f : Decoding(f, g, s))[DOMAIN s]
BY DEF FoldLeft, MapThenFoldSet, Decoding

\* There is one.
LEMMA DecodingExists ==
  ASSUME NEW g \in GnmStates, NEW s \in Seq(Walkable)
  PROVE  \E f : Decoding(f, g, s)
<1> DEFINE n == Len(s)
           step == [i \in 1 .. n |-> [x \in GnmStates |-> Execute(x, s[i])]]
<1>1. n \in Nat /\ DOMAIN s = 1 .. n /\ \A i \in 1 .. n : s[i] \in Walkable
  OBVIOUS
<1>2. step \in [1 .. n -> [GnmStates -> GnmStates]]
  <2>1. \A i \in 1 .. n : \A x \in GnmStates : Execute(x, s[i]) \in GnmStates
    BY <1>1, PacketStep DEF After
  <2> QED
    BY <2>1
<1>3. \A i \in 1 .. n : \A x \in GnmStates : step[i][x] = Execute(x, s[i])
  OBVIOUS
<1> HIDE DEF step, n
<1>4. PICK f : Folding(f, GnmStates, n, g, step)
  BY <1>1, <1>2, FoldingExists
<1>5. ASSUME NEW Y \in SUBSET (1 .. n), Y # {}
      PROVE  f[Y] = Execute(f[Y \ {Max(Y)}], s[Max(Y)])
  <2>1. Max(Y) \in Y
    BY <1>1, <1>5, GreatestExists
  <2>2. f[Y \ {Max(Y)}] \in GnmStates
    BY <1>4 DEF Folding
  <2>3. f[Y] = step[Max(Y)][f[Y \ {Max(Y)}]]
    BY <1>4, <1>5 DEF Folding
  <2> QED
    BY <1>3, <2>1, <2>2, <2>3
<1>6. f[{}] = g
  BY <1>4 DEF Folding
<1>7. f = [Y \in SUBSET (1 .. n) |-> f[Y]]
  BY <1>4 DEF Folding
<1> DEFINE F == [Y \in SUBSET DOMAIN s |->
                   IF Y = {} THEN g ELSE Execute(f[Y \ {Max(Y)}], s[Max(Y)])]
<1>8. \A Y \in SUBSET (1 .. n) : f[Y] = F[Y]
  BY <1>1, <1>5, <1>6
<1>9. f = F
  <2>1. F = [Y \in SUBSET (1 .. n) |-> F[Y]]
    BY <1>1
  <2> HIDE DEF F
  <2> QED
    BY <1>7, <1>8, <2>1
<1> QED
  BY <1>9 DEF Decoding

\* The state matches the packets that have been walked.
LEMMA DecodeMatches ==
  ASSUME NEW g, NEW h, Matches(g, h), NEW s \in Seq(Walkable)
  PROVE  Matches(FoldLeft(Execute, g, s), h \o s)
<1> DEFINE n == Len(s)
           f == CHOOSE x : Decoding(x, g, s)
           Bad == {k \in 0 .. n : ~Matches(f[1 .. k], h \o SubSeq(s, 1, k))}
<1>1. g \in GnmStates /\ h \in Seq(Walkable)
  BY DEF Matches
<1>2. Decoding(f, g, s)
  BY <1>1, DecodingExists
<1>3. n \in Nat /\ DOMAIN s = 1 .. n
  OBVIOUS
<1> HIDE DEF f
<1>4. Bad = {}
  <2> SUFFICES ASSUME Bad # {}
               PROVE  FALSE
    OBVIOUS
  <2>1. Bad \in SUBSET Nat
    OBVIOUS
  <2>2. PICK k \in Bad : \A m \in Bad : k <= m
    <3> HIDE DEF Bad
    <3> QED
      BY <2>1, LeastNumber
  <2>3. CASE k = 0
    <3>1. 1 .. k = {} /\ {} \in SUBSET DOMAIN s
      BY <2>3
    <3>2. f[{}] = g
      BY <1>2, <3>1 DEF Decoding
    <3>3. h \o SubSeq(s, 1, k) = h
      BY <1>1, <2>3
    <3> QED
      BY <2>2, <3>1, <3>2, <3>3
  <2>4. CASE k # 0
    <3> DEFINE m == k - 1
               t == h \o SubSeq(s, 1, m)
    <3>1. k \in 1 .. n /\ m \in 0 .. n /\ m \notin Bad
      BY <2>2, <2>4
    <3>2. Matches(f[1 .. m], t)
      BY <3>1
    <3>3. 1 .. k \in SUBSET DOMAIN s /\ k \in 1 .. k /\ k \in Nat \ {0} /\ (1 .. k) \ {k} = 1 .. m
      BY <1>3, <3>1
    <3>4. Max(1 .. k) = k
      BY <3>3, GreatestIs
    <3>5. f[1 .. k] = Execute(f[1 .. m], s[k])
      BY <1>2, <3>3, <3>4 DEF Decoding
    <3>6. s[k] \in Walkable
      BY <1>3, <3>1
    <3>7. h \o SubSeq(s, 1, k) = Append(t, s[k])
      <4>1. SubSeq(s, 1, k) = Append(SubSeq(s, 1, m), s[k])
        BY <1>3, <3>1
      <4>2. SubSeq(s, 1, m) \in Seq(Walkable)
        BY <1>3, <3>1
      <4>3. \A u \in Seq(Walkable), x \in Walkable : h \o Append(u, x) = Append(h \o u, x)
        BY <1>1
      <4> QED
        BY <3>6, <4>1, <4>2, <4>3
    <3>8. Matches(Execute(f[1 .. m], s[k]), Append(t, s[k]))
      <4> HIDE DEF t, m
      <4> QED
        BY <3>2, <3>6, MatchesStep
    <3> QED
      BY <2>2, <3>5, <3>7, <3>8
  <2> QED
    BY <2>3, <2>4
<1>5. Matches(f[1 .. n], h \o SubSeq(s, 1, n))
  BY <1>3, <1>4
<1>6. SubSeq(s, 1, n) = s
  OBVIOUS
<1>7. FoldLeft(Execute, g, s) = f[1 .. n]
  BY <1>3, DecodeIs DEF f
<1> QED
  BY <1>5, <1>6, <1>7

-----------------------------------------------------------------------------
(* A submission.                                                           *)

\* What is walked of a buffer holds no truncated packet.
LEMMA WalkedIsWalkable ==
  ASSUME NEW s \in Streams
  PROVE  Walked(s) \in Seq(Walkable)
<1> DEFINE cut == {i \in DOMAIN s : s[i].op = "truncated"}
           c   == CHOOSE i \in cut : \A j \in cut : i <= j
<1>1. PICK n \in 1 .. MaxStream : s \in [1 .. n -> Packets]
  BY DEF Streams
<1>2. n \in Nat /\ DOMAIN s = 1 .. n /\ Len(s) = n /\ s \in Seq(Packets)
  BY <1>1, StreamConstants
<1>3. \A i \in 1 .. n : i \notin cut => s[i] \in Walkable
  BY <1>1, <1>2 DEF Walkable, Packets, Truncated, SetRegs, SetOthers, Settings, Draws, Skipped
<1>4. CASE cut = {}
  <2>1. \A i \in 1 .. n : s[i] \in Walkable
    BY <1>3, <1>4
  <2>2. s \in [1 .. n -> Walkable]
    BY <1>1, <2>1
  <2>3. s \in Seq(Walkable)
    BY <1>2, <2>2
  <2> QED
    BY <1>4, <2>3 DEF Walked
<1>5. CASE cut # {}
  <2>1. cut \in SUBSET Nat
    BY <1>2
  <2>2. c \in cut /\ \A j \in cut : c <= j
    <3> HIDE DEF cut
    <3> QED
      BY <1>5, <2>1, LeastNumber
  <2>3. c \in 1 .. n
    BY <1>2, <2>2
  <2>4. \A i \in 1 .. c - 1 : i \notin cut
    <3>1. \A j \in cut : c <= j
      BY <2>2
    <3> HIDE DEF cut, c
    <3> QED
      BY <2>3, <3>1
  <2>5. \A i \in 1 .. c - 1 : s[i] \in Walkable
    <3> HIDE DEF cut, c
    <3> QED
      BY <1>3, <2>3, <2>4
  <2>6. Walked(s) = SubSeq(s, 1, c - 1)
    BY <1>5 DEF Walked
  <2> HIDE DEF cut, c
  <2>7. SubSeq(s, 1, c - 1) \in Seq(Walkable)
    <3> DEFINE t == SubSeq(s, 1, c - 1)
    <3>1. t = [i \in 1 .. c - 1 |-> s[i]]
      BY <1>2, <2>3
    <3>2. c - 1 \in Nat
      BY <2>3
    <3>3. t \in [1 .. c - 1 -> Walkable]
      BY <2>5, <3>1
    <3> HIDE DEF t
    <3>4. t \in Seq(Walkable)
      BY <3>2, <3>3
    <3> QED
      BY <3>4 DEF t
  <2> QED
    BY <2>6, <2>7
<1> QED
  BY <1>4, <1>5

\* Before the first packet.
LEMMA ZeroMatches == Matches(Zero, <<>>)
<1>1. Zero \in GnmStates
  BY StreamConstants DEF Zero, GnmStates
<1>2. \A Q : Upto(<<>>, Len(<<>>), Q) = 0
  <2>1. Len(<<>>) = 0
    OBVIOUS
  <2> QED
    BY <2>1, UptoZero
<1>3. Counted(Zero, <<>>)
  BY <1>2 DEF Counted, Zero
<1>4. \A Q : Gave(<<>>, Len(<<>>) + 1, Q) = 0
  <2>1. \A Q : {j \in 1 .. Len(<<>>) + 1 - 1 : <<>>[j] \in Q} = {}
    OBVIOUS
  <2> QED
    BY <2>1 DEF Gave
<1>5. InForce(Zero, <<>>)
  BY <1>4 DEF InForce, Zero, Corner
<1>6. \A Q, at : \A max \in Nat \ {0} : LogOf(<<>>, <<>>, Q, max, at)
  BY <1>2 DEF LogOf
<1>7. Zero.draws = <<>> /\ Zero.dispatches = <<>> /\ Zero.writes = <<>>
  BY DEF Zero
<1>8. Recorded(Zero, <<>>)
  BY <1>6, <1>7, StreamConstants DEF Recorded
<1> QED
  BY <1>1, <1>3, <1>5, <1>8 DEF Matches

\* The state is what the packets that were walked have made of it, and the evidence is of
\* that state.
StreamInv == Matches(gnm, history) /\ evidence = Evidence(gnm)

\* It holds of every reachable state.
LEMMA StreamInvariance == StreamSpec => []StreamInv
<1>1. StreamInit => StreamInv
  BY ZeroMatches DEF StreamInit, StreamInv
<1>2. StreamInv /\ [StreamNext]_streamVars => StreamInv'
  <2> SUFFICES ASSUME StreamInv, [StreamNext]_streamVars
               PROVE  StreamInv'
    OBVIOUS
  <2>1. CASE StreamNext
    <3>1. PICK stream \in Streams : SubmitBuffer(stream)
      BY <2>1 DEF StreamNext
    <3>2. Matches(gnm, history)
      BY DEF StreamInv
    <3>3. Walked(stream) \in Seq(Walkable)
      BY WalkedIsWalkable
    <3>4. Matches(Decode(gnm, stream), history \o Walked(stream))
      BY <3>2, <3>3, DecodeMatches DEF Decode
    <3> QED
      BY <3>1, <3>4 DEF SubmitBuffer, StreamInv
  <2>2. CASE UNCHANGED streamVars
    BY <2>2 DEF StreamInv, streamVars
  <2> QED
    BY <2>1, <2>2
<1> QED
  BY <1>1, <1>2, PTL DEF StreamSpec

-----------------------------------------------------------------------------
(* Every write of a register is accounted for.                             *)

\* A packet counts among Q and R, which have none in common.
LEMMA UptoBoth ==
  ASSUME NEW h, NEW i \in Nat, NEW Q, NEW R, Q \cap R = {}
  PROVE  Upto(h, i, Q \cup R) = Upto(h, i, Q) + Upto(h, i, R)
<1> DEFINE A == {j \in 1 .. i : h[j] \in Q}
           B == {j \in 1 .. i : h[j] \in R}
           C == {j \in 1 .. i : h[j] \in Q \cup R}
<1>1. IsFiniteSet(A) /\ IsFiniteSet(B) /\ Cardinality(A) \in Nat /\ Cardinality(B) \in Nat
  <2>1. IsFiniteSet(A) /\ IsFiniteSet(B)
    BY UptoNat
  <2> QED
    BY <2>1, FS_CardinalityType
<1>2. C = A \cup B /\ A \cap B = {}
  OBVIOUS
<1> HIDE DEF A, B, C
<1>3. Cardinality(C) = Cardinality(A) + Cardinality(B) - Cardinality(A \cap B)
  BY <1>1, <1>2, FS_Union
<1>4. Cardinality(A \cap B) = 0
  BY <1>2, FS_EmptySet
<1>5. Cardinality(C) = Cardinality(A) + Cardinality(B)
  BY <1>1, <1>3, <1>4
<1> QED
  BY <1>5 DEF Upto, A, B, C

\* The packets of the history that write some registers.
LEMMA WritingIs ==
  ASSUME NEW h \in Seq(Walkable), NEW Y
  PROVE  Cardinality({i \in DOMAIN h : \E r \in Y : Writes(h[i], r)}) = Upto(h, Len(h), Writing(Y))
<1>1. {i \in DOMAIN h : \E r \in Y : Writes(h[i], r)} = {i \in 1 .. Len(h) : h[i] \in Writing(Y)}
  BY DEF Writing, WritesIn
<1> QED
  BY <1>1 DEF Upto

\* A register without a meaning is any but the named ones.
LEMMA OthersAreTheRest ==
  ASSUME NEW h \in Seq(Walkable)
  PROVE  Upto(h, Len(h), Writing(Regs)) - Upto(h, Len(h), Writing(Named))
         = Upto(h, Len(h), Writing({"other"}))
<1>1. Writing(Regs) = Writing(Named) \cup Writing({"other"})
  BY DEF Writing, WritesIn, Regs
<1>2. Writing(Named) \cap Writing({"other"}) = {}
  <2>1. ASSUME NEW p \in Walkable, NEW r \in Named, Writes(p, r), Writes(p, "other") PROVE FALSE
    BY <2>1 DEF Writes, Named
  <2> QED
    BY <2>1 DEF Writing, WritesIn
<1>3. Len(h) \in Nat
  OBVIOUS
<1>4. Upto(h, Len(h), Writing(Regs))
      = Upto(h, Len(h), Writing(Named)) + Upto(h, Len(h), Writing({"other"}))
  BY <1>1, <1>2, <1>3, UptoBoth
<1>5. Upto(h, Len(h), Writing(Named)) \in Nat /\ Upto(h, Len(h), Writing({"other"})) \in Nat
  BY UptoAll
<1> QED
  BY <1>4, <1>5

\* As many records as the log is long, at most.
LEMMA RangeSmall ==
  ASSUME NEW R, NEW log \in Seq(R)
  PROVE  IsFiniteSet(Range(log)) /\ Cardinality(Range(log)) \in Nat
         /\ Cardinality(Range(log)) <= Len(log)
<1>1. Len(log) \in Nat /\ DOMAIN log = 1 .. Len(log)
  OBVIOUS
<1>2. IsFiniteSet(DOMAIN log) /\ Cardinality(DOMAIN log) = Len(log)
  <2> DEFINE n == Len(log)
  <2>1. n \in Nat /\ DOMAIN log = 1 .. n
    BY <1>1
  <2> HIDE DEF n
  <2>2. 1 \in Int /\ n \in Int /\ n - 1 + 1 = n /\ (1 > n => n = 0)
    BY <2>1
  <2>3. IsFiniteSet(1 .. n) /\ Cardinality(1 .. n) = IF 1 > n THEN 0 ELSE n - 1 + 1
    BY <2>2, FS_Interval
  <2>4. IsFiniteSet(1 .. n) /\ Cardinality(1 .. n) = n
    BY <2>2, <2>3
  <2> QED
    BY <2>1, <2>4 DEF n
<1>3. log \in Surjection(DOMAIN log, Range(log))
  <2>1. log \in [DOMAIN log -> Range(log)]
    BY DEF Range
  <2>2. \A t \in Range(log) : \E s \in DOMAIN log : log[s] = t
    BY DEF Range
  <2> QED
    BY <2>1, <2>2 DEF Surjection
<1>4. IsFiniteSet(Range(log)) /\ Cardinality(Range(log)) <= Cardinality(DOMAIN log)
  BY <1>2, <1>3, FS_Surjection
<1> QED
  BY <1>2, <1>4, FS_CardinalityType

\* What is lowered.
Emitted(g) == {e \in Timeline(g) : Emits(e)}

\* The logs together hold less than the operation list.
LEMMA EmittedFits ==
  ASSUME NEW g, NEW h, Matches(g, h)
  PROVE  /\ Len(g.draws) <= MaxDrawLog /\ Len(g.dispatches) <= MaxDispatchLog
         /\ Len(g.writes) <= MaxNamedWriteLog
         /\ IsFiniteSet(Emitted(g))
         /\ Cardinality(Emitted(g)) \in Nat /\ Cardinality(Emitted(g)) < MaxOps
<1> DEFINE A == Range(g.draws)
           B == Range(g.dispatches)
           C == Range(g.writes)
<1>1. /\ g.draws \in Seq(DrawRecs) /\ g.dispatches \in Seq(DispatchRecs)
      /\ g.writes \in Seq(WriteRecs) /\ Recorded(g, h) /\ h \in Seq(Walkable)
  BY DEF Matches, GnmStates
<1>2. /\ MaxDrawLog \in Nat /\ MaxDispatchLog \in Nat /\ MaxNamedWriteLog \in Nat /\ MaxOps \in Nat
      /\ MaxDrawLog + MaxDispatchLog + MaxNamedWriteLog < MaxOps
  BY StreamConstants
<1>3. Len(g.draws) <= MaxDrawLog /\ Len(g.dispatches) <= MaxDispatchLog
      /\ Len(g.writes) <= MaxNamedWriteLog
  <2>1. \A Q : Upto(h, Len(h), Q) \in Nat
    BY <1>1, UptoAll
  <2> QED
    BY <1>1, <1>2, <2>1 DEF Recorded, LogOf
<1>4. /\ IsFiniteSet(A) /\ Cardinality(A) \in Nat /\ Cardinality(A) <= Len(g.draws)
      /\ IsFiniteSet(B) /\ Cardinality(B) \in Nat /\ Cardinality(B) <= Len(g.dispatches)
      /\ IsFiniteSet(C) /\ Cardinality(C) \in Nat /\ Cardinality(C) <= Len(g.writes)
  BY <1>1, RangeSmall
<1>5. Emitted(g) \in SUBSET ((A \cup B) \cup C)
  BY DEF Emitted, Timeline
<1> HIDE DEF A, B, C
<1>6. IsFiniteSet(A \cup B) /\ Cardinality(A \cup B) \in Nat
      /\ Cardinality(A \cup B) <= Cardinality(A) + Cardinality(B)
  <2>1. IsFiniteSet(A \cup B)
        /\ Cardinality(A \cup B) = Cardinality(A) + Cardinality(B) - Cardinality(A \cap B)
    BY <1>4, FS_Union
  <2>2. Cardinality(A \cap B) \in Nat
    <3>1. A \cap B \in SUBSET A
      OBVIOUS
    <3> QED
      BY <1>4, <3>1, FS_Subset, FS_CardinalityType
  <2>3. Cardinality(A \cup B) \in Nat
    BY <2>1, FS_CardinalityType
  <2> QED
    BY <1>4, <2>1, <2>2, <2>3
<1>7. LET U == A \cup B
      IN  IsFiniteSet(U \cup C) /\ Cardinality(U \cup C) \in Nat
          /\ Cardinality(U \cup C) <= Cardinality(U) + Cardinality(C)
  <2> DEFINE U == A \cup B
  <2>0. IsFiniteSet(U) /\ Cardinality(U) \in Nat
    BY <1>6
  <2> HIDE DEF U
  <2>1. IsFiniteSet(U \cup C)
        /\ Cardinality(U \cup C) = Cardinality(U) + Cardinality(C) - Cardinality(U \cap C)
    BY <1>4, <2>0, FS_Union
  <2>2. Cardinality(U \cap C) \in Nat
    <3>1. U \cap C \in SUBSET U
      OBVIOUS
    <3> QED
      BY <2>0, <3>1, FS_Subset, FS_CardinalityType
  <2>3. Cardinality(U \cup C) \in Nat
    BY <2>1, FS_CardinalityType
  <2>4. IsFiniteSet(U \cup C) /\ Cardinality(U \cup C) \in Nat
        /\ Cardinality(U \cup C) <= Cardinality(U) + Cardinality(C)
    BY <1>4, <2>0, <2>1, <2>2, <2>3
  <2> QED
    BY <2>4 DEF U
<1> DEFINE x == Cardinality(Emitted(g))
<1>8. /\ IsFiniteSet(Emitted(g)) /\ Cardinality(Emitted(g)) \in Nat
      /\ Cardinality(Emitted(g)) <= Cardinality((A \cup B) \cup C)
  <2>1. IsFiniteSet(Emitted(g)) /\ Cardinality(Emitted(g)) <= Cardinality((A \cup B) \cup C)
    BY <1>5, <1>7, FS_Subset
  <2> QED
    BY <2>1, FS_CardinalityType
<1>9. Len(g.draws) \in Nat /\ Len(g.dispatches) \in Nat /\ Len(g.writes) \in Nat
  BY <1>1
<1>10. Cardinality((A \cup B) \cup C) \in Nat
       /\ Cardinality((A \cup B) \cup C) <= Cardinality(A \cup B) + Cardinality(C)
  BY <1>7
<1> DEFINE ab  == Cardinality(A \cup B)
           abc == Cardinality((A \cup B) \cup C)
           ca  == Cardinality(A)
           cb  == Cardinality(B)
           cc  == Cardinality(C)
<1>11. /\ ca \in Nat /\ cb \in Nat /\ cc \in Nat /\ ab \in Nat /\ abc \in Nat /\ x \in Nat
       /\ ca <= Len(g.draws) /\ cb <= Len(g.dispatches) /\ cc <= Len(g.writes)
       /\ ab <= ca + cb /\ abc <= ab + cc /\ x <= abc
  BY <1>4, <1>6, <1>8, <1>10
<1> HIDE DEF ab, abc, ca, cb, cc, x
<1> DEFINE ld == Len(g.draws)
           lp == Len(g.dispatches)
           lw == Len(g.writes)
<1>12. x <= ld + lp + lw
  <2>1. ld \in Nat /\ lp \in Nat /\ lw \in Nat /\ ca <= ld /\ cb <= lp /\ cc <= lw
    BY <1>9, <1>11
  <2>2. x <= ca + cb + cc
    BY <1>11
  <2> HIDE DEF ld, lp, lw
  <2> QED
    BY <1>11, <2>1, <2>2
<1>13. x < MaxOps
  BY <1>2, <1>3, <1>9, <1>11, <1>12
<1> QED
  BY <1>3, <1>8, <1>13 DEF x

\* The list has room: every operation is kept, and the boundary follows.
LEMMA LoweringIs ==
  ASSUME NEW g, NEW h, Matches(g, h)
  PROVE  LET low == LowerGnmStateToIR(g)
             m   == Cardinality(Emitted(g))
             all == Merged(Emitted(g))
         IN  /\ low.unmapped = g.total - g.named /\ low.carried = g.carried /\ low.dropped = 0
             /\ DOMAIN low.ops = 1 .. Len(low.ops)
             /\ Len(low.ops) = IF m = 0 THEN 0 ELSE m + 1
             /\ \A k \in 1 .. m : low.ops[k] = Lowered(all[k])
             /\ m # 0 => low.ops[m + 1] = [kind |-> "barrier", seq |-> low.ops[m].seq]
<1> DEFINE low  == LowerGnmStateToIR(g)
           m    == Cardinality(Emitted(g))
           all  == Merged(Emitted(g))
           kept == [i \in 1 .. (IF Len(all) < MaxOps THEN Len(all) ELSE MaxOps) |-> Lowered(all[i])]
           full == Len(kept) = MaxOps
           ops  == IF kept = <<>> \/ full THEN kept
                   ELSE Append(kept, [kind |-> "barrier", seq |-> Last(kept).seq])
<1>1. m \in Nat /\ m < MaxOps /\ MaxOps \in Nat
  BY EmittedFits, StreamConstants
<1>2. low = [ops |-> ops, unmapped |-> Unmapped(g), carried |-> g.carried,
             dropped |-> (Len(all) - Len(kept)) + (IF full THEN 1 ELSE 0)]
  BY DEF LowerGnmStateToIR, Emitted
<1>3. Len(all) = m
  <2>1. \E f : all = [k \in 1 .. m |-> f[k]]
    <3> DEFINE place(k) == CHOOSE e \in Emitted(g) : Cardinality({f \in Emitted(g) : f.seq <= e.seq}) = k
    <3>1. all = [k \in 1 .. m |-> place(k)]
      BY Zenon DEF Merged
    <3> HIDE DEF place, all, m
    <3> DEFINE f == [k \in 1 .. m |-> place(k)]
    <3>2. all = [k \in 1 .. m |-> f[k]]
      BY <3>1
    <3> HIDE DEF f
    <3> QED
      BY <3>2
  <2> HIDE DEF all, m
  <2> QED
    BY <1>1, <2>1
<1> HIDE DEF all, m
<1>4. kept = [i \in 1 .. m |-> Lowered(all[i])]
  BY <1>1, <1>3
<1> HIDE DEF kept
<1>5. Len(kept) = m /\ kept \in Seq({Lowered(all[i]) : i \in 1 .. m}) /\ DOMAIN kept = 1 .. m
  BY <1>1, <1>4
<1>6. ~full
  BY <1>1, <1>5
<1>7. low.dropped = 0
  BY <1>1, <1>2, <1>3, <1>5, <1>6
<1>8. low.ops = ops
  BY <1>2
<1>9. CASE m = 0
  <2>1. kept = <<>>
    BY <1>4, <1>9
  <2>2. ops = <<>>
    BY <2>1
  <2> QED
    BY <1>2, <1>7, <1>8, <1>9, <2>2 DEF Unmapped, m, all
<1>10. CASE m # 0
  <2>1. kept # <<>>
    BY <1>1, <1>5, <1>10
  <2>2. Last(kept) = kept[m]
    BY <1>5 DEF Last
  <2>3. ops = Append(kept, [kind |-> "barrier", seq |-> kept[m].seq])
    BY <1>6, <2>1, <2>2
  <2> HIDE DEF ops
  <2>4. /\ Len(ops) = m + 1 /\ DOMAIN ops = 1 .. m + 1
        /\ \A k \in 1 .. m : ops[k] = kept[k]
        /\ ops[m + 1] = [kind |-> "barrier", seq |-> kept[m].seq]
    BY <1>1, <1>5, <2>3
  <2>5. \A k \in 1 .. m : ops[k] = Lowered(all[k])
    BY <1>4, <2>4
  <2>6. ops[m] = kept[m]
    BY <1>1, <1>10, <2>4
  <2> QED
    BY <1>2, <1>7, <1>8, <1>10, <2>4, <2>5, <2>6 DEF Unmapped, m, all
<1> QED
  BY <1>9, <1>10

\* However long the stream and whatever the journal has dropped, each write of a register
\* is accounted for, and no operation is lost.
THEOREM NothingIsUncounted == StreamSpec => []CountsExact
<1>1. StreamInv => CountsExact
  <2> SUFFICES ASSUME StreamInv
               PROVE  CountsExact
    OBVIOUS
  <2> DEFINE low == LowerGnmStateToIR(gnm)
             n   == Len(history)
  <2>1. Matches(gnm, history) /\ history \in Seq(Walkable) /\ Counted(gnm, history)
    BY DEF StreamInv, Matches
  <2>2. evidence.low = low
    BY DEF StreamInv, Evidence
  <2>3. low.unmapped = gnm.total - gnm.named /\ low.carried = gnm.carried /\ low.dropped = 0
    BY <2>1, LoweringIs
  <2>4. /\ gnm.total = Upto(history, n, Writing(Regs))
        /\ gnm.named = Upto(history, n, Writing(Named))
        /\ gnm.carried = Upto(history, n, Writing({"INDEX"}))
        /\ gnm.outside = Upto(history, n, Writing({"outside"}))
    BY <2>1 DEF Counted
  <2>5. low.unmapped = Upto(history, n, Writing({"other"}))
    BY <2>1, <2>3, <2>4, OthersAreTheRest
  <2>6. \A Y : Cardinality({i \in DOMAIN history : \E r \in Y : Writes(history[i], r)})
               = Upto(history, n, Writing(Y))
    BY <2>1, WritingIs, Zenon
  <2> HIDE DEF low, n
  <2> QED
    BY <2>2, <2>3, <2>4, <2>5, <2>6 DEF CountsExact
<1> QED
  BY <1>1, StreamInvariance, PTL

-----------------------------------------------------------------------------
(* The operations are the packets that the logs still reach.               *)

\* The place of an index among those of a set.
Place(Y, i) == Cardinality({j \in Y : j <= i})

\* Places are told apart, in order, and none is left free.
LEMMA Places ==
  ASSUME NEW n \in Nat, NEW Y \in SUBSET (1 .. n)
  PROVE  /\ IsFiniteSet(Y) /\ Cardinality(Y) \in Nat
         /\ \A i \in Y : Place(Y, i) \in 1 .. Cardinality(Y)
         /\ \A i, j \in Y : i < j => Place(Y, i) < Place(Y, j)
         /\ \A k \in 1 .. Cardinality(Y) : \E i \in Y : Place(Y, i) = k
<1> DEFINE r == [i \in 1 .. n |-> i \in Y]
           m == Cardinality(Y)
           T == {TRUE}
<1>0. \A i \in Y : i \in 1 .. n /\ i \in Nat /\ i \in 0 .. n /\ i - 1 \in Nat /\ i \in Nat \ {0}
  OBVIOUS
<1>1. ASSUME NEW i \in 0 .. n PROVE {j \in 1 .. i : r[j] \in T} = {j \in Y : j <= i}
  <2>1. \A j \in 1 .. i : r[j] = (j \in Y)
    OBVIOUS
  <2>2. \A j \in 1 .. i : r[j] \in T <=> j \in Y
    BY <2>1
  <2>3. \A j \in Y : j <= i <=> j \in 1 .. i
    BY <1>0
  <2> HIDE DEF r, T
  <2> QED
    BY <2>2, <2>3
<1>2. \A i \in 0 .. n : Upto(r, i, T) = Place(Y, i)
  BY <1>1 DEF Upto, Place
<1>3. Place(Y, n) = m
  <2>1. \A j \in Y : j <= n
    BY <1>0
  <2> QED
    BY <2>1 DEF Place
<1>4. IsFiniteSet(Y) /\ m \in Nat
  <2>1. IsFiniteSet(1 .. n)
    BY FS_Interval
  <2> QED
    BY <2>1, FS_Subset, FS_CardinalityType
<1>5. \A i \in Y : r[i] \in T
  OBVIOUS
<1> HIDE DEF r, T, m
<1>6. \A i \in 0 .. n : Place(Y, i) \in Nat
  <2>1. \A i \in 0 .. n : i \in Nat
    OBVIOUS
  <2> QED
    BY <1>2, <2>1, UptoNat
<1>7. ASSUME NEW i \in Y, NEW j \in Y, i < j PROVE Place(Y, i) < Place(Y, j)
  <2>1. Upto(r, i, T) < Upto(r, j, T)
    <3>1. i \in Nat /\ j \in Nat /\ i <= j /\ r[j] \in T
      BY <1>0, <1>5, <1>7
    <3> QED
      BY <1>7, <3>1, UptoRest
  <2> QED
    BY <1>0, <1>2, <2>1
<1>8. ASSUME NEW i \in Y PROVE Place(Y, i) \in 1 .. m
  <2>1. Upto(r, i, T) <= Upto(r, n, T)
    <3>1. i \in Nat /\ i <= n
      BY <1>0
    <3> QED
      BY <3>1, UptoRest
  <2>2. Upto(r, i, T) = Upto(r, i - 1, T) + 1
    BY <1>0, <1>5, UptoStep
  <2>3. Upto(r, i - 1, T) \in Nat
    <3>1. i - 1 \in Nat
      BY <1>0
    <3> QED
      BY <3>1, UptoNat
  <2>4. Upto(r, i, T) = Place(Y, i) /\ Upto(r, n, T) = Place(Y, n)
    BY <1>0, <1>2
  <2> QED
    BY <1>3, <1>4, <2>1, <2>2, <2>3, <2>4
<1>9. ASSUME NEW k \in 1 .. m PROVE \E i \in Y : Place(Y, i) = k
  <2> DEFINE f == [i \in Y |-> Place(Y, i)]
  <2>1. f \in [Y -> 1 .. m]
    BY <1>8
  <2>2. \A a, b \in Y : f[a] = f[b] => a = b
    <3> SUFFICES ASSUME NEW a \in Y, NEW b \in Y, f[a] = f[b], a # b
                 PROVE  FALSE
      OBVIOUS
    <3>1. a < b \/ b < a
      OBVIOUS
    <3>2. Place(Y, a) \in Nat /\ Place(Y, b) \in Nat /\ Place(Y, a) = Place(Y, b)
      BY <1>8
    <3> QED
      BY <1>7, <3>1, <3>2
  <2>3. f \in Injection(Y, 1 .. m)
    BY <2>1, <2>2 DEF Injection, IsInjective
  <2>4. IsFiniteSet(1 .. m) /\ Cardinality(1 .. m) = m
    BY <1>4, FS_Interval
  <2> HIDE DEF f
  <2>5. f \in Surjection(Y, 1 .. m)
    BY <2>3, <2>4, FS_Injection DEF m
  <2>6. \E i \in Y : f[i] = k
    BY <2>5 DEF Surjection
  <2> QED
    BY <2>6 DEF f
<1> QED
  BY <1>4, <1>7, <1>8, <1>9 DEF m

\* What a function makes of a set.
Image(f, Y) == {f[x] : x \in Y}

\* The records of the indices in Y carry numbers that grow with the index.
Growing(rec, Y) ==
  /\ \A i \in Y : rec[i].seq \in Nat
  /\ \A i, j \in Y : i < j => rec[i].seq < rec[j].seq

\* The merged list of E has the record of every index at the index's place.
InPlace(E, rec, Y) == \A i \in Y : Merged(E)[Place(Y, i)] = rec[i]

\* Records with growing numbers are merged in the order of their indices.
LEMMA MergedInOrder ==
  ASSUME NEW n \in Nat, NEW Y \in SUBSET (1 .. n), NEW rec, Growing(rec, Y),
         NEW E, E = Image(rec, Y)
  PROVE  Cardinality(E) = Cardinality(Y) /\ InPlace(E, rec, Y)
<1> USE DEF Growing
<1>0. /\ \A i \in Y : i \in 1 .. n
      /\ IsFiniteSet(Y) /\ \A i \in Y : Place(Y, i) \in 1 .. Cardinality(Y)
      /\ \A i, j \in Y : i < j => Place(Y, i) < Place(Y, j)
  BY Places
<1>1. \A i, j \in Y : rec[i].seq <= rec[j].seq <=> i <= j
  <2> TAKE i, j \in Y
  <2>1. i < j \/ i = j \/ j < i
    BY <1>0
  <2>2. i \in Nat /\ j \in Nat /\ rec[i].seq \in Nat /\ rec[j].seq \in Nat
    BY <1>0
  <2>3. /\ i < j => rec[i].seq < rec[j].seq
        /\ j < i => rec[j].seq < rec[i].seq
    OBVIOUS
  <2> QED
    BY <2>1, <2>2, <2>3
<1>2. \A i, j \in Y : rec[i] = rec[j] => i = j
  <2> SUFFICES ASSUME NEW i \in Y, NEW j \in Y, rec[i] = rec[j], i # j
               PROVE  FALSE
    OBVIOUS
  <2>1. i < j \/ j < i
    BY <1>0
  <2>2. rec[i].seq < rec[j].seq \/ rec[j].seq < rec[i].seq
    BY <2>1
  <2>3. rec[i].seq \in Nat /\ rec[j].seq = rec[i].seq
    OBVIOUS
  <2> QED
    BY <2>2, <2>3
<1>3. ASSUME NEW A \in SUBSET Y
      PROVE  Cardinality({rec[i] : i \in A}) = Cardinality(A)
  <2> DEFINE f == [i \in A |-> rec[i]]
             B == {rec[i] : i \in A}
  <2>1. f \in [A -> B]
    OBVIOUS
  <2>2. \A a, b \in A : f[a] = f[b] => a = b
    BY <1>2
  <2>3. \A t \in B : \E s \in A : f[s] = t
    OBVIOUS
  <2> HIDE DEF f, B
  <2>4. f \in Bijection(A, B)
    BY <2>1, <2>2, <2>3 DEF Bijection, Injection, Surjection, IsInjective
  <2>5. IsFiniteSet(A)
    BY Places, FS_Subset
  <2>6. Cardinality(B) = Cardinality(A)
    BY <2>4, <2>5, FS_Bijection DEF ExistsBijection
  <2> QED
    BY <2>6 DEF B
<1>9. E = {rec[i] : i \in Y}
  BY DEF Image
<1>4. Cardinality(E) = Cardinality(Y)
  BY <1>3, <1>9
<1>5. \A j \in Y : Cardinality({f \in E : f.seq <= rec[j].seq}) = Place(Y, j)
  <2> TAKE j \in Y
  <2> DEFINE A == {i \in Y : i <= j}
  <2>1. {f \in E : f.seq <= rec[j].seq} = {rec[i] : i \in A}
    BY <1>1, <1>9
  <2>2. A \in SUBSET Y
    OBVIOUS
  <2> HIDE DEF A
  <2>3. Cardinality({rec[i] : i \in A}) = Cardinality(A)
    BY <1>3, <2>2
  <2> QED
    BY <2>1, <2>3 DEF A, Place
<1>6. ASSUME NEW i \in Y PROVE Merged(E)[Place(Y, i)] = rec[i]
  <2> DEFINE k    == Place(Y, i)
             P(e) == Cardinality({f \in E : f.seq <= e.seq}) = k
  <2>1. k \in 1 .. Cardinality(E)
    BY <1>4, Places
  <2>2. rec[i] \in E /\ P(rec[i])
    BY <1>5, <1>9
  <2>3. ASSUME NEW e \in E, P(e) PROVE e = rec[i]
    <3>1. PICK j \in Y : e = rec[j]
      BY <1>9
    <3>2. Place(Y, j) = Place(Y, i)
      BY <1>5, <2>3, <3>1
    <3>3. Place(Y, j) \in Int /\ Place(Y, i) \in Int
      BY <1>0
    <3>4. j < i \/ j = i \/ i < j
      OBVIOUS
    <3>5. j = i
      BY <1>0, <3>2, <3>3, <3>4
    <3> QED
      BY <3>1, <3>5
  <2>4. Merged(E)[k] = CHOOSE e \in E : P(e)
    <3> HIDE DEF k
    <3> QED
      BY <2>1 DEF Merged
  <2> HIDE DEF P
  <2> QED
    BY <2>2, <2>3, <2>4
<1> QED
  BY <1>4, <1>6 DEF InPlace

\* The packets of Q that at most max - 1 others of Q follow.
Kept(h, Q, max) ==
  {j \in DOMAIN h : h[j] \in Q /\ Upto(h, Len(h), Q) - Upto(h, j, Q) < max}

\* What a log holds, as a set.
LEMMA RangeIs ==
  ASSUME NEW P, NEW h \in Seq(P), NEW Q, NEW max \in Nat \ {0}, NEW R, NEW log \in Seq(R), NEW at,
         LogOf(log, h, Q, max, at)
  PROVE  Range(log) = Image(at, Kept(h, Q, max))
<1> DEFINE all == Upto(h, Len(h), Q)
           In  == {j \in DOMAIN h : h[j] \in Q /\ all - Upto(h, j, Q) < max}
<1>1. /\ Len(log) \in Nat /\ DOMAIN log = 1 .. Len(log)
      /\ Len(h) \in Nat /\ DOMAIN h = 1 .. Len(h) /\ all \in Nat
  BY UptoAll
<1>2. /\ Len(log) = IF all < max THEN all ELSE max
      /\ \A k \in 1 .. Len(log) : \E i \in DOMAIN h :
           h[i] \in Q /\ Upto(h, i, Q) = k + all - Len(log) /\ log[k] = at[i]
  BY DEF LogOf
<1>3. ASSUME NEW k \in 1 .. Len(log) PROVE \E i \in In : log[k] = at[i]
  <2>1. PICK i \in DOMAIN h : h[i] \in Q /\ Upto(h, i, Q) = k + all - Len(log) /\ log[k] = at[i]
    BY <1>2
  <2>2. all - Upto(h, i, Q) < max
    <3> HIDE DEF all
    <3> QED
      BY <1>1, <1>2, <2>1
  <2> QED
    BY <2>1, <2>2
<1>4. ASSUME NEW i \in In PROVE \E k \in 1 .. Len(log) : log[k] = at[i]
  <2> DEFINE u == Upto(h, i, Q)
             k == u - all + Len(log)
  <2>1. i \in 1 .. Len(h) /\ h[i] \in Q /\ all - u < max
    BY <1>1
  <2>2. u \in Nat /\ u # 0 /\ u <= all
    <3>1. u = Upto(h, i - 1, Q) + 1
      BY <2>1, UptoStep
    <3>2. Upto(h, i - 1, Q) \in Nat
      <4>1. i - 1 \in Nat
        BY <2>1
      <4> QED
        BY <4>1, UptoNat
    <3>3. u <= all
      <4>1. i \in Nat /\ i <= Len(h)
        BY <1>1, <2>1
      <4> QED
        BY <1>1, <4>1, UptoRest
    <3> QED
      BY <3>1, <3>2, <3>3
  <2> HIDE DEF all, u, In
  <2>3. k \in 1 .. Len(log) /\ k + all - Len(log) = u
    BY <1>1, <1>2, <2>1, <2>2
  <2>4. PICK j \in DOMAIN h : h[j] \in Q /\ Upto(h, j, Q) = u /\ log[k] = at[j]
    BY <1>2, <2>3
  <2>5. j \in Nat /\ i \in Nat /\ (j < i \/ j = i \/ i < j)
    BY <1>1, <2>1
  <2>6. ~(j < i)
    <3> SUFFICES ASSUME j < i PROVE FALSE
      OBVIOUS
    <3>1. Upto(h, j, Q) < Upto(h, i, Q)
      <4>1. j <= i
        BY <2>5
      <4> QED
        BY <2>1, <2>5, <4>1, UptoRest
    <3> QED
      BY <2>2, <2>4, <3>1 DEF u
  <2>7. ~(i < j)
    <3> SUFFICES ASSUME i < j PROVE FALSE
      OBVIOUS
    <3>1. Upto(h, i, Q) < Upto(h, j, Q)
      <4>1. i <= j
        BY <2>5
      <4> QED
        BY <2>4, <2>5, <4>1, UptoRest
    <3> QED
      BY <2>2, <2>4, <3>1 DEF u
  <2> QED
    BY <2>3, <2>4, <2>5, <2>6, <2>7
<1> HIDE DEF In
<1>5. Range(log) = {at[i] : i \in In}
  <2>1. Range(log) = {log[k] : k \in 1 .. Len(log)}
    BY <1>1 DEF Range
  <2>2. ASSUME NEW e \in Range(log) PROVE e \in {at[i] : i \in In}
    <3>1. PICK k \in 1 .. Len(log) : e = log[k]
      BY <2>1
    <3> QED
      BY <1>3, <3>1
  <2>3. ASSUME NEW i \in In PROVE at[i] \in Range(log)
    BY <1>4, <2>1
  <2> QED
    BY <2>2, <2>3
<1> QED
  BY <1>5 DEF In, Kept, Image

\* The packets that are in reach, and the record of each.
Reach(h) == {i \in DOMAIN h : InReach(h, i)}

RecordsAt(h) ==
  [i \in DOMAIN h |-> CASE Class(h[i]) = "draws" -> DrawsAt(h)[i]
                        [] Class(h[i]) = "dispatches" -> DispatchesAt(h)[i]
                        [] OTHER -> WritesAt(h)[i]]

\* The classes of what can be walked.
LEMMA ClassIs ==
  ASSUME NEW p \in Walkable
  PROVE  /\ Class(p) \in {"draws", "dispatches", "writes", "none"}
         /\ Class(p) = "writes" => Target(p) \in Named /\ (Target(p) = "BR" <=> Writes(p, "BR"))
         /\ Class(p) = "writes" => p.value \in Nat
         /\ Class(p) = "dispatches" => p.value \in Nat
         /\ Class(p) = "draws" => p.indexed \in BOOLEAN
<1>1. Values \subseteq Nat /\ Amounts \subseteq Nat
  BY StreamConstants
<1>2. CASE p.op = "set" /\ p.reg \in Named /\ p.value \in Values
  BY <1>1, <1>2, PacketClass, PacketWrites DEF Target
<1>3. CASE p.op = "set" /\ p.reg \in {"other", "outside"} /\ p.value = 0
  BY <1>3, PacketClass DEF Named
<1>4. CASE p.op = "indexType" /\ p.value \in Values
  BY <1>1, <1>4, PacketClass, PacketWrites DEF Target, Named
<1>5. CASE p.op \in {"instances", "dispatch"} /\ p.value \in Amounts
  BY <1>1, <1>5, PacketClass
<1>6. CASE p.op = "draw" /\ p.indexed \in BOOLEAN
  BY <1>6, PacketClass
<1>7. CASE p.op = "skipped"
  BY <1>7, PacketClass
<1> QED
  BY <1>2, <1>3, <1>4, <1>5, <1>6, <1>7, PacketKinds

\* How many packets of its class follow a packet.
LEMMA ReachIs ==
  ASSUME NEW h \in Seq(Walkable), NEW i \in DOMAIN h
  PROVE  LET left(c) == Upto(h, Len(h), OfClass(c)) - Upto(h, i, OfClass(c))
         IN  InReach(h, i) <=>
               \/ Class(h[i]) = "draws" /\ left("draws") < MaxDrawLog
               \/ Class(h[i]) = "dispatches" /\ left("dispatches") < MaxDispatchLog
               \/ /\ Class(h[i]) = "writes" /\ left("writes") < MaxNamedWriteLog
                  /\ Target(h[i]) = "BR"
<1> DEFINE n == Len(h)
           c == Class(h[i])
           left(x) == Upto(h, n, OfClass(x)) - Upto(h, i, OfClass(x))
           later == Cardinality({j \in i + 1 .. n : Class(h[j]) = c})
<1>1. n \in Nat /\ i \in 1 .. n /\ i \in Nat /\ i <= n /\ \A j \in 1 .. n : h[j] \in Walkable
  OBVIOUS
<1>2. {j \in i + 1 .. n : Class(h[j]) = c} = {j \in i + 1 .. n : h[j] \in OfClass(c)}
  BY <1>1 DEF OfClass
<1>3. later = left(c)
  <2>1. Cardinality({j \in i + 1 .. n : h[j] \in OfClass(c)}) = left(c)
    <3> HIDE DEF n, c
    <3> QED
      BY <1>1, UptoRest
  <2> QED
    BY <1>2, <2>1
<1>4. InReach(h, i) <=>
        CASE c = "draws" -> later < MaxDrawLog
          [] c = "dispatches" -> later < MaxDispatchLog
          [] c = "writes" -> later < MaxNamedWriteLog /\ Writes(h[i], "BR")
          [] OTHER -> FALSE
  BY DEF InReach
<1>5. /\ c \in {"draws", "dispatches", "writes", "none"}
      /\ c = "writes" => (Target(h[i]) = "BR" <=> Writes(h[i], "BR"))
  BY <1>1, ClassIs
<1> HIDE DEF later, left
<1>6. InReach(h, i) <=>
               \/ c = "draws" /\ left(c) < MaxDrawLog
               \/ c = "dispatches" /\ left(c) < MaxDispatchLog
               \/ c = "writes" /\ left(c) < MaxNamedWriteLog /\ Target(h[i]) = "BR"
  <2>1. CASE c = "draws"
    BY <1>3, <1>4, <2>1
  <2>2. CASE c = "dispatches"
    BY <1>3, <1>4, <2>2
  <2>3. CASE c = "writes"
    BY <1>3, <1>4, <1>5, <2>3
  <2>4. CASE c = "none"
    BY <1>3, <1>4, <2>4
  <2> QED
    BY <1>5, <2>1, <2>2, <2>3, <2>4
<1> QED
  BY <1>6 DEF left

\* What is lowered are the records of the packets in reach.
LEMMA EmittedIs ==
  ASSUME NEW g, NEW h, Matches(g, h)
  PROVE  Emitted(g) = {RecordsAt(h)[i] : i \in Reach(h)}
<1> DEFINE left(c, i) == Upto(h, Len(h), OfClass(c)) - Upto(h, i, OfClass(c))
           D == {j \in DOMAIN h : h[j] \in OfClass("draws") /\ left("draws", j) < MaxDrawLog}
           C == {j \in DOMAIN h : h[j] \in OfClass("dispatches")
                                  /\ left("dispatches", j) < MaxDispatchLog}
           W == {j \in DOMAIN h : h[j] \in OfClass("writes") /\ left("writes", j) < MaxNamedWriteLog}
<1>1. /\ h \in Seq(Walkable) /\ \A i \in DOMAIN h : h[i] \in Walkable
      /\ g.draws \in Seq(DrawRecs) /\ g.dispatches \in Seq(DispatchRecs)
      /\ g.writes \in Seq(WriteRecs)
  BY DEF Matches, GnmStates
<1>2. {MaxDrawLog, MaxDispatchLog, MaxNamedWriteLog} \subseteq Nat \ {0}
  BY StreamConstants
<1>3. Range(g.draws) = {DrawsAt(h)[i] : i \in D}
  <2> DEFINE Q   == OfClass("draws")
             max == MaxDrawLog
             at  == DrawsAt(h)
             log == g.draws
  <2>1. LogOf(log, h, Q, max, at)
    BY DEF Matches, Recorded
  <2>2. max \in Nat \ {0} /\ log \in Seq(DrawRecs)
    BY <1>1, <1>2
  <2> HIDE DEF Q, max, at, log
  <2>3. Range(log) = Image(at, Kept(h, Q, max))
    BY <1>1, <2>1, <2>2, RangeIs
  <2> QED
    BY <2>3 DEF Q, max, at, log, Kept, Image
<1>4. Range(g.dispatches) = {DispatchesAt(h)[i] : i \in C}
  <2> DEFINE Q   == OfClass("dispatches")
             max == MaxDispatchLog
             at  == DispatchesAt(h)
             log == g.dispatches
  <2>1. LogOf(log, h, Q, max, at)
    BY DEF Matches, Recorded
  <2>2. max \in Nat \ {0} /\ log \in Seq(DispatchRecs)
    BY <1>1, <1>2
  <2> HIDE DEF Q, max, at, log
  <2>3. Range(log) = Image(at, Kept(h, Q, max))
    BY <1>1, <2>1, <2>2, RangeIs
  <2> QED
    BY <2>3 DEF Q, max, at, log, Kept, Image
<1>5. Range(g.writes) = {WritesAt(h)[i] : i \in W}
  <2> DEFINE Q   == OfClass("writes")
             max == MaxNamedWriteLog
             at  == WritesAt(h)
             log == g.writes
  <2>1. LogOf(log, h, Q, max, at)
    BY DEF Matches, Recorded
  <2>2. max \in Nat \ {0} /\ log \in Seq(WriteRecs)
    BY <1>1, <1>2
  <2> HIDE DEF Q, max, at, log
  <2>3. Range(log) = Image(at, Kept(h, Q, max))
    BY <1>1, <2>1, <2>2, RangeIs
  <2> QED
    BY <2>3 DEF Q, max, at, log, Kept, Image
<1>6. Reach(h) = (D \cup C) \cup {i \in W : Target(h[i]) = "BR"}
  <2>1. \A i \in DOMAIN h : InReach(h, i) <=>
               \/ Class(h[i]) = "draws" /\ left("draws", i) < MaxDrawLog
               \/ Class(h[i]) = "dispatches" /\ left("dispatches", i) < MaxDispatchLog
               \/ /\ Class(h[i]) = "writes" /\ left("writes", i) < MaxNamedWriteLog
                  /\ Target(h[i]) = "BR"
    BY <1>1, ReachIs
  <2>2. \A i \in DOMAIN h : \A c : h[i] \in OfClass(c) <=> Class(h[i]) = c
    BY <1>1 DEF OfClass
  <2> HIDE DEF left
  <2> QED
    BY <2>1, <2>2 DEF Reach
<1>7. /\ \A i \in D : i \in DOMAIN h /\ Class(h[i]) = "draws"
      /\ \A i \in C : i \in DOMAIN h /\ Class(h[i]) = "dispatches"
      /\ \A i \in W : i \in DOMAIN h /\ Class(h[i]) = "writes"
  BY DEF OfClass
<1> HIDE DEF D, C, W
<1>8. \A i \in D : RecordsAt(h)[i] = DrawsAt(h)[i] /\ Emits(DrawsAt(h)[i])
  <2>1. \A i \in D : DrawsAt(h)[i].kind \in {"draw", "drawIndexed"}
    BY <1>7 DEF DrawsAt
  <2> QED
    BY <1>7, <2>1 DEF RecordsAt, Emits
<1>9. \A i \in C : RecordsAt(h)[i] = DispatchesAt(h)[i] /\ Emits(DispatchesAt(h)[i])
  <2>1. \A i \in C : DispatchesAt(h)[i].kind = "dispatch"
    BY <1>7 DEF DispatchesAt
  <2> QED
    BY <1>7, <2>1 DEF RecordsAt, Emits
<1>10. \A i \in W : RecordsAt(h)[i] = WritesAt(h)[i] /\ (Emits(WritesAt(h)[i]) <=> Target(h[i]) = "BR")
  <2>1. \A i \in W : WritesAt(h)[i].kind = Target(h[i]) /\ Target(h[i]) \in Named
    BY <1>1, <1>7, ClassIs DEF WritesAt
  <2> QED
    BY <1>7, <2>1 DEF RecordsAt, Emits, Named
<1>11. Emitted(g) = {e \in {DrawsAt(h)[i] : i \in D} \cup {DispatchesAt(h)[i] : i \in C}
                           \cup {WritesAt(h)[i] : i \in W} : Emits(e)}
  BY <1>3, <1>4, <1>5 DEF Emitted, Timeline
<1>12. ASSUME NEW e \in Emitted(g) PROVE \E i \in Reach(h) : e = RecordsAt(h)[i]
  BY <1>6, <1>8, <1>9, <1>10, <1>11
<1>13. ASSUME NEW i \in Reach(h) PROVE RecordsAt(h)[i] \in Emitted(g)
  <2>1. CASE i \in D
    BY <1>8, <1>11, <2>1
  <2>2. CASE i \in C
    BY <1>9, <1>11, <2>2
  <2>3. CASE i \in W /\ Target(h[i]) = "BR"
    BY <1>10, <1>11, <2>3
  <2> QED
    BY <1>6, <2>1, <2>2, <2>3
<1> QED
  BY <1>12, <1>13

\* The operations, as they follow from the packets in reach.
OpsAre(ops, h) ==
  LET m == Cardinality(Reach(h)) IN
  /\ m \in Nat /\ (m = 0 <=> Reach(h) = {})
  /\ DOMAIN ops = 1 .. Len(ops) /\ Len(ops) = IF m = 0 THEN 0 ELSE m + 1
  /\ \A i \in Reach(h) : Place(Reach(h), i) \in 1 .. m
                         /\ ops[Place(Reach(h), i)] = Lowered(RecordsAt(h)[i])
  /\ \A i, j \in Reach(h) : i < j => Place(Reach(h), i) < Place(Reach(h), j)
  /\ \A k \in 1 .. m : \E i \in Reach(h) : k = Place(Reach(h), i)
  /\ m # 0 => ops[m + 1] = [kind |-> "barrier", seq |-> ops[m].seq]

\* The packets in reach are numbered, and in their order.
LEMMA ReachNumbered ==
  ASSUME NEW h \in Seq(Walkable)
  PROVE  /\ \A i \in Reach(h) : /\ i \in 1 .. Len(h) /\ h[i] \in Classed
                                /\ RecordsAt(h)[i].seq = Upto(h, i, Classed)
                                /\ RecordsAt(h)[i].seq \in Nat
         /\ \A i, j \in Reach(h) : i < j => RecordsAt(h)[i].seq < RecordsAt(h)[j].seq
<1>1. \A i \in DOMAIN h : h[i] \in Walkable /\ i \in Nat
  OBVIOUS
<1>2. ASSUME NEW i \in Reach(h)
      PROVE  /\ i \in DOMAIN h /\ h[i] \in Classed
             /\ RecordsAt(h)[i].seq = Upto(h, i, Classed) /\ RecordsAt(h)[i].seq \in Nat
  <2>1. i \in DOMAIN h /\ InReach(h, i)
    BY DEF Reach
  <2>2. Class(h[i]) \in {"draws", "dispatches", "writes"}
    BY <2>1, ReachIs
  <2>3. h[i] \in Classed
    BY <1>1, <2>1, <2>2 DEF Classed
  <2>4. /\ DrawsAt(h)[i].seq = Upto(h, i, Classed)
        /\ DispatchesAt(h)[i].seq = Upto(h, i, Classed)
        /\ WritesAt(h)[i].seq = Upto(h, i, Classed)
    BY <2>1 DEF DrawsAt, DispatchesAt, WritesAt
  <2>5. \/ RecordsAt(h)[i] = DrawsAt(h)[i]
        \/ RecordsAt(h)[i] = DispatchesAt(h)[i]
        \/ RecordsAt(h)[i] = WritesAt(h)[i]
    BY <2>1, <2>2 DEF RecordsAt
  <2>6. RecordsAt(h)[i].seq = Upto(h, i, Classed)
    BY <2>4, <2>5
  <2>7. Upto(h, i, Classed) \in Nat
    BY <1>1, <2>1, UptoNat
  <2> QED
    BY <2>1, <2>3, <2>6, <2>7
<1>3. ASSUME NEW i \in Reach(h), NEW j \in Reach(h), i < j
      PROVE  RecordsAt(h)[i].seq < RecordsAt(h)[j].seq
  <2>1. i \in Nat /\ j \in Nat /\ h[j] \in Classed
    BY <1>1, <1>2
  <2>2. i <= j
    BY <1>3, <2>1
  <2>3. Upto(h, i, Classed) < Upto(h, j, Classed)
    BY <1>3, <2>1, <2>2, UptoRest
  <2> QED
    BY <1>2, <2>3
<1>4. DOMAIN h = 1 .. Len(h)
  OBVIOUS
<1> QED
  BY <1>2, <1>3, <1>4

\* The lowering gives these operations.
LEMMA OpsFollow ==
  ASSUME NEW g, NEW h, Matches(g, h)
  PROVE  OpsAre(LowerGnmStateToIR(g).ops, h)
<1> DEFINE n   == Len(h)
           Y   == Reach(h)
           rec == RecordsAt(h)
           E   == Emitted(g)
           ops == LowerGnmStateToIR(g).ops
           m   == Cardinality(Y)
<1>1. h \in Seq(Walkable) /\ n \in Nat
  BY DEF Matches
<1>2. /\ \A i \in Y : i \in 1 .. n /\ rec[i].seq \in Nat
      /\ \A i, j \in Y : i < j => rec[i].seq < rec[j].seq
  BY <1>1, ReachNumbered
<1>3. Y \in SUBSET (1 .. n) /\ E = Image(rec, Y)
  BY <1>2, EmittedIs DEF Image
<1>4. /\ DOMAIN ops = 1 .. Len(ops)
      /\ Len(ops) = IF Cardinality(E) = 0 THEN 0 ELSE Cardinality(E) + 1
      /\ \A k \in 1 .. Cardinality(E) : ops[k] = Lowered(Merged(E)[k])
      /\ Cardinality(E) # 0
           => ops[Cardinality(E) + 1] = [kind |-> "barrier", seq |-> ops[Cardinality(E)].seq]
  BY LoweringIs
<1> HIDE DEF Y, E, rec, ops, n
<1>5. Cardinality(E) = m /\ \A i \in Y : Merged(E)[Place(Y, i)] = rec[i]
  <2>1. n \in Nat /\ Y \in SUBSET (1 .. n) /\ Growing(rec, Y) /\ E = Image(rec, Y)
    BY <1>1, <1>2, <1>3 DEF Growing
  <2>2. Cardinality(E) = Cardinality(Y) /\ InPlace(E, rec, Y)
    BY <2>1, MergedInOrder, Zenon
  <2> QED
    BY <2>2 DEF InPlace
<1>6. /\ IsFiniteSet(Y) /\ m \in Nat
      /\ \A i \in Y : Place(Y, i) \in 1 .. m
      /\ \A i, j \in Y : i < j => Place(Y, i) < Place(Y, j)
      /\ \A k \in 1 .. m : \E i \in Y : Place(Y, i) = k
  BY <1>1, <1>3, Places
<1>7. m = 0 <=> Y = {}
  BY <1>6, FS_EmptySet
<1> HIDE DEF m
<1>8. \A i \in Y : ops[Place(Y, i)] = Lowered(rec[i])
  BY <1>4, <1>5, <1>6
<1> QED
  BY <1>4, <1>5, <1>6, <1>7, <1>8 DEF OpsAre, Y, rec, ops, m

\* What was in force before a packet.
LEMMA BeforeIs ==
  ASSUME NEW h \in Seq(Walkable), NEW i \in DOMAIN h
  PROVE  /\ Before(h, i, LAMBDA e : e.op = "instances") = Gave(h, i, Instancing)
         /\ Before(h, i, LAMBDA e : e.op = "indexType") = Gave(h, i, IndexTyping)
         /\ Before(h, i, LAMBDA e : Writes(e, "TL")) = Gave(h, i, Cornering)
<1>1. \A j \in 1 .. i - 1 : h[j] \in Walkable
  OBVIOUS
<1>2. Before(h, i, LAMBDA e : e.op = "instances") = Gave(h, i, Instancing)
  <2> DEFINE A == {j \in 1 .. i - 1 : h[j].op = "instances"}
             B == {j \in 1 .. i - 1 : h[j] \in Instancing}
             V(X) == IF X = {} THEN 0 ELSE h[CHOOSE j \in X : \A k \in X : k <= j].value
  <2>1. A = B
    BY <1>1 DEF Instancing
  <2>2. Before(h, i, LAMBDA e : e.op = "instances") = V(A)
    BY DEF Before
  <2>3. Gave(h, i, Instancing) = V(B)
    BY DEF Gave
  <2>4. V(A) = V(B)
    <3> HIDE DEF A, B, V
    <3> QED
      BY <2>1
  <2> HIDE DEF V, A, B
  <2> QED
    BY <2>2, <2>3, <2>4
<1>3. Before(h, i, LAMBDA e : e.op = "indexType") = Gave(h, i, IndexTyping)
  <2> DEFINE A == {j \in 1 .. i - 1 : h[j].op = "indexType"}
             B == {j \in 1 .. i - 1 : h[j] \in IndexTyping}
             V(X) == IF X = {} THEN 0 ELSE h[CHOOSE j \in X : \A k \in X : k <= j].value
  <2>1. A = B
    BY <1>1 DEF IndexTyping
  <2>2. Before(h, i, LAMBDA e : e.op = "indexType") = V(A)
    BY DEF Before
  <2>3. Gave(h, i, IndexTyping) = V(B)
    BY DEF Gave
  <2>4. V(A) = V(B)
    <3> HIDE DEF A, B, V
    <3> QED
      BY <2>1
  <2> HIDE DEF V, A, B
  <2> QED
    BY <2>2, <2>3, <2>4
<1>4. Before(h, i, LAMBDA e : Writes(e, "TL")) = Gave(h, i, Cornering)
  <2> DEFINE A == {j \in 1 .. i - 1 : Writes(h[j], "TL")}
             B == {j \in 1 .. i - 1 : h[j] \in Cornering}
             V(X) == IF X = {} THEN 0 ELSE h[CHOOSE j \in X : \A k \in X : k <= j].value
  <2>1. A = B
    BY <1>1 DEF Cornering
  <2>2. Before(h, i, LAMBDA e : Writes(e, "TL")) = V(A)
    BY DEF Before
  <2>3. Gave(h, i, Cornering) = V(B)
    BY DEF Gave
  <2>4. V(A) = V(B)
    <3> HIDE DEF A, B, V
    <3> QED
      BY <2>1
  <2> HIDE DEF V, A, B
  <2> QED
    BY <2>2, <2>3, <2>4
<1> QED
  BY <1>2, <1>3, <1>4

\* An operation says what the guest meant.
LEMMA RecordIsMeant ==
  ASSUME NEW h \in Seq(Walkable), NEW i \in Reach(h)
  PROVE  LET meant == Meant(h, i)
             op    == Lowered(RecordsAt(h)[i])
         IN  (\A f \in DOMAIN meant : op[f] = meant[f]) /\ op.seq = Numbered(h, i)
             /\ op.seq = RecordsAt(h)[i].seq
             /\ op.kind \in {"draw", "drawIndexed", "dispatch", "scissor"}
<1> DEFINE meant == Meant(h, i)
           op    == Lowered(RecordsAt(h)[i])
<1>1. i \in DOMAIN h /\ h[i] \in Walkable /\ i \in 1 .. Len(h)
  BY DEF Reach
<1>2. \/ Class(h[i]) = "draws"
      \/ Class(h[i]) = "dispatches"
      \/ Class(h[i]) = "writes" /\ Target(h[i]) = "BR"
  BY <1>1, ReachIs DEF Reach
<1>3. RecordsAt(h)[i].seq = Numbered(h, i)
  <2>1. \A j \in 1 .. i : h[j] \in Walkable
    BY <1>1
  <2>2. {j \in 1 .. i : Class(h[j]) # "none"} = {j \in 1 .. i : h[j] \in Classed}
    BY <2>1 DEF Classed
  <2>3. Numbered(h, i) = Upto(h, i, Classed)
    BY <2>2 DEF Numbered, Upto
  <2> QED
    BY <2>3, ReachNumbered
<1>4. /\ Before(h, i, LAMBDA e : e.op = "instances") = Gave(h, i, Instancing)
      /\ Before(h, i, LAMBDA e : e.op = "indexType") = Gave(h, i, IndexTyping)
      /\ Before(h, i, LAMBDA e : Writes(e, "TL")) = Gave(h, i, Cornering)
  BY <1>1, BeforeIs
<1>5. CASE Class(h[i]) = "draws"
  <2>1. RecordsAt(h)[i] = DrawsAt(h)[i]
    BY <1>1, <1>5 DEF RecordsAt
  <2>2. /\ DrawsAt(h)[i].kind = (IF h[i].indexed THEN "drawIndexed" ELSE "draw")
        /\ DrawsAt(h)[i].instances = Gave(h, i, Instancing)
        /\ DrawsAt(h)[i].indexType = Gave(h, i, IndexTyping)
    BY <1>1 DEF DrawsAt
  <2>3. op = RecordsAt(h)[i]
    BY <2>1, <2>2 DEF Lowered
  <2>4. meant = [kind |-> IF h[i].indexed THEN "drawIndexed" ELSE "draw",
                 instances |-> Before(h, i, LAMBDA e : e.op = "instances"),
                 indexType |-> Before(h, i, LAMBDA e : e.op = "indexType")]
    BY <1>5 DEF Meant
  <2>5. meant = [kind |-> IF h[i].indexed THEN "drawIndexed" ELSE "draw",
                 instances |-> Gave(h, i, Instancing), indexType |-> Gave(h, i, IndexTyping)]
    BY <1>4, <2>4
  <2> HIDE DEF meant, op
  <2>6. \A f \in DOMAIN meant : op[f] = meant[f]
    BY <2>1, <2>2, <2>3, <2>5
  <2>7. op.seq = Numbered(h, i) /\ op.seq = RecordsAt(h)[i].seq /\ op.kind \in {"draw", "drawIndexed"}
    BY <1>3, <2>1, <2>2, <2>3
  <2> QED
    BY <2>6, <2>7 DEF meant, op
<1>6. CASE Class(h[i]) = "dispatches"
  <2>1. RecordsAt(h)[i] = DispatchesAt(h)[i]
    BY <1>1, <1>6 DEF RecordsAt
  <2>2. DispatchesAt(h)[i].kind = "dispatch" /\ DispatchesAt(h)[i].value = h[i].value
    BY <1>1 DEF DispatchesAt
  <2>3. op = RecordsAt(h)[i]
    BY <2>1, <2>2 DEF Lowered
  <2>4. meant = [kind |-> "dispatch", value |-> h[i].value]
    BY <1>6 DEF Meant
  <2> HIDE DEF meant, op
  <2>5. \A f \in DOMAIN meant : op[f] = meant[f]
    BY <2>1, <2>2, <2>3, <2>4
  <2>6. op.seq = Numbered(h, i) /\ op.seq = RecordsAt(h)[i].seq /\ op.kind = "dispatch"
    BY <1>3, <2>1, <2>2, <2>3
  <2> QED
    BY <2>5, <2>6 DEF meant, op
<1>7. CASE Class(h[i]) = "writes" /\ Target(h[i]) = "BR"
  <2>1. RecordsAt(h)[i] = WritesAt(h)[i]
    BY <1>1, <1>7 DEF RecordsAt
  <2>2. /\ WritesAt(h)[i].kind = "BR" /\ WritesAt(h)[i].value = h[i].value
        /\ WritesAt(h)[i].paired = Gave(h, i, Cornering)
    BY <1>1, <1>7 DEF WritesAt
  <2>3. op = [kind |-> "scissor", seq |-> RecordsAt(h)[i].seq, from |-> WritesAt(h)[i].paired,
              to |-> WritesAt(h)[i].value]
    BY <2>1, <2>2 DEF Lowered
  <2>4. meant = [kind |-> "scissor", to |-> h[i].value,
                 from |-> Before(h, i, LAMBDA e : Writes(e, "TL"))]
    BY <1>7 DEF Meant
  <2>5. meant = [kind |-> "scissor", to |-> h[i].value, from |-> Gave(h, i, Cornering)]
    BY <1>4, <2>4
  <2> HIDE DEF meant, op
  <2>6. \A f \in DOMAIN meant : op[f] = meant[f]
    BY <2>2, <2>3, <2>5
  <2>7. op.seq = Numbered(h, i) /\ op.seq = RecordsAt(h)[i].seq /\ op.kind = "scissor"
    BY <1>3, <2>3
  <2> QED
    BY <2>6, <2>7 DEF meant, op
<1> QED
  BY <1>2, <1>5, <1>6, <1>7

\* The operations are the guest's draws, dispatches and scissors that the logs still reach,
\* in its order and with the state that was in force when each was recorded, whatever the
\* journal has dropped since.
THEOREM OperationsAreHistory == StreamSpec => []IrIsHistory
<1>1. StreamInv => IrIsHistory
  <2> SUFFICES ASSUME StreamInv
               PROVE  IrIsHistory
    OBVIOUS
  <2> DEFINE Y == Reach(history)
             m == Cardinality(Y)
             place == [i \in Y |-> Cardinality({j \in Y : j <= i})]
  <2>1. Matches(gnm, history) /\ history \in Seq(Walkable) /\ gnm \in GnmStates
    BY DEF StreamInv, Matches
  <2>2. Ops = LowerGnmStateToIR(gnm).ops
    BY DEF StreamInv, Evidence, Ops
  <2>3. OpsAre(Ops, history)
    BY <2>1, <2>2, OpsFollow
  <2>4. StreamTypes
    BY <2>1, EmittedFits DEF GnmStates, StreamTypes
  <2>5. ASSUME NEW i \in Y
        PROVE  /\ \A f \in DOMAIN Meant(history, i) : Ops[place[i]][f] = Meant(history, i)[f]
               /\ Ops[place[i]].seq = Numbered(history, i)
    <3>1. place[i] = Place(Y, i)
      BY DEF Place
    <3>2. Ops[place[i]] = Lowered(RecordsAt(history)[i])
      BY <2>3, <3>1 DEF OpsAre
    <3> HIDE DEF place
    <3> QED
      BY <2>1, <3>2, RecordIsMeant
  <2>6. /\ Len(Ops) = IF Y = {} THEN 0 ELSE m + 1
        /\ Y # {} => Ops[m + 1] = [kind |-> "barrier", seq |-> Ops[m].seq]
    BY <2>3 DEF OpsAre
  <2>7. Y = {i \in DOMAIN history : InReach(history, i)}
    BY DEF Reach
  <2>8. IrIsHistory <=>
          /\ StreamTypes
          /\ \A i \in Y :
               LET meant == Meant(history, i) IN
               /\ \A f \in DOMAIN meant : Ops[place[i]][f] = meant[f]
               /\ Ops[place[i]].seq = Numbered(history, i)
          /\ Len(Ops) = IF Y = {} THEN 0 ELSE m + 1
          /\ Y # {} => Ops[m + 1] = [kind |-> "barrier", seq |-> Ops[m].seq]
    BY <2>7, Zenon DEF IrIsHistory
  <2> HIDE DEF Y, m, place
  <2> QED
    BY <2>4, <2>5, <2>6, <2>8
<1> QED
  BY <1>1, StreamInvariance, PTL

-----------------------------------------------------------------------------
(* Planning.                                                               *)

PassRecs   == [first : Nat, last : Nat, size : Nat, load : {"load", "dontCare"}]
OpenPasses == [open : BOOLEAN, first : Nat, last : Nat, size : Nat, drew : BOOLEAN]
PlanStates == [passes : Seq(PassRecs), inside : Nat, outside : Nat, cur : OpenPasses]
NoPlan     == [passes |-> <<>>, inside |-> 0, outside |-> 0, cur |-> NoPass]

\* The pass that is closed.
PassFrom(cur) == [first |-> cur.first, last |-> cur.last, size |-> cur.size,
                  load |-> IF cur.drew THEN "load" ELSE "dontCare"]

\* Closing a pass.
LEMMA ClosedIs ==
  ASSUME NEW p \in PlanStates
  PROVE  LET q == Closed(p) IN
         /\ q \in PlanStates /\ q.outside = p.outside
         /\ p.cur.open => /\ q.passes = Append(p.passes, PassFrom(p.cur))
                          /\ q.inside = p.inside + p.cur.size /\ q.cur = NoPass
         /\ ~p.cur.open => q = p
<1> DEFINE q == Closed(p)
           ps == Append(p.passes, PassFrom(p.cur))
           in == p.inside + p.cur.size
<1>1. CASE ~p.cur.open
  BY <1>1 DEF Closed
<1>2. CASE p.cur.open
  <2>1. q = [p EXCEPT !.passes = ps, !.inside = in, !.cur = NoPass]
    BY <1>2 DEF Closed, PassFrom
  <2>2. PassFrom(p.cur) \in PassRecs
    BY DEF PlanStates, OpenPasses, PassRecs, PassFrom
  <2>3. ps \in Seq(PassRecs) /\ in \in Nat
    BY <2>2 DEF PlanStates, OpenPasses
  <2>4. NoPass \in OpenPasses
    BY DEF NoPass, OpenPasses
  <2> HIDE DEF ps, in, q
  <2>5. /\ q \in PlanStates /\ q.outside = p.outside
        /\ q.passes = ps /\ q.inside = in /\ q.cur = NoPass
    BY <2>1, <2>3, <2>4 DEF PlanStates
  <2> QED
    BY <1>2, <2>5 DEF ps, in, q
<1> QED
  BY <1>1, <1>2

\* An operation outside of every pass.
LEMMA PlannedOutside ==
  ASSUME NEW p \in PlanStates, NEW op, op.kind \in {"barrier", "dispatch"}
  PROVE  LET q == Planned(p, op) IN
         /\ q \in PlanStates /\ q.outside = p.outside + 1
         /\ p.cur.open => /\ q.passes = Append(p.passes, PassFrom(p.cur))
                          /\ q.inside = p.inside + p.cur.size /\ q.cur = NoPass
         /\ ~p.cur.open => q.passes = p.passes /\ q.inside = p.inside /\ q.cur = p.cur
<1> DEFINE c == Closed(p)
           out == p.outside + 1
           q == Planned(p, op)
<1>1. /\ c \in PlanStates /\ c.outside = p.outside
      /\ p.cur.open => /\ c.passes = Append(p.passes, PassFrom(p.cur))
                       /\ c.inside = p.inside + p.cur.size /\ c.cur = NoPass
      /\ ~p.cur.open => c = p
  BY ClosedIs
<1>2. q = [c EXCEPT !.outside = @ + 1]
  BY DEF Planned
<1> HIDE DEF c, q
<1>3. q = [c EXCEPT !.outside = out]
  BY <1>1, <1>2 DEF PlanStates
<1>4. out \in Nat
  BY DEF PlanStates
<1> HIDE DEF out
<1>5. /\ q \in PlanStates /\ q.outside = out
      /\ q.passes = c.passes /\ q.inside = c.inside /\ q.cur = c.cur
  BY <1>1, <1>3, <1>4 DEF PlanStates
<1> QED
  BY <1>1, <1>5 DEF q, out

\* A draw or a scissor is of a pass.
LEMMA PlannedInside ==
  ASSUME NEW p \in PlanStates, NEW op, op.kind \notin {"barrier", "dispatch"}, op.seq \in Nat
  PROVE  LET q == Planned(p, op) IN
         /\ q \in PlanStates
         /\ q.passes = p.passes /\ q.inside = p.inside /\ q.outside = p.outside
         /\ q.cur.open /\ q.cur.last = op.seq /\ q.cur.size = p.cur.size + 1
         /\ q.cur.first = IF p.cur.open THEN p.cur.first ELSE op.seq
         /\ q.cur.drew <=> (p.cur.drew \/ op.kind \in DrawKinds)
<1> DEFINE q == Planned(p, op)
           c == [open |-> TRUE, first |-> IF p.cur.open THEN p.cur.first ELSE op.seq,
                 last |-> op.seq, size |-> p.cur.size + 1,
                 drew |-> p.cur.drew \/ op.kind \in DrawKinds]
<1>1. q = [p EXCEPT !.cur = c]
  BY DEF Planned, PlanStates
<1>2. c \in OpenPasses
  <2>1. p.cur \in OpenPasses
    BY DEF PlanStates
  <2> QED
    BY <2>1 DEF OpenPasses
<1>3. /\ c.open /\ c.last = op.seq /\ c.size = p.cur.size + 1
      /\ c.first = IF p.cur.open THEN p.cur.first ELSE op.seq
      /\ c.drew <=> (p.cur.drew \/ op.kind \in DrawKinds)
  OBVIOUS
<1> HIDE DEF c, q
<1>4. /\ q \in PlanStates
      /\ q.passes = p.passes /\ q.inside = p.inside /\ q.outside = p.outside /\ q.cur = c
  BY <1>1, <1>2 DEF PlanStates
<1> QED
  BY <1>3, <1>4 DEF q

-----------------------------------------------------------------------------
(* Stretches of draws and scissors.                                        *)

Graphics(ops) == {i \in DOMAIN ops : ops[i].kind \notin {"barrier", "dispatch"}}

\* The stretches that end before the k-th operation, by their ends.
Ends(ops, k) == {i \in Graphics(ops) : i + 1 \notin Graphics(ops) /\ i < k}

\* A stretch cannot be continued to the left.
Stretch(ops, s, e) == s .. e \subseteq Graphics(ops) /\ s - 1 \notin Graphics(ops)

Drawn(ops, s, e) == \E i \in s .. e : ops[i].kind \in DrawKinds

PassOf(ops, s, e) ==
  [first |-> ops[s].seq, last |-> ops[e].seq, size |-> e - s + 1,
   load |-> IF Drawn(ops, s, e) THEN "load" ELSE "dontCare"]

\* The operations, as far as the planners look: the boundary comes last.
OpsShape(ops) ==
  LET n == Len(ops) IN
  /\ n \in Nat /\ DOMAIN ops = 1 .. n
  /\ \A k \in 1 .. n : ops[k].seq \in Nat
                       /\ ops[k].kind \in {"draw", "drawIndexed", "dispatch", "scissor", "barrier"}
  /\ \A k, l \in Graphics(ops) : k < l => ops[k].seq < ops[l].seq
  /\ n \notin Graphics(ops)

\* A plan of the first k operations.
PlanOf(p, ops, k) ==
  /\ p \in PlanStates
  /\ p.cur.open <=> k \in Graphics(ops)
  /\ p.cur.open => \E s \in 1 .. k :
       /\ Stretch(ops, s, k)
       /\ p.cur.first = ops[s].seq /\ p.cur.last = ops[k].seq /\ p.cur.size = k - s + 1
       /\ p.cur.drew <=> Drawn(ops, s, k)
  /\ ~p.cur.open => p.cur.size = 0 /\ ~p.cur.drew
  /\ Len(p.passes) = Cardinality(Ends(ops, k))
  /\ \A e \in Ends(ops, k) : \E s \in 1 .. e :
       Stretch(ops, s, e) /\ p.passes[Place(Ends(ops, k), e)] = PassOf(ops, s, e)
  /\ p.inside + p.cur.size + p.outside = k

\* Before the first operation.
LEMMA PlanStart ==
  ASSUME NEW ops, OpsShape(ops)
  PROVE  PlanOf(NoPlan, ops, 0)
<1>1. NoPlan \in PlanStates
  BY DEF NoPlan, PlanStates, NoPass, OpenPasses
<1>2. 0 \notin Graphics(ops)
  BY DEF OpsShape, Graphics
<1>3. Ends(ops, 0) = {}
  BY DEF Ends, OpsShape, Graphics
<1>4. Cardinality(Ends(ops, 0)) = 0
  BY <1>3, FS_EmptySet
<1>5. NoPlan.cur.open = FALSE /\ NoPlan.cur.size = 0 /\ NoPlan.cur.drew = FALSE
      /\ NoPlan.passes = <<>> /\ NoPlan.inside = 0 /\ NoPlan.outside = 0
  BY DEF NoPlan, NoPass
<1> QED
  BY <1>1, <1>2, <1>3, <1>4, <1>5 DEF PlanOf

\* A draw or a scissor continues the pass, or begins one.
LEMMA PlanInside ==
  ASSUME NEW ops, OpsShape(ops), NEW k \in 1 .. Len(ops), NEW p, PlanOf(p, ops, k - 1),
         k \in Graphics(ops)
  PROVE  PlanOf(Planned(p, ops[k]), ops, k)
<1> DEFINE q == Planned(p, ops[k])
           G == Graphics(ops)
           m == k - 1
<1>1. k \in Nat /\ m \in Nat /\ G \subseteq 1 .. Len(ops) /\ ops[k].seq \in Nat /\ Len(ops) \in Nat
  BY DEF OpsShape, Graphics
<1>2. ops[k].kind \notin {"barrier", "dispatch"}
  BY DEF Graphics
<1>3. p \in PlanStates /\ PlanOf(p, ops, m)
  BY DEF PlanOf
<1>4. /\ q \in PlanStates
      /\ q.passes = p.passes /\ q.inside = p.inside /\ q.outside = p.outside
      /\ q.cur.open /\ q.cur.last = ops[k].seq /\ q.cur.size = p.cur.size + 1
      /\ q.cur.first = IF p.cur.open THEN p.cur.first ELSE ops[k].seq
      /\ q.cur.drew <=> (p.cur.drew \/ ops[k].kind \in DrawKinds)
  BY <1>1, <1>2, <1>3, PlannedInside
<1>5. Ends(ops, k) = Ends(ops, m)
  <2>1. m + 1 \in G /\ m + 1 = k
    BY <1>1
  <2>2. \A i \in G : i + 1 \notin G /\ i < k => i < m
    BY <1>1
  <2> QED
    BY <1>1, <2>2 DEF Ends
<1> HIDE DEF q
<1>6. \E s \in 1 .. k :
       /\ Stretch(ops, s, k)
       /\ q.cur.first = ops[s].seq /\ q.cur.last = ops[k].seq /\ q.cur.size = k - s + 1
       /\ q.cur.drew <=> Drawn(ops, s, k)
  <2>1. CASE p.cur.open
    <3>1. PICK s \in 1 .. m :
            /\ Stretch(ops, s, m)
            /\ p.cur.first = ops[s].seq /\ p.cur.last = ops[m].seq /\ p.cur.size = m - s + 1
            /\ p.cur.drew <=> Drawn(ops, s, m)
      BY <1>3, <2>1 DEF PlanOf
    <3>2. s \in 1 .. k /\ s .. k = (s .. m) \cup {k}
      BY <1>1
    <3>3. Stretch(ops, s, k)
      BY <3>1, <3>2 DEF Stretch
    <3>4. Drawn(ops, s, k) <=> Drawn(ops, s, m) \/ ops[k].kind \in DrawKinds
      BY <3>2 DEF Drawn
    <3>5. q.cur.first = ops[s].seq
      BY <1>4, <2>1, <3>1
    <3>6. q.cur.size = k - s + 1
      BY <1>1, <1>4, <3>1
    <3>7. q.cur.drew <=> Drawn(ops, s, k)
      BY <1>4, <3>1, <3>4
    <3> QED
      BY <1>4, <3>2, <3>3, <3>5, <3>6, <3>7
  <2>2. CASE ~p.cur.open
    <3>1. p.cur.size = 0 /\ ~p.cur.drew /\ m \notin G
      BY <1>3, <2>2 DEF PlanOf
    <3>2. k .. k = {k} /\ k \in 1 .. k
      BY <1>1
    <3>3. Stretch(ops, k, k)
      BY <3>1, <3>2 DEF Stretch
    <3>4. Drawn(ops, k, k) <=> ops[k].kind \in DrawKinds
      BY <3>2 DEF Drawn
    <3>5. q.cur.size = k - k + 1
      BY <1>1, <1>4, <3>1
    <3>6. q.cur.drew <=> Drawn(ops, k, k)
      BY <1>4, <3>1, <3>4
    <3> QED
      BY <1>4, <2>2, <3>2, <3>3, <3>5, <3>6
  <2> QED
    BY <2>1, <2>2
<1>7. q.inside + q.cur.size + q.outside = k
  <2>1. p.inside + p.cur.size + p.outside = m
    BY <1>3 DEF PlanOf
  <2>2. p.inside \in Nat /\ p.cur.size \in Nat /\ p.outside \in Nat
    BY <1>3 DEF PlanStates, OpenPasses
  <2>3. q.inside = p.inside /\ q.outside = p.outside /\ q.cur.size = p.cur.size + 1
    BY <1>4
  <2>4. k \in Nat /\ m + 1 = k
    BY <1>1
  <2> HIDE DEF m
  <2> QED
    BY <2>1, <2>2, <2>3, <2>4
<1>8. /\ Len(q.passes) = Cardinality(Ends(ops, k))
      /\ \A e \in Ends(ops, k) : \E s \in 1 .. e :
           Stretch(ops, s, e) /\ q.passes[Place(Ends(ops, k), e)] = PassOf(ops, s, e)
  BY <1>3, <1>4, <1>5 DEF PlanOf
<1>9. PlanOf(q, ops, k)
  BY <1>4, <1>6, <1>7, <1>8 DEF PlanOf
<1> QED
  BY <1>9 DEF q

\* What a sequence is after an Append.
LEMMA Appended ==
  ASSUME NEW P, NEW s \in Seq(P), NEW x
  PROVE  /\ Len(Append(s, x)) = Len(s) + 1
         /\ \A k \in 1 .. Len(s) : Append(s, x)[k] = s[k]
         /\ Append(s, x)[Len(s) + 1] = x
  OBVIOUS

\* A dispatch or the boundary ends the pass.
LEMMA PlanOutside ==
  ASSUME NEW ops, OpsShape(ops), NEW k \in 1 .. Len(ops), NEW p, PlanOf(p, ops, k - 1),
         k \notin Graphics(ops)
  PROVE  PlanOf(Planned(p, ops[k]), ops, k)
<1> DEFINE q == Planned(p, ops[k])
           G == Graphics(ops)
           m == k - 1
           A == Ends(ops, m)
           B == Ends(ops, k)
<1>1. k \in Nat /\ m \in Nat /\ m + 1 = k /\ G \subseteq 1 .. Len(ops) /\ Len(ops) \in Nat
  BY DEF OpsShape, Graphics
<1>2. ops[k].kind \in {"barrier", "dispatch"}
  BY DEF Graphics, OpsShape
<1>3. p \in PlanStates /\ PlanOf(p, ops, m)
  BY DEF PlanOf
<1>4. /\ q \in PlanStates /\ q.outside = p.outside + 1
      /\ p.cur.open => /\ q.passes = Append(p.passes, PassFrom(p.cur))
                       /\ q.inside = p.inside + p.cur.size /\ q.cur = NoPass
      /\ ~p.cur.open => q.passes = p.passes /\ q.inside = p.inside /\ q.cur = p.cur
  BY <1>2, <1>3, PlannedOutside
<1>5. /\ p.cur.open <=> m \in G
      /\ ~p.cur.open => p.cur.size = 0 /\ ~p.cur.drew
      /\ Len(p.passes) = Cardinality(A)
      /\ \A e \in A : \E s \in 1 .. e :
           Stretch(ops, s, e) /\ p.passes[Place(A, e)] = PassOf(ops, s, e)
      /\ p.inside + p.cur.size + p.outside = m
      /\ p.inside \in Nat /\ p.cur.size \in Nat /\ p.outside \in Nat
      /\ p.passes \in Seq(PassRecs)
  BY <1>3 DEF PlanOf, PlanStates, OpenPasses
<1> HIDE DEF q
<1>6. CASE p.cur.open
  <2>1. B = A \cup {m} /\ m \notin A
    BY <1>1, <1>5, <1>6 DEF Ends
  <2>2. A \in SUBSET (1 .. Len(ops)) /\ B \in SUBSET (1 .. Len(ops)) /\ \A e \in A : e < m
    BY <1>1 DEF Ends
  <2>3. PICK s \in 1 .. m :
            /\ Stretch(ops, s, m)
            /\ p.cur.first = ops[s].seq /\ p.cur.last = ops[m].seq /\ p.cur.size = m - s + 1
            /\ p.cur.drew <=> Drawn(ops, s, m)
    BY <1>3, <1>6 DEF PlanOf
  <2>4. PassFrom(p.cur) = PassOf(ops, s, m)
    BY <2>3 DEF PassFrom, PassOf
  <2>5. q.cur.open = FALSE /\ q.cur.size = 0 /\ q.cur.drew = FALSE
    BY <1>4, <1>6 DEF NoPass
  <2>6. /\ IsFiniteSet(A) /\ Cardinality(A) \in Nat
        /\ \A e \in A : Place(A, e) \in 1 .. Cardinality(A)
    BY <1>1, <2>2, Places
  <2> HIDE DEF A, B, G
  <2>7. Cardinality(B) = Cardinality(A) + 1
    BY <2>1, <2>6, FS_AddElement
  <2>8. Place(B, m) = Cardinality(B)
    <3>1. ASSUME NEW j \in B PROVE j <= m
      <4>1. CASE j = m
        BY <1>1, <4>1
      <4>2. CASE j \in A
        <5>1. j \in Nat /\ j < m
          BY <1>1, <2>2, <4>2
        <5> QED
          BY <1>1, <5>1
      <4> QED
        BY <2>1, <4>1, <4>2
    <3> QED
      BY <3>1 DEF Place
  <2>9. \A e \in A : Place(B, e) = Place(A, e)
    <3> TAKE e \in A
    <3>1. e \in 1 .. Len(ops) /\ e < m
      BY <2>2
    <3>2. {j \in B : j <= e} = {j \in A : j <= e}
      BY <1>1, <2>1, <3>1
    <3> QED
      BY <3>2 DEF Place
  <2>10. /\ Len(q.passes) = Cardinality(A) + 1
         /\ \A x \in 1 .. Cardinality(A) : q.passes[x] = p.passes[x]
         /\ q.passes[Cardinality(A) + 1] = PassOf(ops, s, m)
    <3> DEFINE old  == p.passes
               last == PassFrom(p.cur)
    <3>1. q.passes = Append(old, last) /\ old \in Seq(PassRecs) /\ Len(old) = Cardinality(A)
      BY <1>4, <1>5, <1>6
    <3> HIDE DEF old, last
    <3>2. /\ Len(Append(old, last)) = Len(old) + 1
          /\ \A x \in 1 .. Len(old) : Append(old, last)[x] = old[x]
          /\ Append(old, last)[Len(old) + 1] = last
      BY <3>1, Appended
    <3>3. last = PassOf(ops, s, m)
      BY <2>4 DEF last
    <3> QED
      BY <3>1, <3>2, <3>3 DEF old
  <2>11. ASSUME NEW e \in B
         PROVE  \E t \in 1 .. e : Stretch(ops, t, e) /\ q.passes[Place(B, e)] = PassOf(ops, t, e)
    <3>1. CASE e = m
      BY <2>3, <2>7, <2>8, <2>10, <3>1
    <3>2. CASE e \in A
      <4>1. PICK t \in 1 .. e : Stretch(ops, t, e) /\ p.passes[Place(A, e)] = PassOf(ops, t, e)
        BY <1>5, <3>2
      <4>2. Place(A, e) \in 1 .. Cardinality(A) /\ Place(B, e) = Place(A, e)
        BY <2>6, <2>9, <3>2
      <4>3. q.passes[Place(A, e)] = p.passes[Place(A, e)]
        BY <2>10, <4>2
      <4> QED
        BY <4>1, <4>2, <4>3
    <3> QED
      BY <2>1, <3>1, <3>2
  <2>12. q.inside + q.cur.size + q.outside = k
    <3>1. /\ q.inside = p.inside + p.cur.size /\ q.outside = p.outside + 1
          /\ p.inside + p.cur.size + p.outside = m
          /\ p.inside \in Nat /\ p.cur.size \in Nat /\ p.outside \in Nat
      BY <1>4, <1>5, <1>6
    <3>2. q.cur.size = 0
      BY <2>5
    <3>3. m \in Nat /\ m + 1 = k
      BY <1>1
    <3> HIDE DEF m
    <3> QED
      BY <3>1, <3>2, <3>3
  <2>13. PlanOf(q, ops, k)
    BY <1>4, <2>5, <2>7, <2>10, <2>11, <2>12 DEF PlanOf, B
  <2> QED
    BY <2>13 DEF q
<1>7. CASE ~p.cur.open
  <2>1. B = A
    BY <1>1, <1>5, <1>7 DEF Ends
  <2>2. ~q.cur.open /\ q.cur.size = 0 /\ ~q.cur.drew
    BY <1>4, <1>5, <1>7
  <2>3. q.inside + q.cur.size + q.outside = k
    <3>1. q.inside = p.inside /\ q.outside = p.outside + 1 /\ q.cur.size = 0 /\ p.cur.size = 0
      BY <1>4, <1>5, <1>7, <2>2
    <3>2. p.inside + 0 + p.outside = m /\ p.inside \in Nat /\ p.outside \in Nat
      BY <1>5, <3>1
    <3> QED
      BY <1>1, <3>1, <3>2
  <2>4. /\ Len(q.passes) = Cardinality(B)
        /\ \A e \in B : \E s \in 1 .. e :
             Stretch(ops, s, e) /\ q.passes[Place(B, e)] = PassOf(ops, s, e)
    BY <1>4, <1>5, <1>7, <2>1
  <2>5. PlanOf(q, ops, k)
    BY <1>4, <2>2, <2>3, <2>4 DEF PlanOf
  <2> QED
    BY <2>5 DEF q
<1> QED
  BY <1>6, <1>7

\* The fold over the operations, as a function of the part that has been planned.
Planning(f, ops) ==
  f = [Y \in SUBSET DOMAIN ops |->
         IF Y = {} THEN NoPlan ELSE Planned(f[Y \ {Max(Y)}], ops[Max(Y)])]

\* FoldLeft chooses such a function.
LEMMA PlanningIs ==
  ASSUME NEW ops
  PROVE  FoldLeft(Planned, NoPlan, ops) = (CHOOSE f : Planning(f, ops))[DOMAIN ops]
BY DEF FoldLeft, MapThenFoldSet, Planning

\* There is one.
LEMMA PlanningExists ==
  ASSUME NEW ops, OpsShape(ops)
  PROVE  \E f : Planning(f, ops)
<1> DEFINE n == Len(ops)
           step == [i \in 1 .. n |-> [x \in PlanStates |-> Planned(x, ops[i])]]
<1>1. n \in Nat /\ DOMAIN ops = 1 .. n
      /\ \A i \in 1 .. n :
           ops[i].seq \in Nat
           /\ ops[i].kind \in {"draw", "drawIndexed", "dispatch", "scissor", "barrier"}
  BY DEF OpsShape
<1>2. step \in [1 .. n -> [PlanStates -> PlanStates]]
  <2>1. ASSUME NEW i \in 1 .. n, NEW x \in PlanStates PROVE Planned(x, ops[i]) \in PlanStates
    <3>1. CASE ops[i].kind \in {"barrier", "dispatch"}
      BY <3>1, PlannedOutside
    <3>2. CASE ops[i].kind \notin {"barrier", "dispatch"}
      BY <1>1, <3>2, PlannedInside
    <3> QED
      BY <3>1, <3>2
  <2> QED
    BY <2>1
<1>3. \A i \in 1 .. n : \A x \in PlanStates : step[i][x] = Planned(x, ops[i])
  OBVIOUS
<1>0. NoPlan \in PlanStates
  BY DEF NoPlan, PlanStates, NoPass, OpenPasses
<1> HIDE DEF step, n
<1>4. PICK f : Folding(f, PlanStates, n, NoPlan, step)
  BY <1>0, <1>1, <1>2, FoldingExists
<1>5. ASSUME NEW Y \in SUBSET (1 .. n), Y # {}
      PROVE  f[Y] = Planned(f[Y \ {Max(Y)}], ops[Max(Y)])
  <2>1. Max(Y) \in Y
    BY <1>1, <1>5, GreatestExists
  <2>2. f[Y \ {Max(Y)}] \in PlanStates
    BY <1>4 DEF Folding
  <2>3. f[Y] = step[Max(Y)][f[Y \ {Max(Y)}]]
    BY <1>4, <1>5 DEF Folding
  <2> QED
    BY <1>3, <2>1, <2>2, <2>3
<1>6. f[{}] = NoPlan
  BY <1>4 DEF Folding
<1>7. f = [Y \in SUBSET (1 .. n) |-> f[Y]]
  BY <1>4 DEF Folding
<1> DEFINE F == [Y \in SUBSET DOMAIN ops |->
                   IF Y = {} THEN NoPlan ELSE Planned(f[Y \ {Max(Y)}], ops[Max(Y)])]
<1>8. \A Y \in SUBSET (1 .. n) : f[Y] = F[Y]
  BY <1>1, <1>5, <1>6
<1>9. f = F
  <2>1. F = [Y \in SUBSET (1 .. n) |-> F[Y]]
    BY <1>1
  <2> HIDE DEF F
  <2> QED
    BY <1>7, <1>8, <2>1
<1> QED
  BY <1>9 DEF Planning

\* The plan of all operations; the boundary has closed the last pass.
LEMMA PlanIs ==
  ASSUME NEW ops, OpsShape(ops)
  PROVE  PlanOf(PlanRenderPasses(ops), ops, Len(ops)) /\ ~PlanRenderPasses(ops).cur.open
<1> DEFINE n == Len(ops)
           f == CHOOSE x : Planning(x, ops)
           Bad == {k \in 0 .. n : ~PlanOf(f[1 .. k], ops, k)}
<1>1. Planning(f, ops)
  BY PlanningExists
<1>2. n \in Nat /\ DOMAIN ops = 1 .. n /\ n \notin Graphics(ops)
  BY DEF OpsShape
<1> HIDE DEF f
<1>3. Bad = {}
  <2> SUFFICES ASSUME Bad # {}
               PROVE  FALSE
    OBVIOUS
  <2>1. Bad \in SUBSET Nat
    OBVIOUS
  <2>2. PICK k \in Bad : \A m \in Bad : k <= m
    <3> HIDE DEF Bad
    <3> QED
      BY <2>1, LeastNumber
  <2>3. CASE k = 0
    <3>1. 1 .. k = {} /\ {} \in SUBSET DOMAIN ops
      BY <2>3
    <3>2. f[{}] = NoPlan
      BY <1>1, <3>1 DEF Planning
    <3> QED
      BY <2>2, <2>3, <3>1, <3>2, PlanStart
  <2>4. CASE k # 0
    <3> DEFINE m == k - 1
    <3>1. k \in 1 .. n /\ m \in 0 .. n /\ m \notin Bad
      BY <2>2, <2>4
    <3>2. PlanOf(f[1 .. m], ops, m)
      BY <3>1
    <3>3. 1 .. k \in SUBSET DOMAIN ops /\ k \in 1 .. k /\ k \in Nat \ {0} /\ (1 .. k) \ {k} = 1 .. m
      BY <1>2, <3>1
    <3>4. Max(1 .. k) = k
      BY <3>3, GreatestIs
    <3>5. f[1 .. k] = Planned(f[1 .. m], ops[k])
      BY <1>1, <3>3, <3>4 DEF Planning
    <3> DEFINE p == f[1 .. m]
    <3>6. PlanOf(p, ops, k - 1) /\ k \in 1 .. Len(ops)
      BY <3>1, <3>2
    <3> HIDE DEF p, m
    <3>7. PlanOf(Planned(p, ops[k]), ops, k)
      BY <3>6, PlanInside, PlanOutside
    <3> QED
      BY <2>2, <3>5, <3>7 DEF p
  <2> QED
    BY <2>3, <2>4
<1>4. PlanOf(f[1 .. n], ops, n)
  BY <1>2, <1>3
<1>5. FoldLeft(Planned, NoPlan, ops) = f[1 .. n]
  BY <1>2, PlanningIs DEF f
<1>6. f[1 .. n] \in PlanStates /\ ~f[1 .. n].cur.open
  BY <1>2, <1>4 DEF PlanOf
<1>7. PlanRenderPasses(ops) = Closed(f[1 .. n])
  BY <1>5 DEF PlanRenderPasses, NoPlan
<1>8. PlanRenderPasses(ops) = f[1 .. n]
  BY <1>6, <1>7, ClosedIs
<1> QED
  BY <1>4, <1>6, <1>8

-----------------------------------------------------------------------------
(* The passes are the regions.                                             *)

Regions(ops) ==
  {r \in Graphics(ops) \X Graphics(ops) :
     /\ r[1] .. r[2] \subseteq Graphics(ops) /\ r[1] <= r[2]
     /\ r[1] - 1 \notin Graphics(ops) /\ r[2] + 1 \notin Graphics(ops)}

\* A region is a stretch and its end.
LEMMA RegionsAre ==
  ASSUME NEW ops, OpsShape(ops), NEW p, PlanOf(p, ops, Len(ops))
  PROVE  LET E == Ends(ops, Len(ops)) IN
         /\ \A r \in Regions(ops) : /\ r[1] \in Nat /\ r[2] \in E /\ r[1] \in 1 .. r[2]
                                    /\ Stretch(ops, r[1], r[2]) /\ r = <<r[1], r[2]>>
         /\ \A e \in E : \A s \in 1 .. e : Stretch(ops, s, e) => <<s, e>> \in Regions(ops)
         /\ \A e \in E : \A s, t \in 1 .. e : Stretch(ops, s, e) /\ Stretch(ops, t, e) => s = t
         /\ \A d, e \in E : \A s \in 1 .. e : d < e /\ Stretch(ops, s, e) => d < s
<1> DEFINE G == Graphics(ops)
           n == Len(ops)
           E == Ends(ops, n)
<1>1. n \in Nat /\ G \subseteq 1 .. n /\ n \notin G /\ \A e \in G : e \in Nat /\ e < n
  BY DEF OpsShape, Graphics
<1>2. \A e : e \in E <=> e \in G /\ e + 1 \notin G
  BY <1>1 DEF Ends
<1> HIDE DEF G, E
<1>3. ASSUME NEW r \in Regions(ops)
      PROVE  /\ r[1] \in Nat /\ r[2] \in E /\ r[1] \in 1 .. r[2]
             /\ Stretch(ops, r[1], r[2]) /\ r = <<r[1], r[2]>>
  <2>1. /\ r \in G \X G /\ r[1] .. r[2] \subseteq G /\ r[1] <= r[2]
        /\ r[1] - 1 \notin G /\ r[2] + 1 \notin G
    BY DEF Regions, G
  <2>2. r[1] \in G /\ r[2] \in G /\ r = <<r[1], r[2]>>
    BY <2>1
  <2>3. r[1] \in 1 .. r[2]
    <3>1. r[1] \in 1 .. n /\ r[2] \in 1 .. n
      BY <1>1, <2>2
    <3> HIDE DEF n
    <3> QED
      BY <1>1, <2>1, <3>1
  <2> QED
    BY <1>1, <1>2, <2>1, <2>2, <2>3 DEF Stretch, G
<1>4. ASSUME NEW e \in E, NEW s \in 1 .. e, Stretch(ops, s, e) PROVE <<s, e>> \in Regions(ops)
  <2>1. e \in Nat /\ e \in G /\ e + 1 \notin G
    BY <1>1, <1>2
  <2>2. s .. e \subseteq G /\ s - 1 \notin G /\ s \in s .. e /\ s <= e
    BY <1>4, <2>1 DEF Stretch, G
  <2> QED
    BY <2>1, <2>2 DEF Regions, G
<1>5. ASSUME NEW e \in E, NEW s \in 1 .. e, NEW t \in 1 .. e, Stretch(ops, s, e), Stretch(ops, t, e)
      PROVE  s = t
  <2>0. e \in Nat
    BY <1>1, <1>2
  <2>1. s .. e \subseteq G /\ s - 1 \notin G /\ t .. e \subseteq G /\ t - 1 \notin G
    BY <1>5 DEF Stretch, G
  <2>2. ~(s < t)
    <3>1. s < t => t - 1 \in s .. e
      BY <2>0
    <3> QED
      BY <2>1, <3>1
  <2>3. ~(t < s)
    <3>1. t < s => s - 1 \in t .. e
      BY <2>0
    <3> QED
      BY <2>1, <3>1
  <2> QED
    BY <2>0, <2>2, <2>3
<1>6. ASSUME NEW d \in E, NEW e \in E, NEW s \in 1 .. e, d < e, Stretch(ops, s, e)
      PROVE  d < s
  <2>0. e \in Nat /\ d \in Nat /\ d + 1 \notin G
    BY <1>1, <1>2
  <2>1. s .. e \subseteq G
    BY <1>6 DEF Stretch, G
  <2>2. s <= d => d + 1 \in s .. e
    BY <1>6, <2>0
  <2> QED
    BY <2>0, <2>1, <2>2
<1>7. /\ \A r \in Regions(ops) : /\ r[1] \in Nat /\ r[2] \in E /\ r[1] \in 1 .. r[2]
                                 /\ Stretch(ops, r[1], r[2]) /\ r = <<r[1], r[2]>>
      /\ \A e \in E : \A s \in 1 .. e : Stretch(ops, s, e) => <<s, e>> \in Regions(ops)
      /\ \A e \in E : \A s, t \in 1 .. e : Stretch(ops, s, e) /\ Stretch(ops, t, e) => s = t
      /\ \A d, e \in E : \A s \in 1 .. e : d < e /\ Stretch(ops, s, e) => d < s
  BY <1>3, <1>4, <1>5, <1>6
<1> QED
  BY <1>7 DEF E

\* The passes of a plan, as a set, and the passes that the regions stand for.
PassesOf(p) == {p.passes[k] : k \in DOMAIN p.passes}

RegionPasses(ops) == {PassOf(ops, r[1], r[2]) : r \in Regions(ops)}

\* Every region is a pass, in order, and there is no other.
LEMMA PassesFollow ==
  ASSUME NEW ops, OpsShape(ops), NEW p, PlanOf(p, ops, Len(ops))
  PROVE  /\ PassesOf(p) = RegionPasses(ops)
         /\ Len(p.passes) = Cardinality(Regions(ops))
         /\ \A k \in 2 .. Len(p.passes) : p.passes[k - 1].last < p.passes[k].first
<1> DEFINE n == Len(ops)
           E == Ends(ops, n)
           G == Graphics(ops)
           R == Regions(ops)
           m == Cardinality(E)
<1>1. n \in Nat /\ G \subseteq 1 .. n /\ E \in SUBSET (1 .. n) /\ E \subseteq G
      /\ \A k, l \in G : k < l => ops[k].seq < ops[l].seq
  BY DEF OpsShape, Graphics, Ends
<1>2. /\ Len(p.passes) = m /\ p.passes \in Seq(PassRecs)
      /\ \A e \in E : \E s \in 1 .. e :
           Stretch(ops, s, e) /\ p.passes[Place(E, e)] = PassOf(ops, s, e)
  BY DEF PlanOf, PlanStates
<1>3. /\ \A r \in R : /\ r[1] \in Nat /\ r[2] \in E /\ r[1] \in 1 .. r[2]
                      /\ Stretch(ops, r[1], r[2]) /\ r = <<r[1], r[2]>>
      /\ \A e \in E : \A s \in 1 .. e : Stretch(ops, s, e) => <<s, e>> \in R
      /\ \A e \in E : \A s, t \in 1 .. e : Stretch(ops, s, e) /\ Stretch(ops, t, e) => s = t
      /\ \A d, e \in E : \A s \in 1 .. e : d < e /\ Stretch(ops, s, e) => d < s
  BY RegionsAre
<1>4. \A e \in E : \A s \in 1 .. e : Stretch(ops, s, e) => s \in G
  <2>1. \A e \in E : \A s \in 1 .. e : s \in s .. e
    BY <1>1
  <2> QED
    BY <2>1 DEF Stretch
<1> HIDE DEF E, G, R, n
<1>5. /\ IsFiniteSet(E) /\ m \in Nat
      /\ \A e \in E : Place(E, e) \in 1 .. m
      /\ \A i, j \in E : i < j => Place(E, i) < Place(E, j)
      /\ \A k \in 1 .. m : \E e \in E : Place(E, e) = k
  BY <1>1, Places
<1>6. DOMAIN p.passes = 1 .. m
  BY <1>2
<1> HIDE DEF m
<1>7. ASSUME NEW k \in 1 .. m
      PROVE  \E e \in E : \E s \in 1 .. e :
               /\ Place(E, e) = k /\ Stretch(ops, s, e) /\ <<s, e>> \in R
               /\ p.passes[k] = PassOf(ops, s, e)
  <2>1. PICK e \in E : Place(E, e) = k
    BY <1>5
  <2>2. PICK s \in 1 .. e : Stretch(ops, s, e) /\ p.passes[Place(E, e)] = PassOf(ops, s, e)
    BY <1>2
  <2> QED
    BY <1>3, <2>1, <2>2
<1>8. {p.passes[k] : k \in DOMAIN p.passes} = {PassOf(ops, r[1], r[2]) : r \in R}
  <2>1. ASSUME NEW k \in 1 .. m PROVE \E r \in R : p.passes[k] = PassOf(ops, r[1], r[2])
    <3>1. PICK e \in E : \E s \in 1 .. e : <<s, e>> \in R /\ p.passes[k] = PassOf(ops, s, e)
      BY <1>7
    <3>2. PICK s \in 1 .. e : <<s, e>> \in R /\ p.passes[k] = PassOf(ops, s, e)
      BY <3>1
    <3>3. <<s, e>>[1] = s /\ <<s, e>>[2] = e
      OBVIOUS
    <3> QED
      BY <3>2, <3>3
  <2>2. ASSUME NEW r \in R PROVE \E k \in 1 .. m : p.passes[k] = PassOf(ops, r[1], r[2])
    <3>1. r[2] \in E /\ r[1] \in 1 .. r[2] /\ Stretch(ops, r[1], r[2])
      BY <1>3
    <3>2. PICK s \in 1 .. r[2] : /\ Stretch(ops, s, r[2])
                                 /\ p.passes[Place(E, r[2])] = PassOf(ops, s, r[2])
      BY <1>2, <3>1
    <3>3. s = r[1]
      BY <1>3, <3>1, <3>2
    <3> QED
      BY <1>5, <3>1, <3>2, <3>3
  <2>3. ASSUME NEW x \in {p.passes[k] : k \in DOMAIN p.passes}
        PROVE  x \in {PassOf(ops, r[1], r[2]) : r \in R}
    BY <1>6, <2>1
  <2>4. ASSUME NEW x \in {PassOf(ops, r[1], r[2]) : r \in R}
        PROVE  x \in {p.passes[k] : k \in DOMAIN p.passes}
    BY <1>6, <2>2
  <2> QED
    BY <2>3, <2>4
<1>9. Cardinality(R) = m
  <2> DEFINE f == [r \in R |-> r[2]]
  <2>1. f \in [R -> E]
    BY <1>3
  <2>2. \A a, b \in R : f[a] = f[b] => a = b
    <3> SUFFICES ASSUME NEW a \in R, NEW b \in R, a[2] = b[2]
                 PROVE  a = b
      OBVIOUS
    <3>1. a[1] = b[1]
      BY <1>3
    <3>2. a = <<a[1], a[2]>> /\ b = <<b[1], b[2]>>
      BY <1>3
    <3> QED
      BY <3>1, <3>2
  <2>3. \A e \in E : \E r \in R : f[r] = e
    <3> TAKE e \in E
    <3>1. PICK s \in 1 .. e : Stretch(ops, s, e)
      BY <1>2
    <3>2. <<s, e>> \in R
      BY <1>3, <3>1
    <3>3. f[<<s, e>>] = e
      BY <3>2
    <3> HIDE DEF f
    <3> QED
      BY <3>2, <3>3
  <2> HIDE DEF f
  <2>4. f \in Injection(R, E)
    BY <2>1, <2>2 DEF Injection, IsInjective
  <2>5. f \in Surjection(R, E)
    BY <2>1, <2>3 DEF Surjection
  <2>6. Cardinality(R) = Cardinality(E)
    BY <1>5, <2>4, <2>5, FS_Injection
  <2> QED
    BY <2>6 DEF m
<1>10. ASSUME NEW k \in 2 .. m PROVE p.passes[k - 1].last < p.passes[k].first
  <2>1. k \in 1 .. m /\ k - 1 \in 1 .. m /\ k \in Nat
    BY <1>5
  <2>2. PICK d \in E : \E s \in 1 .. d : /\ Place(E, d) = k - 1 /\ Stretch(ops, s, d)
                                         /\ p.passes[k - 1] = PassOf(ops, s, d)
    BY <1>7, <2>1
  <2>3. PICK e \in E : \E s \in 1 .. e : /\ Place(E, e) = k /\ Stretch(ops, s, e)
                                         /\ p.passes[k] = PassOf(ops, s, e)
    BY <1>7, <2>1
  <2>4. p.passes[k - 1].last = ops[d].seq
    BY <2>2 DEF PassOf
  <2>5. PICK s \in 1 .. e : Stretch(ops, s, e) /\ p.passes[k] = PassOf(ops, s, e)
    BY <2>3
  <2>6. p.passes[k].first = ops[s].seq
    BY <2>5 DEF PassOf
  <2>7. Place(E, d) = k - 1 /\ Place(E, e) = k
    BY <2>2, <2>3
  <2>8. d \in 1 .. n /\ e \in 1 .. n
    BY <1>1
  <2>9. d < e
    <3>1. d < e \/ d = e \/ e < d
      BY <2>8
    <3>2. d # e
      BY <2>1, <2>7
    <3>3. ~(e < d)
      BY <1>5, <2>1, <2>7
    <3> QED
      BY <3>1, <3>2, <3>3
  <2>10. d < s
    BY <1>3, <2>5, <2>9
  <2>11. s \in G /\ d \in G
    BY <1>1, <1>4, <2>5
  <2> QED
    BY <1>1, <2>4, <2>6, <2>10, <2>11
<1>11. PassesOf(p) = RegionPasses(ops)
  BY <1>8 DEF R, PassesOf, RegionPasses
<1>12. Len(p.passes) = Cardinality(Regions(ops))
  BY <1>2, <1>9 DEF R
<1>13. \A k \in 2 .. Len(p.passes) : p.passes[k - 1].last < p.passes[k].first
  BY <1>2, <1>10
<1> QED
  BY <1>11, <1>12, <1>13

\* Each operation is the boundary or waits for its command.
LEMMA CommandsFollow ==
  ASSUME NEW ops, OpsShape(ops)
  PROVE  PlanVulkanCommands(ops).boundaries + PlanVulkanCommands(ops).deferred = Len(ops)
<1> DEFINE n == Len(ops)
           kinds == [i \in 1 .. n |-> ops[i].kind]
<1>1. /\ n \in Nat /\ DOMAIN ops = 1 .. n
      /\ \A k \in 1 .. n : kinds[k] \in {"barrier"} \cup Deferred
  BY DEF OpsShape, Deferred, DrawKinds
<1>2. \A K : CountOf(ops, K) = Upto(kinds, n, K)
  <2> SUFFICES ASSUME NEW K PROVE CountOf(ops, K) = Upto(kinds, n, K)
    OBVIOUS
  <2>1. {i \in DOMAIN ops : ops[i].kind \in K} = {i \in 1 .. n : kinds[i] \in K}
    BY <1>1
  <2> QED
    BY <2>1 DEF CountOf, Upto
<1>3. PlanVulkanCommands(ops).boundaries = CountOf(ops, {"barrier"})
      /\ PlanVulkanCommands(ops).deferred = CountOf(ops, Deferred)
  BY DEF PlanVulkanCommands
<1>4. {"barrier"} \cap Deferred = {}
  BY DEF Deferred, DrawKinds
<1> HIDE DEF n, kinds
<1>5. Upto(kinds, n, {"barrier"} \cup Deferred) = Upto(kinds, n, {"barrier"}) + Upto(kinds, n, Deferred)
  BY <1>1, <1>4, UptoBoth
<1>6. Upto(kinds, n, {"barrier"} \cup Deferred) = n
  <2>1. {j \in 1 .. n : kinds[j] \in {"barrier"} \cup Deferred} = 1 .. n
    BY <1>1
  <2>2. Cardinality(1 .. n) = n
    BY <1>1, FS_Interval
  <2> QED
    BY <2>1, <2>2 DEF Upto
<1> QED
  BY <1>2, <1>3, <1>5, <1>6 DEF n

\* The lowering gives operations of this shape.
LEMMA ShapeFollows ==
  ASSUME NEW ops, NEW h \in Seq(Walkable), OpsAre(ops, h)
  PROVE  OpsShape(ops)
<1> DEFINE Y == Reach(h)
           m == Cardinality(Y)
           n == Len(ops)
           rec == RecordsAt(h)
<1>1. /\ m \in Nat /\ DOMAIN ops = 1 .. n /\ n = IF m = 0 THEN 0 ELSE m + 1
      /\ \A i \in Y : Place(Y, i) \in 1 .. m /\ ops[Place(Y, i)] = Lowered(rec[i])
      /\ \A i, j \in Y : i < j => Place(Y, i) < Place(Y, j)
      /\ \A k \in 1 .. m : \E i \in Y : k = Place(Y, i)
      /\ m # 0 => ops[m + 1] = [kind |-> "barrier", seq |-> ops[m].seq]
  BY DEF OpsAre
<1>2. /\ \A i \in Y : i \in 1 .. Len(h) /\ rec[i].seq \in Nat
      /\ \A i, j \in Y : i < j => rec[i].seq < rec[j].seq
  BY ReachNumbered
<1>3. \A i \in Y : /\ Lowered(rec[i]).seq = rec[i].seq
                   /\ Lowered(rec[i]).kind \in {"draw", "drawIndexed", "dispatch", "scissor"}
  BY RecordIsMeant
<1> HIDE DEF Y, m, n, rec
<1>4. ASSUME NEW k \in 1 .. m
      PROVE  \E i \in Y : /\ k = Place(Y, i) /\ ops[k].seq = rec[i].seq /\ ops[k].seq \in Nat
                          /\ ops[k].kind \in {"draw", "drawIndexed", "dispatch", "scissor"}
  <2>1. PICK i \in Y : k = Place(Y, i)
    BY <1>1
  <2> QED
    BY <1>1, <1>2, <1>3, <2>1
<1>5. ASSUME m # 0
      PROVE  ops[m + 1].kind = "barrier" /\ ops[m + 1].seq \in Nat
  <2>1. m \in 1 .. m
    BY <1>1, <1>5
  <2>2. ops[m].seq \in Nat
    BY <1>4, <2>1
  <2>3. ops[m + 1] = [kind |-> "barrier", seq |-> ops[m].seq]
    BY <1>1, <1>5
  <2> QED
    BY <2>2, <2>3
<1>6. \A k \in 1 .. n : k \in 1 .. m \/ (m # 0 /\ k = m + 1)
  BY <1>1
<1>7. \A k \in 1 .. n : ops[k].seq \in Nat
                       /\ ops[k].kind \in {"draw", "drawIndexed", "dispatch", "scissor", "barrier"}
  BY <1>4, <1>5, <1>6
<1>8. n \notin Graphics(ops)
  <2>1. CASE m = 0
    BY <1>1, <2>1 DEF Graphics
  <2>2. CASE m # 0
    <3>1. n = m + 1
      BY <1>1, <2>2
    <3> QED
      BY <1>5, <2>2, <3>1 DEF Graphics
  <2> QED
    BY <2>1, <2>2
<1>9. \A k \in Graphics(ops) : k \in 1 .. m
  BY <1>1, <1>5, <1>6 DEF Graphics
<1>10. ASSUME NEW k \in Graphics(ops), NEW l \in Graphics(ops), k < l
       PROVE  ops[k].seq < ops[l].seq
  <2>1. PICK i \in Y : k = Place(Y, i) /\ ops[k].seq = rec[i].seq
    BY <1>4, <1>9
  <2>2. PICK j \in Y : l = Place(Y, j) /\ ops[l].seq = rec[j].seq
    BY <1>4, <1>9
  <2>3. i \in 1 .. Len(h) /\ j \in 1 .. Len(h)
    BY <1>2
  <2>4. k \in 1 .. m /\ l \in 1 .. m
    BY <1>9
  <2>5. i < j
    <3>1. i < j \/ i = j \/ j < i
      BY <2>3
    <3>2. i # j
      BY <1>10, <2>1, <2>2, <2>4
    <3>3. ~(j < i)
      <4> SUFFICES ASSUME j < i PROVE FALSE
        OBVIOUS
      <4>1. l < k
        BY <1>1, <2>1, <2>2
      <4> QED
        BY <1>10, <2>4, <4>1
    <3> QED
      BY <3>1, <3>2, <3>3
  <2> QED
    BY <1>2, <2>1, <2>2, <2>5
<1>11. n \in Nat /\ DOMAIN ops = 1 .. n
  BY <1>1
<1> QED
  BY <1>7, <1>8, <1>10, <1>11 DEF OpsShape, n

\* The render passes are the longest stretches of draws and scissors between dispatches
\* and the boundary, in order, and each operation is planned once.
THEOREM EveryRegionIsAPass == StreamSpec => []PassesAreRegions
<1>1. StreamInv => PassesAreRegions
  <2> SUFFICES ASSUME StreamInv
               PROVE  PassesAreRegions
    OBVIOUS
  <2> DEFINE p == PlanRenderPasses(Ops)
             n == Len(Ops)
             G == {i \in DOMAIN Ops : Ops[i].kind \notin {"barrier", "dispatch"}}
             R == {r \in G \X G :
                     /\ r[1] .. r[2] \subseteq G /\ r[1] <= r[2]
                     /\ r[1] - 1 \notin G /\ r[2] + 1 \notin G}
  <2>1. Matches(gnm, history) /\ history \in Seq(Walkable)
    BY DEF StreamInv, Matches
  <2>2. Ops = LowerGnmStateToIR(gnm).ops
    BY DEF StreamInv, Evidence, Ops
  <2>3. evidence.regions = p /\ evidence.plan = PlanVulkanCommands(Ops)
    BY <2>2 DEF StreamInv, Evidence
  <2>4. OpsShape(Ops)
    BY <2>1, <2>2, OpsFollow, ShapeFollows
  <2>5. PlanOf(p, Ops, n) /\ ~p.cur.open
    BY <2>4, PlanIs
  <2>6. G = Graphics(Ops) /\ R = Regions(Ops)
    BY DEF Graphics, Regions
  <2> HIDE DEF p
  <2>7. /\ {p.passes[k] : k \in DOMAIN p.passes} = {PassOf(Ops, r[1], r[2]) : r \in R}
        /\ Len(p.passes) = Cardinality(R)
        /\ \A k \in 2 .. Len(p.passes) : p.passes[k - 1].last < p.passes[k].first
    <3> HIDE DEF G, R
    <3> DEFINE o == Ops
    <3>1. PlanOf(p, o, Len(o)) /\ OpsShape(o)
      BY <2>4, <2>5
    <3> HIDE DEF o
    <3>2. /\ PassesOf(p) = RegionPasses(o)
          /\ Len(p.passes) = Cardinality(Regions(o))
          /\ \A k \in 2 .. Len(p.passes) : p.passes[k - 1].last < p.passes[k].first
      BY <3>1, PassesFollow, Zenon
    <3>3. PassesOf(p) = {p.passes[k] : k \in DOMAIN p.passes}
      BY DEF PassesOf
    <3>4. RegionPasses(o) = {PassOf(Ops, r[1], r[2]) : r \in R}
      BY <2>6 DEF RegionPasses, o
    <3>5. Regions(o) = R
      BY <2>6 DEF o
    <3> QED
      BY <3>2, <3>3, <3>4, <3>5, Zenon
  <2>8. p.inside + p.outside = n
    BY <2>5 DEF PlanOf, PlanStates
  <2>9. evidence.plan.boundaries + evidence.plan.deferred = n
    BY <2>3, <2>4, CommandsFollow
  <2>10. {PassOf(Ops, r[1], r[2]) : r \in R}
         = {[first |-> Ops[r[1]].seq, last |-> Ops[r[2]].seq, size |-> r[2] - r[1] + 1,
             load |-> IF \E i \in r[1] .. r[2] : Ops[i].kind \in DrawKinds
                      THEN "load" ELSE "dontCare"] : r \in R}
    BY DEF PassOf, Drawn
  <2>11. PassesAreRegions <=>
          /\ {evidence.regions.passes[k] : k \in DOMAIN evidence.regions.passes}
             = {[first |-> Ops[r[1]].seq, last |-> Ops[r[2]].seq, size |-> r[2] - r[1] + 1,
                 load |-> IF \E i \in r[1] .. r[2] : Ops[i].kind \in DrawKinds
                          THEN "load" ELSE "dontCare"] : r \in R}
          /\ Len(evidence.regions.passes) = Cardinality(R)
          /\ \A k \in 2 .. Len(evidence.regions.passes) :
               evidence.regions.passes[k - 1].last < evidence.regions.passes[k].first
          /\ evidence.regions.inside + evidence.regions.outside = n
          /\ evidence.plan.boundaries + evidence.plan.deferred = n
    BY Zenon DEF PassesAreRegions
  <2> HIDE DEF G, R, n
  <2> QED
    BY <2>3, <2>7, <2>8, <2>9, <2>10, <2>11
<1> QED
  BY <1>1, StreamInvariance, PTL

=============================================================================
