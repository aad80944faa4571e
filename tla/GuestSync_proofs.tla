-------------------------- MODULE GuestSync_proofs --------------------------
(***************************************************************************)
(* GuestSync for every number of threads, mutexes, condition variables and *)
(* teardowns: mutual exclusion, no lost wake-up of a mutex, and one        *)
(* session of grace for the objects of guest code that outlives its own.   *)
(***************************************************************************)
EXTENDS GuestSync, TLAPS

\* A call has the objects its place needs; a result is only kept while the
\* thread takes its mutex back.
CallShape ==
  \A t \in Threads :
    /\ At(t, "idle") => call[t] = Idle
    /\ call[t].at \notin {"idle", "signal", "broadcast"} => call[t].mutex \in Mutexes
    /\ call[t].at \in {"wait", "gap", "waiting", "signal", "broadcast"} => call[t].cond \in Conds
    /\ call[t].ret # "none" => call[t].at \in {"lock", "blocked", "woken"}

\* Only a recursive mutex is held more than once.
DepthOne ==
  \A t \in Threads, m \in Mutexes : kind[m] # "recursive" => held[t][m] <= 1

\* Nobody has used an object that does not exist yet.
UnbornUnused ==
  \A m \in Mutexes : place[m] = "unborn" => count[m] = 0 /\ \A t \in Threads : held[t][m] = 0

\* How many teardowns an object has seen by its place.
Ages ==
  \A o \in Objects :
    /\ place[o] # "unborn" => born[o] <= session
    /\ place[o] = "grave" => born[o] + 1 <= session
    /\ place[o] = "gone" \/ o \in condemned => born[o] + 2 <= session /\ place[o] # "unborn"

\* Guest code never uses an object older than itself.
ErasMatch ==
  \A t \in Threads : \A o \in {call[t].mutex, call[t].cond} \ {None} :
    place[o] # "unborn" /\ era[t] <= born[o]

SyncInv == HeldIsOwned /\ NoLostUnlock /\ CallShape /\ DepthOne

AgeInv == UnbornUnused /\ Ages /\ ErasMatch

IInv == TypeOK /\ SyncInv /\ AgeInv

-----------------------------------------------------------------------------
(* Calls.                                                                  *)

\* The fields of a call.
LEMMA CallFields ==
  ASSUME NEW c \in CallRec
  PROVE  /\ c.at \in {"idle", "lock", "blocked", "woken", "unlock", "destroy",
                      "wait", "gap", "waiting", "signal", "broadcast"}
         /\ c.mutex \in Mutexes \cup {None}
         /\ c.cond \in Conds \cup {None}
         /\ c.ret \in {"none", "ok", "timedout"}
  BY DEF CallRec

\* The values a step gives to a call.
LEMMA CallValues ==
  ASSUME call \in [Threads -> CallRec], NEW t \in Threads
  PROVE  /\ Idle \in CallRec /\ Idle.at = "idle" /\ Idle.mutex = None
         /\ Idle.cond = None /\ Idle.ret = "none"
         /\ \A w \in {"blocked", "woken", "waiting", "gap"} :
              LET c == [call[t] EXCEPT !.at = w] IN
              /\ c \in CallRec /\ c.at = w
              /\ c.mutex = call[t].mutex /\ c.cond = call[t].cond /\ c.ret = call[t].ret
         /\ \A r \in {"ok", "timedout"} :
              /\ Resumed(t, r) \in CallRec /\ Resumed(t, r).at = "lock"
              /\ Resumed(t, r).mutex = call[t].mutex
              /\ Resumed(t, r).cond = None /\ Resumed(t, r).ret = r
  <1>1. call[t] \in CallRec
    OBVIOUS
  <1>2. Idle \in CallRec /\ Idle.at = "idle" /\ Idle.mutex = None
         /\ Idle.cond = None /\ Idle.ret = "none"
    BY DEF Idle, CallRec
  <1>3. ASSUME NEW w \in {"blocked", "woken", "waiting", "gap"}
        PROVE  LET c == [call[t] EXCEPT !.at = w] IN
               /\ c \in CallRec /\ c.at = w
               /\ c.mutex = call[t].mutex /\ c.cond = call[t].cond /\ c.ret = call[t].ret
    BY <1>1, <1>3 DEF CallRec
  <1>4. ASSUME NEW r \in {"ok", "timedout"}
        PROVE  /\ Resumed(t, r) \in CallRec /\ Resumed(t, r).at = "lock"
               /\ Resumed(t, r).mutex = call[t].mutex
               /\ Resumed(t, r).cond = None /\ Resumed(t, r).ret = r
    BY <1>1, <1>4 DEF CallRec, Resumed
  <1> QED
    BY <1>2, <1>3, <1>4

\* A notification of a mutex: the notifier's call becomes r, and a sleeper,
\* if there is one, is woken.
LEMMA NotifyEffect ==
  ASSUME call \in [Threads -> CallRec], NEW t \in Threads, NEW r \in CallRec,
         NEW m \in Mutexes, ~At(t, "blocked"),
         NotifyOne(ToNotify(m), [call EXCEPT ![t] = r])
  PROVE  /\ call' \in [Threads -> CallRec]
         /\ call'[t] = r
         /\ \A u \in Threads \ {t} :
              \/ call'[u] = call[u]
              \/ At(u, "blocked") /\ call'[u] = Woken(u)
         /\ ToNotify(m) # {} => \E w \in Blocked(m) \ {t} : call'[w] = Woken(w)
  <1> DEFINE calls == [call EXCEPT ![t] = r]
  <1>1. calls \in [Threads -> CallRec]
    OBVIOUS
  <1>2. ToNotify(m) \subseteq Blocked(m) /\ Blocked(m) \subseteq Threads \ {t}
    BY DEF ToNotify, Blocked
  <1>3. CASE ToNotify(m) = {}
    BY <1>1, <1>3 DEF NotifyOne
  <1>4. CASE ToNotify(m) # {}
    <2>1. PICK w \in ToNotify(m) : call' = [calls EXCEPT ![w] = Woken(w)]
      BY <1>2, <1>4 DEF NotifyOne, Awake, Blocked
    <2>2. w \in Blocked(m) /\ w \in Threads \ {t} /\ At(w, "blocked")
      BY <2>1, <1>2 DEF Blocked
    <2>3. Woken(w) \in CallRec
      BY <2>2, CallValues DEF Woken
    <2> QED
      BY <1>1, <2>1, <2>2, <2>3
  <1> QED
    BY <1>3, <1>4

-----------------------------------------------------------------------------
(* The steps of a call.                                                    *)

\* A step that leaves the objects alone and gives no call a new object keeps
\* the ages.
LEMMA AgesKept ==
  ASSUME IInv, UNCHANGED <<place, born, sessions>>,
         \A u \in Threads : /\ call'[u].mutex \in {call[u].mutex, None}
                            /\ call'[u].cond \in {call[u].cond, None}
  PROVE  Ages' /\ ErasMatch'
  BY DEF IInv, AgeInv, Ages, ErasMatch, sessions

\* LockStep keeps the invariant.
LEMMA LockKeeps ==
  ASSUME IInv, NEW t \in Threads, LockStep(t)
  PROVE  IInv'
  <1> DEFINE m == call[t].mutex
  <1>1. m \in Mutexes /\ t \in Threads /\ place[m] # "unborn"
    BY SyncConstants DEF IInv, SyncInv, AgeInv, CallShape, ErasMatch, LockStep, At, Objects
  <1>2. call \in [Threads -> CallRec] /\ owner \in [Mutexes -> Threads \cup {None}]
        /\ count \in [Mutexes -> Nat] /\ held \in [Threads -> [Mutexes -> Nat]]
    BY DEF IInv, TypeOK
  <1>3. UNCHANGED <<place, born, sessions, dead, kind>>
    BY DEF LockStep, objects, mutexes
  <1>4. CASE Goto(t, "blocked") /\ count[m] # 0 /\ owner[m] # t /\ UNCHANGED <<mutexes, held>>
    <2>1. call' \in [Threads -> CallRec] /\ call'[t].at = "blocked"
          /\ call'[t].mutex = m /\ call'[t].cond = call[t].cond /\ call'[t].ret = call[t].ret
          /\ \A u \in Threads \ {t} : call'[u] = call[u]
      BY <1>2, <1>4, CallValues DEF Goto
    <2>2. TypeOK'
      BY <1>3, <1>4, <2>1 DEF IInv, TypeOK, mutexes, sessions
    <2>3. HeldIsOwned'
      BY <1>4, <2>1 DEF IInv, SyncInv, HeldIsOwned, Parted, At, LockStep, mutexes
    <2>4. NoLostUnlock'
      BY <1>1, <1>4, <2>1 DEF IInv, SyncInv, NoLostUnlock, Blocked, At, LockStep, mutexes
    <2>5. CallShape'
      BY <1>1, <2>1 DEF IInv, SyncInv, CallShape, At
    <2>6. DepthOne' /\ UnbornUnused'
      BY <1>3, <1>4 DEF IInv, SyncInv, AgeInv, DepthOne, UnbornUnused, mutexes
    <2> QED
      BY <1>3, <2>1, <2>2, <2>3, <2>4, <2>5, <2>6, AgesKept DEF IInv, SyncInv, AgeInv
  <1>5. CASE Return(t) /\ count[m] # 0 /\ owner[m] = t /\ kind[m] # "recursive"
             /\ UNCHANGED <<mutexes, held>>
    <2>1. call' \in [Threads -> CallRec] /\ call'[t] = Idle
          /\ Idle.at = "idle" /\ Idle.mutex = None /\ Idle.cond = None /\ Idle.ret = "none"
          /\ \A u \in Threads \ {t} : call'[u] = call[u]
      BY <1>2, <1>5, CallValues DEF Return
    <2>2. TypeOK'
      BY <1>3, <1>5, <2>1 DEF IInv, TypeOK, mutexes, sessions
    <2>3. ~Parted(t, m)
      <3>1. held[t][m] <= 1 /\ held[t][m] = count[m] + (IF Parted(t, m) THEN 1 ELSE 0)
        BY <1>1, <1>5 DEF IInv, SyncInv, DepthOne, HeldIsOwned
      <3> QED
        BY <1>1, <1>2, <1>5, <3>1
    <2>4. \A x \in Mutexes : ~Parted(t, x)
      BY <2>3 DEF Parted
    <2>5. HeldIsOwned'
      BY <1>1, <1>5, <2>1, <2>4, SyncConstants DEF IInv, SyncInv, HeldIsOwned, Parted, At, mutexes
    <2>6. NoLostUnlock'
      BY <1>1, <1>5, <2>1 DEF IInv, SyncInv, NoLostUnlock, Blocked, At, mutexes
    <2>7. CallShape'
      BY <2>1 DEF IInv, SyncInv, CallShape, At
    <2>8. DepthOne' /\ UnbornUnused'
      BY <1>3, <1>5 DEF IInv, SyncInv, AgeInv, DepthOne, UnbornUnused, mutexes
    <2> QED
      BY <1>3, <2>1, <2>2, <2>5, <2>6, <2>7, <2>8, AgesKept DEF IInv, SyncInv, AgeInv
  <1>6. CASE /\ count[m] = 0 \/ (owner[m] = t /\ kind[m] = "recursive")
             /\ owner' = [owner EXCEPT ![m] = t]
             /\ count' = [count EXCEPT ![m] = @ + 1]
             /\ held' = IF call[t].ret # "none" THEN held ELSE [held EXCEPT ![t][m] = @ + 1]
             /\ Return(t)
    <2>1. call' \in [Threads -> CallRec] /\ call'[t] = Idle
          /\ Idle.at = "idle" /\ Idle.mutex = None /\ Idle.cond = None /\ Idle.ret = "none"
          /\ \A u \in Threads \ {t} : call'[u] = call[u]
      BY <1>2, <1>6, CallValues DEF Return
    <2>2. Parted(t, m) <=> call[t].ret # "none"
      BY DEF Parted, At, LockStep
    <2>3. owner' \in [Mutexes -> Threads \cup {None}] /\ count' \in [Mutexes -> Nat]
          /\ held' \in [Threads -> [Mutexes -> Nat]]
      BY <1>1, <1>2, <1>6
    <2>4. \A x \in Mutexes : count'[x] = 0 <=> owner'[x] = None
      BY <1>1, <1>2, <1>6, SyncConstants DEF IInv, TypeOK
    <2>5. TypeOK'
      BY <1>3, <2>1, <2>3, <2>4 DEF IInv, TypeOK, sessions
    <2>6. ASSUME NEW u \in Threads, NEW x \in Mutexes
          PROVE  held'[u][x] = (IF owner'[x] = u THEN count'[x] ELSE 0)
                               + (IF Parted(u, x)' THEN 1 ELSE 0)
      <3>0. held[u][x] = (IF owner[x] = u THEN count[x] ELSE 0) + (IF Parted(u, x) THEN 1 ELSE 0)
        BY DEF IInv, SyncInv, HeldIsOwned
      <3>1. CASE x # m
        <4>1. held'[u][x] = held[u][x] /\ owner'[x] = owner[x] /\ count'[x] = count[x]
          BY <1>1, <1>2, <1>6, <3>1
        <4>2. Parted(u, x)' = Parted(u, x)
          BY <2>1, <3>1, SyncConstants DEF Parted, At
        <4> QED
          BY <3>0, <4>1, <4>2
      <3>2. CASE x = m /\ u # t
        <4>1. held'[u][x] = held[u][x] /\ owner'[x] = t
          BY <1>1, <1>2, <1>6, <3>2
        <4>2. Parted(u, x)' = Parted(u, x)
          BY <2>1, <3>2 DEF Parted, At
        <4>3. owner[x] = u => count[x] = 0
          BY <1>6, <3>2
        <4> QED
          BY <1>2, <3>0, <3>2, <4>1, <4>2, <4>3
      <3>3. CASE x = m /\ u = t
        <4>1. count'[x] = count[x] + 1 /\ owner'[x] = t
          BY <1>1, <1>2, <1>6, <3>3
        <4>2. ~Parted(u, x)'
          BY <2>1, <3>3 DEF Parted, At
        <4>3. held'[u][x] = held[u][x] + (IF Parted(u, x) THEN 0 ELSE 1)
          BY <1>1, <1>2, <1>6, <2>2, <3>3
        <4>4. (IF owner[x] = u THEN count[x] ELSE 0) = count[x]
          BY <1>1, <1>2, <1>6, <3>3
        <4>5. held[u][x] = count[x] + (IF Parted(u, x) THEN 1 ELSE 0)
          BY <3>0, <4>4
        <4> QED
          BY <1>1, <1>2, <3>3, <4>1, <4>2, <4>3, <4>5
      <3> QED
        BY <3>1, <3>2, <3>3
    <2>7. HeldIsOwned'
      BY <2>6 DEF HeldIsOwned
    <2>8. NoLostUnlock'
      <3> SUFFICES ASSUME NEW x \in Mutexes, count'[x] = 0, Blocked(x)' # {}
                   PROVE  \E u \in Threads : At(u, "woken")' /\ call'[u].mutex = x
        BY DEF NoLostUnlock
      <3>1. x # m /\ count[x] = 0
        BY <1>1, <1>2, <1>6
      <3>2. Blocked(x)' \subseteq Blocked(x)
        BY <2>1 DEF Blocked, At
      <3>3. PICK u \in Threads : At(u, "woken") /\ call[u].mutex = x
        BY <3>1, <3>2 DEF IInv, SyncInv, NoLostUnlock
      <3>4. u # t
        BY <3>1, <3>3
      <3> QED
        BY <2>1, <3>3, <3>4 DEF At
    <2>9. CallShape'
      BY <2>1 DEF IInv, SyncInv, CallShape, At
    <2>10. DepthOne'
      <3> SUFFICES ASSUME NEW u \in Threads, NEW x \in Mutexes, kind[x] # "recursive"
                   PROVE  held'[u][x] <= 1
        BY <1>3 DEF DepthOne
      <3>1. held[u][x] <= 1
        BY DEF IInv, SyncInv, DepthOne
      <3>2. CASE u = t /\ x = m /\ call[t].ret = "none"
        <4>1. count[m] = 0 /\ ~Parted(t, m)
          BY <1>6, <2>2, <3>2
        <4>2. held[t][m] = 0
          BY <1>1, <1>2, <4>1 DEF IInv, SyncInv, HeldIsOwned
        <4> QED
          BY <1>1, <1>2, <1>6, <3>2, <4>2
      <3>3. CASE ~(u = t /\ x = m /\ call[t].ret = "none")
        BY <1>1, <1>2, <1>6, <3>1, <3>3
      <3> QED
        BY <3>2, <3>3
    <2>11. UnbornUnused'
      BY <1>1, <1>2, <1>3, <1>6 DEF IInv, AgeInv, UnbornUnused
    <2> QED
      BY <1>3, <2>1, <2>5, <2>7, <2>8, <2>9, <2>10, <2>11, AgesKept DEF IInv, SyncInv, AgeInv
  <1> QED
    BY <1>4, <1>5, <1>6 DEF LockStep

\* A call that returns without having changed an object keeps the invariant.
LEMMA ReturnKeeps ==
  ASSUME IInv, NEW t \in Threads, Return(t),
         call[t].ret = "none", call[t].at \in {"unlock", "wait", "destroy"},
         UNCHANGED <<mutexes, place, born, sessions, held>>, dead' \subseteq Objects
  PROVE  IInv'
  <1>1. call \in [Threads -> CallRec]
    BY DEF IInv, TypeOK
  <1>2. call' \in [Threads -> CallRec] /\ call'[t] = Idle
        /\ Idle.at = "idle" /\ Idle.mutex = None /\ Idle.cond = None /\ Idle.ret = "none"
        /\ \A u \in Threads \ {t} : call'[u] = call[u]
    BY <1>1, CallValues DEF Return
  <1>3. TypeOK'
    BY <1>2 DEF IInv, TypeOK, mutexes, sessions
  <1>4. HeldIsOwned'
    BY <1>2, SyncConstants DEF IInv, SyncInv, HeldIsOwned, Parted, At, mutexes, Objects
  <1>5. NoLostUnlock'
    BY <1>2 DEF IInv, SyncInv, NoLostUnlock, Blocked, At, mutexes
  <1>6. CallShape'
    BY <1>2 DEF IInv, SyncInv, CallShape, At
  <1>7. DepthOne' /\ UnbornUnused'
    BY DEF IInv, SyncInv, AgeInv, DepthOne, UnbornUnused, mutexes
  <1>8. Ages' /\ ErasMatch'
    BY <1>2, AgesKept
  <1> QED
    BY <1>3, <1>4, <1>5, <1>6, <1>7, <1>8 DEF IInv, SyncInv, AgeInv

\* An owner that unlocks once, at the end of an Unlock (r is Idle) or inside
\* a wait (r goes on with the wait), keeps the invariant.
LEMMA ReleaseKeeps ==
  ASSUME IInv, NEW t \in Threads, NEW m \in Mutexes, NEW r \in CallRec,
         call[t].mutex = m, call[t].ret = "none",
         call[t].at \in {"unlock", "wait"},
         MayUnlock(t, m), Released(m),
         NotifyOne(ToNotify(m), [call EXCEPT ![t] = r]),
         UNCHANGED <<objects, sessions>>,
         \/ r = Idle /\ held' = [held EXCEPT ![t][m] = @ - 1]
         \/ /\ r.mutex = m /\ UNCHANGED held
            /\ \/ r.at = "gap" /\ r.cond \in Conds /\ r.cond = call[t].cond /\ r.ret = "none"
               \/ r.at = "lock" /\ r.cond = None /\ r.ret # "none"
  PROVE  IInv'
  <1>1. call \in [Threads -> CallRec] /\ owner \in [Mutexes -> Threads \cup {None}]
        /\ count \in [Mutexes -> Nat] /\ held \in [Threads -> [Mutexes -> Nat]]
    BY DEF IInv, TypeOK
  <1>2. count[m] # 0 /\ owner[m] = t /\ kind' = kind
        /\ count' = [count EXCEPT ![m] = @ - 1]
        /\ owner' = [owner EXCEPT ![m] = IF count[m] = 1 THEN None ELSE @]
    BY DEF MayUnlock, Released
  <1>3. Idle.at = "idle" /\ Idle.mutex = None /\ Idle.cond = None /\ Idle.ret = "none"
        /\ \A u \in Threads : Woken(u).at = "woken" /\ Woken(u).mutex = call[u].mutex
              /\ Woken(u).cond = call[u].cond /\ Woken(u).ret = call[u].ret
    <2>1. Idle.at = "idle" /\ Idle.mutex = None /\ Idle.cond = None /\ Idle.ret = "none"
      BY <1>1, CallValues
    <2>2. ASSUME NEW u \in Threads
          PROVE  /\ Woken(u).at = "woken" /\ Woken(u).mutex = call[u].mutex
                 /\ Woken(u).cond = call[u].cond /\ Woken(u).ret = call[u].ret
      <3> DEFINE c == call[u]
      <3>1. c \in CallRec
        BY <1>1
      <3> HIDE DEF c
      <3>2. LET w == [c EXCEPT !.at = "woken"]
            IN  w.at = "woken" /\ w.mutex = c.mutex /\ w.cond = c.cond /\ w.ret = c.ret
        BY <3>1 DEF CallRec
      <3> QED
        BY <3>2 DEF Woken, c
    <2> QED
      BY <2>1, <2>2
  <1>4. /\ call' \in [Threads -> CallRec]
        /\ call'[t] = r
        /\ \A u \in Threads \ {t} :
             \/ call'[u] = call[u]
             \/ At(u, "blocked") /\ call'[u] = Woken(u)
        /\ ToNotify(m) # {} => \E w \in Blocked(m) \ {t} : call'[w] = Woken(w)
    <2>1. ~At(t, "blocked")
      BY DEF At
    <2>2. call \in [Threads -> CallRec]
      BY <1>1
    <2> QED
      BY <2>1, <2>2, NotifyEffect
  <1>5. ~Parted(t, m) /\ \A x \in Mutexes : ~Parted(t, x)
    BY DEF Parted, At
  <1>6. held[t][m] = count[m] /\ held[t][m] # 0
    BY <1>1, <1>2, <1>5 DEF IInv, SyncInv, HeldIsOwned
  <1>7. \A u \in Threads, x \in Mutexes : u # t => (Parted(u, x)' <=> Parted(u, x))
    BY <1>3, <1>4 DEF Parted, At
  <1>8. \A x \in Mutexes : Parted(t, x)' <=> x = m /\ r # Idle
    BY <1>3, <1>4, SyncConstants DEF Parted, At, Idle, Objects
  <1>9. \A u \in Threads, x \in Mutexes :
          held'[u][x] = IF u = t /\ x = m /\ r = Idle THEN held[u][x] - 1 ELSE held[u][x]
    <2>1. r = Idle => r.mutex # m
      BY <1>3, SyncConstants DEF Objects
    <2> QED
      BY <1>1, <2>1
  <1>10. TypeOK'
    <2>0. count[m] - 1 \in Nat /\ held[t][m] - 1 \in Nat
      <3>1. count[m] \in Nat /\ count[m] # 0
        BY <1>1, <1>2
      <3>2. count[m] - 1 \in Nat
        BY <3>1
      <3> QED
        BY <1>6, <3>2
    <2>1. owner' \in [Mutexes -> Threads \cup {None}] /\ count' \in [Mutexes -> Nat]
      BY <1>1, <1>2, <2>0
    <2>2. held' \in [Threads -> [Mutexes -> Nat]]
      <3>1. [held EXCEPT ![t][m] = @ - 1] \in [Threads -> [Mutexes -> Nat]]
        BY <1>1, <2>0
      <3> QED
        BY <1>1, <3>1
    <2>3. \A x \in Mutexes : count'[x] = 0 <=> owner'[x] = None
      BY <1>1, <1>2, SyncConstants DEF IInv, TypeOK
    <2> QED
      BY <1>2, <1>4, <2>1, <2>2, <2>3 DEF IInv, TypeOK, objects, sessions
  <1>11. HeldIsOwned'
    <2> SUFFICES ASSUME NEW u \in Threads, NEW x \in Mutexes
                 PROVE  held'[u][x] = (IF owner'[x] = u THEN count'[x] ELSE 0)
                                      + (IF Parted(u, x)' THEN 1 ELSE 0)
      BY DEF HeldIsOwned
    <2>1. held[u][x] = (IF owner[x] = u THEN count[x] ELSE 0) + (IF Parted(u, x) THEN 1 ELSE 0)
      BY DEF IInv, SyncInv, HeldIsOwned
    <2>2. CASE x # m
      BY <1>1, <1>2, <1>5, <1>7, <1>8, <1>9, <2>1, <2>2
    <2>3. CASE x = m /\ u # t
      BY <1>1, <1>2, <1>7, <1>9, <2>1, <2>3, SyncConstants
    <2>4. CASE x = m /\ u = t
      <3>1. (IF owner'[x] = u THEN count'[x] ELSE 0) = count[m] - 1
        BY <1>1, <1>2, <2>4, SyncConstants
      <3>2. CASE r = Idle
        <4>1. ~Parted(u, x)' /\ held'[u][x] = count[m] - 1
          BY <1>6, <1>8, <1>9, <2>4, <3>2
        <4> QED
          BY <1>1, <3>1, <4>1
      <3>3. CASE r # Idle
        <4>1. Parted(u, x)' /\ held'[u][x] = count[m]
          BY <1>6, <1>8, <1>9, <2>4, <3>3
        <4>2. count[m] \in Nat
          BY <1>1
        <4>3. (count[m] - 1) + 1 = count[m]
          BY <4>2
        <4> QED
          BY <3>1, <4>1, <4>3
      <3> QED
        BY <3>2, <3>3
    <2> QED
      BY <2>2, <2>3, <2>4
  <1>12. NoLostUnlock'
    <2> SUFFICES ASSUME NEW x \in Mutexes, count'[x] = 0, Blocked(x)' # {}
                 PROVE  \E u \in Threads : At(u, "woken")' /\ call'[u].mutex = x
      BY DEF NoLostUnlock
    <2>1. Blocked(x)' \subseteq Blocked(x)
      BY <1>3, <1>4 DEF Blocked, At
    <2>2. CASE x # m
      <3>1. PICK u \in Threads : At(u, "woken") /\ call[u].mutex = x
        BY <1>1, <1>2, <2>1, <2>2 DEF IInv, SyncInv, NoLostUnlock
      <3>2. call'[u] = call[u]
        BY <1>4, <2>2, <3>1 DEF At
      <3> QED
        BY <3>1, <3>2 DEF At
    <2>3. CASE x = m
      <3>1. count[m] = 1
        BY <1>1, <1>2, <2>3
      <3>2. ToNotify(m) # {}
        BY <2>1, <2>3, <3>1 DEF ToNotify
      <3> QED
        BY <1>3, <1>4, <2>3, <3>2 DEF Blocked, At
    <2> QED
      BY <2>2, <2>3
  <1>13. CallShape'
    <2>1. \A u \in Threads \ {t} :
            /\ At(u, "idle")' => call'[u] = Idle
            /\ call'[u].at \notin {"idle", "signal", "broadcast"} => call'[u].mutex \in Mutexes
            /\ call'[u].at \in {"wait", "gap", "waiting", "signal", "broadcast"} => call'[u].cond \in Conds
            /\ call'[u].ret # "none" => call'[u].at \in {"lock", "blocked", "woken"}
      BY <1>3, <1>4 DEF IInv, SyncInv, CallShape, At
    <2>2. /\ At(t, "idle")' => call'[t] = Idle
          /\ call'[t].at \notin {"idle", "signal", "broadcast"} => call'[t].mutex \in Mutexes
          /\ call'[t].at \in {"wait", "gap", "waiting", "signal", "broadcast"} => call'[t].cond \in Conds
          /\ call'[t].ret # "none" => call'[t].at \in {"lock", "blocked", "woken"}
      BY <1>3, <1>4 DEF At
    <2> QED
      BY <2>1, <2>2 DEF CallShape
  <1>14. DepthOne'
    BY <1>1, <1>2, <1>9 DEF IInv, SyncInv, DepthOne
  <1>15. UnbornUnused'
    BY <1>1, <1>2, <1>6, <1>9 DEF IInv, AgeInv, UnbornUnused, objects
  <1>16. \A u \in Threads : /\ call'[u].mutex \in {call[u].mutex, None}
                            /\ call'[u].cond \in {call[u].cond, None}
    BY <1>3, <1>4
  <1>17. Ages' /\ ErasMatch'
    BY <1>16, AgesKept DEF objects
  <1> QED
    BY <1>10, <1>11, <1>12, <1>13, <1>14, <1>15, <1>17 DEF IInv, SyncInv, AgeInv

\* UnlockStep keeps the invariant.
LEMMA UnlockKeeps ==
  ASSUME IInv, NEW t \in Threads, UnlockStep(t)
  PROVE  IInv'
  <1> DEFINE m == call[t].mutex
  <1>1. m \in Mutexes /\ call[t].ret = "none" /\ call[t].at = "unlock"
    BY DEF IInv, SyncInv, CallShape, UnlockStep, At
  <1>2. CASE MayUnlock(t, m)
    <2>1. Idle \in CallRec
      BY CallValues DEF IInv, TypeOK
    <2> QED
      BY <1>1, <1>2, <2>1, ReleaseKeeps DEF UnlockStep
  <1>3. CASE ~MayUnlock(t, m)
    BY <1>1, <1>3, ReturnKeeps DEF UnlockStep, objects, IInv, TypeOK
  <1> QED
    BY <1>2, <1>3

\* WaitUnlock keeps the invariant.
LEMMA WaitUnlockKeeps ==
  ASSUME IInv, NEW t \in Threads, WaitUnlock(t)
  PROVE  IInv'
  <1> DEFINE m == call[t].mutex
  <1>1. m \in Mutexes /\ call[t].ret = "none" /\ call[t].at = "wait" /\ call[t].cond \in Conds
    BY DEF IInv, SyncInv, CallShape, WaitUnlock, At
  <1>2. CASE MayUnlock(t, m)
    <2>1. PICK r \in {[call[t] EXCEPT !.at = "gap"], Resumed(t, "timedout")} :
            NotifyOne(ToNotify(m), [call EXCEPT ![t] = r])
      BY <1>2 DEF WaitUnlock
    <2>2. r \in CallRec /\ r.mutex = m
          /\ \/ r.at = "gap" /\ r.cond \in Conds /\ r.cond = call[t].cond /\ r.ret = "none"
             \/ r.at = "lock" /\ r.cond = None /\ r.ret # "none"
      <3>1. call \in [Threads -> CallRec]
        BY DEF IInv, TypeOK
      <3>2. CASE r = [call[t] EXCEPT !.at = "gap"]
        BY <1>1, <3>1, <3>2, CallValues
      <3>3. CASE r = Resumed(t, "timedout")
        BY <1>1, <3>1, <3>3, CallValues
      <3> QED
        BY <2>1, <3>2, <3>3
    <2> QED
      BY <1>1, <1>2, <2>1, <2>2, ReleaseKeeps DEF WaitUnlock
  <1>3. CASE ~MayUnlock(t, m)
    BY <1>1, <1>3, ReturnKeeps DEF WaitUnlock, objects, IInv, TypeOK
  <1> QED
    BY <1>2, <1>3

\* A step that only moves calls on: each to a place with the same part in a
\* wait, to its own objects or none, and no sleeper is added to a mutex.
LEMMA MoveKeeps ==
  ASSUME IInv, UNCHANGED <<mutexes, objects, sessions, held>>,
         call' \in [Threads -> CallRec],
         \A u \in Threads :
           \/ call'[u] = call[u]
           \/ /\ At(u, "blocked")
              /\ call'[u] = Woken(u)
           \/ /\ At(u, "gap") /\ call'[u] = [call[u] EXCEPT !.at = "waiting"]
           \/ /\ At(u, "waiting") /\ \E r \in {"ok", "timedout"} : call'[u] = Resumed(u, r)
           \/ /\ call[u].at \in {"signal", "broadcast"} /\ call'[u] = Idle
  PROVE  IInv'
  <1>1. call \in [Threads -> CallRec]
    BY DEF IInv, TypeOK
  <1>2. /\ Idle.at = "idle" /\ Idle.mutex = None /\ Idle.cond = None /\ Idle.ret = "none"
        /\ \A u \in Threads :
             /\ Woken(u).at = "woken" /\ Woken(u).mutex = call[u].mutex
             /\ Woken(u).cond = call[u].cond /\ Woken(u).ret = call[u].ret
    <2>1. Idle.at = "idle" /\ Idle.mutex = None /\ Idle.cond = None /\ Idle.ret = "none"
      BY DEF Idle
    <2>2. ASSUME NEW u \in Threads
          PROVE  /\ Woken(u).at = "woken" /\ Woken(u).mutex = call[u].mutex
                 /\ Woken(u).cond = call[u].cond /\ Woken(u).ret = call[u].ret
      BY <1>1, CallValues DEF Woken
    <2> QED
      BY <2>1, <2>2
  <1>3. ASSUME NEW u \in Threads
        PROVE  \/ call'[u] = call[u]
               \/ /\ At(u, "blocked") /\ At(u, "woken")' /\ call'[u].mutex = call[u].mutex
                  /\ call'[u].cond = call[u].cond /\ call'[u].ret = call[u].ret
               \/ /\ At(u, "gap") /\ At(u, "waiting")' /\ call'[u].mutex = call[u].mutex
                  /\ call'[u].cond = call[u].cond /\ call'[u].ret = call[u].ret
               \/ /\ At(u, "waiting") /\ At(u, "lock")' /\ call'[u].mutex = call[u].mutex
                  /\ call'[u].cond = None /\ call'[u].ret \in {"ok", "timedout"}
               \/ /\ call[u].at \in {"signal", "broadcast"} /\ call'[u] = Idle
    <2>1. CASE call'[u] = call[u]
      BY <2>1
    <2>2. CASE At(u, "blocked") /\ call'[u] = Woken(u)
      BY <1>2, <2>2 DEF At
    <2>3. CASE At(u, "gap") /\ call'[u] = [call[u] EXCEPT !.at = "waiting"]
      BY <1>1, <2>3, CallValues DEF At
    <2>4. CASE At(u, "waiting") /\ \E r \in {"ok", "timedout"} : call'[u] = Resumed(u, r)
      <3>1. PICK r \in {"ok", "timedout"} : call'[u] = Resumed(u, r)
        BY <2>4
      <3>2. \A s \in {"ok", "timedout"} :
              /\ Resumed(u, s).at = "lock" /\ Resumed(u, s).mutex = call[u].mutex
              /\ Resumed(u, s).cond = None /\ Resumed(u, s).ret = s
        BY <1>1, CallValues
      <3> QED
        BY <2>4, <3>1, <3>2 DEF At
    <2>5. CASE call[u].at \in {"signal", "broadcast"} /\ call'[u] = Idle
      BY <2>5
    <2> QED
      BY <2>1, <2>2, <2>3, <2>4, <2>5
  <1>4. ASSUME NEW u \in Threads, NEW x \in Mutexes
        PROVE  Parted(u, x)' <=> Parted(u, x)
    <2>1. call[u].at \in {"signal", "broadcast"} => call[u].ret = "none"
      BY DEF IInv, SyncInv, CallShape
    <2> QED
      BY <1>2, <1>3, <2>1 DEF Parted, At
  <1>5. TypeOK'
    BY DEF IInv, TypeOK, mutexes, objects, sessions
  <1>6. HeldIsOwned'
    BY <1>4 DEF IInv, SyncInv, HeldIsOwned, mutexes
  <1>7. NoLostUnlock'
    <2> SUFFICES ASSUME NEW x \in Mutexes, count[x] = 0, Blocked(x)' # {}
                 PROVE  \E u \in Threads : At(u, "woken")' /\ call'[u].mutex = x
      BY DEF NoLostUnlock, mutexes
    <2>1. Blocked(x)' \subseteq Blocked(x)
      BY <1>2, <1>3 DEF Blocked, At
    <2>2. PICK u \in Threads : At(u, "woken") /\ call[u].mutex = x
      BY <2>1 DEF IInv, SyncInv, NoLostUnlock
    <2> QED
      BY <1>3, <2>2 DEF At
  <1>8. CallShape'
    BY <1>2, <1>3 DEF IInv, SyncInv, CallShape, At
  <1>9. DepthOne' /\ UnbornUnused'
    BY DEF IInv, SyncInv, AgeInv, DepthOne, UnbornUnused, mutexes, objects
  <1>10. \A u \in Threads : /\ call'[u].mutex \in {call[u].mutex, None}
                            /\ call'[u].cond \in {call[u].cond, None}
    BY <1>2, <1>3
  <1>11. Ages' /\ ErasMatch'
    BY <1>10, AgesKept DEF objects
  <1> QED
    BY <1>5, <1>6, <1>7, <1>8, <1>9, <1>11 DEF IInv, SyncInv, AgeInv

\* The steps that wait, stop waiting, or notify a condition variable.
LEMMA WaitersKeep ==
  ASSUME IInv, NEW t \in Threads,
         \/ SpuriousWake(t) \/ WaitSleep(t) \/ WaitTimeout(t)
         \/ Signal(t) \/ Broadcast(t)
  PROVE  IInv'
  <1>1. call \in [Threads -> CallRec] /\ Idle \in CallRec
    BY CallValues DEF IInv, TypeOK
  <1>2. CASE SpuriousWake(t)
    <2>1. Woken(t) \in CallRec
      BY <1>1, CallValues DEF Woken
    <2>2. call' \in [Threads -> CallRec] /\ call'[t] = Woken(t)
          /\ \A u \in Threads \ {t} : call'[u] = call[u]
      BY <1>1, <1>2, <2>1 DEF SpuriousWake, Goto, Woken
    <2> QED
      BY <1>2, <2>2, MoveKeeps DEF SpuriousWake, At
  <1>3. CASE WaitSleep(t)
    <2>1. [call[t] EXCEPT !.at = "waiting"] \in CallRec
      BY <1>1, CallValues
    <2>2. call' \in [Threads -> CallRec] /\ call'[t] = [call[t] EXCEPT !.at = "waiting"]
          /\ \A u \in Threads \ {t} : call'[u] = call[u]
      BY <1>1, <1>3, <2>1 DEF WaitSleep, Goto
    <2> QED
      BY <1>3, <2>2, MoveKeeps DEF WaitSleep
  <1>4. CASE WaitTimeout(t)
    <2>1. PICK r \in {"ok", "timedout"} : call' = [call EXCEPT ![t] = Resumed(t, r)]
      BY <1>4 DEF WaitTimeout
    <2>2. Resumed(t, r) \in CallRec
      BY <1>1, <2>1, CallValues
    <2>3. call' \in [Threads -> CallRec] /\ call'[t] = Resumed(t, r)
          /\ \A u \in Threads \ {t} : call'[u] = call[u]
      BY <1>1, <2>1, <2>2
    <2> QED
      BY <1>4, <2>3, MoveKeeps DEF WaitTimeout
  <1>5. CASE Signal(t)
    <2> DEFINE calls == [call EXCEPT ![t] = Idle]
    <2>1. calls \in [Threads -> CallRec]
      BY <1>1
    <2>2. CASE Waiting(call[t].cond) = {}
      <3>1. call' = calls
        BY <1>5, <2>2 DEF Signal, NotifyOne
      <3> QED
        BY <1>1, <1>5, <3>1, MoveKeeps DEF Signal, At
    <2>3. CASE Waiting(call[t].cond) # {}
      <3>1. PICK w \in Waiting(call[t].cond) : call' = [calls EXCEPT ![w] = Signalled(w)]
        BY <1>5, <2>3 DEF Signal, NotifyOne, Awake, Waiting, At
      <3>2. w \in Threads /\ At(w, "waiting") /\ w # t
        BY <1>5, <3>1 DEF Waiting, Signal, At
      <3>3. Signalled(w) \in CallRec /\ Signalled(w) = Resumed(w, "ok")
        BY <1>1, <3>2, CallValues DEF Signalled
      <3>4. call' \in [Threads -> CallRec] /\ call'[t] = Idle /\ call'[w] = Resumed(w, "ok")
            /\ \A u \in Threads \ {t, w} : call'[u] = call[u]
        BY <1>1, <2>1, <3>1, <3>2, <3>3
      <3> QED
        BY <1>5, <3>2, <3>4, MoveKeeps DEF Signal, At
    <2> QED
      BY <2>2, <2>3
  <1>6. CASE Broadcast(t)
    <2>1. \A w \in Threads : Signalled(w) \in CallRec /\ Signalled(w) = Resumed(w, "ok")
      BY <1>1, CallValues DEF Signalled
    <2>2. call' \in [Threads -> CallRec] /\ call'[t] = Idle
          /\ \A u \in Threads \ {t} :
               call'[u] = call[u] \/ (At(u, "waiting") /\ call'[u] = Resumed(u, "ok"))
      <3>1. call' = [w \in Threads |-> IF w = t THEN Idle
                                     ELSE IF w \in Waiting(call[t].cond) THEN Signalled(w)
                                     ELSE call[w]]
        BY <1>6 DEF Broadcast
      <3>2. \A w \in Waiting(call[t].cond) : At(w, "waiting")
        BY DEF Waiting
      <3>3. call' \in [Threads -> CallRec] /\ call'[t] = Idle
        BY <1>1, <2>1, <3>1
      <3>4. ASSUME NEW u \in Threads \ {t}
            PROVE  call'[u] = call[u] \/ (At(u, "waiting") /\ call'[u] = Resumed(u, "ok"))
        <4>1. call'[u] = IF u \in Waiting(call[t].cond) THEN Signalled(u) ELSE call[u]
          BY <3>1
        <4>2. CASE u \in Waiting(call[t].cond)
          BY <2>1, <3>2, <4>1, <4>2
        <4>3. CASE u \notin Waiting(call[t].cond)
          BY <4>1, <4>3
        <4> QED
          BY <4>2, <4>3
      <3> QED
        BY <3>3, <3>4
    <2> QED
      BY <1>6, <2>2, MoveKeeps DEF Broadcast, At
  <1> QED
    BY <1>2, <1>3, <1>4, <1>5, <1>6

\* Beginning a call keeps the invariant.
LEMMA EnterKeeps ==
  ASSUME IInv, NEW t \in Threads, NEW w, NEW x, NEW c,
         At(t, "idle"),
         \/ w \in {"lock", "unlock", "destroy"} /\ x \in Mutexes /\ Valid(t, x) /\ c = None
         \/ w = "wait" /\ x \in Mutexes /\ Valid(t, x) /\ c \in Conds /\ Valid(t, c)
         \/ w \in {"signal", "broadcast"} /\ x = None /\ c \in Conds /\ Valid(t, c),
         Enter(t, w, x, c)
  PROVE  IInv'
  <1> DEFINE r == [at |-> w, mutex |-> x, cond |-> c, ret |-> "none"]
  <1>1. call \in [Threads -> CallRec]
    BY DEF IInv, TypeOK
  <1>2. r \in CallRec /\ r.at = w /\ r.mutex = x /\ r.cond = c /\ r.ret = "none"
    BY DEF CallRec
  <1>3. call' \in [Threads -> CallRec] /\ call'[t] = r
        /\ \A u \in Threads \ {t} : call'[u] = call[u]
    BY <1>1, <1>2 DEF Enter
  <1>4. call[t] = Idle
    BY DEF IInv, SyncInv, CallShape
  <1> HIDE DEF r
  <1>5. UNCHANGED <<mutexes, objects, sessions, held>>
    BY DEF Enter
  <1>6. TypeOK'
    BY <1>3, <1>5 DEF IInv, TypeOK, mutexes, objects, sessions
  <1>7. \A u \in Threads, y \in Mutexes : Parted(u, y)' <=> Parted(u, y)
    BY <1>2, <1>3, <1>4 DEF Parted, At, Idle
  <1>8. HeldIsOwned'
    BY <1>5, <1>7 DEF IInv, SyncInv, HeldIsOwned, mutexes
  <1>9. NoLostUnlock'
    BY <1>2, <1>3, <1>5 DEF IInv, SyncInv, NoLostUnlock, Blocked, At, mutexes
  <1>10. CallShape'
    BY <1>2, <1>3 DEF IInv, SyncInv, CallShape, At
  <1>11. DepthOne' /\ UnbornUnused' /\ Ages'
    BY <1>5 DEF IInv, SyncInv, AgeInv, DepthOne, UnbornUnused, Ages, mutexes, objects, sessions
  <1>12. ErasMatch'
    BY <1>2, <1>3, <1>5 DEF IInv, AgeInv, ErasMatch, Valid, Knows, objects, sessions
  <1> QED
    BY <1>6, <1>8, <1>9, <1>10, <1>11, <1>12 DEF IInv, SyncInv, AgeInv

\* MutexDestroy keeps the invariant.
LEMMA DestroyKeeps ==
  ASSUME IInv, NEW t \in Threads, MutexDestroy(t)
  PROVE  IInv'
  <1>1. call[t].mutex \in Mutexes /\ call[t].ret = "none" /\ call[t].at = "destroy"
    BY DEF IInv, SyncInv, CallShape, MutexDestroy, At
  <1>2. dead' \subseteq Objects
    BY <1>1 DEF MutexDestroy, IInv, TypeOK, Objects
  <1> QED
    BY <1>1, <1>2, ReturnKeeps DEF MutexDestroy

-----------------------------------------------------------------------------
(* Objects and sessions.                                                   *)

\* Creating and destroying objects outside a call keeps the invariant.
LEMMA ObjectsKeep ==
  ASSUME IInv, NEW t \in Threads,
         \/ \E m \in Mutexes : MutexInit(t, m)
         \/ \E c \in Conds : CondInit(t, c) \/ CondDestroy(t, c)
  PROVE  IInv'
  <1>1. CASE \E m \in Mutexes : MutexInit(t, m)
    <2>1. PICK m \in Mutexes : MutexInit(t, m)
      BY <1>1
    <2>2. PICK k \in Kinds : kind' = [kind EXCEPT ![m] = k]
      BY <2>1 DEF MutexInit
    <2>3. place[m] = "unborn" /\ place' = [place EXCEPT ![m] = "typed"]
          /\ born' = [born EXCEPT ![m] = session]
          /\ UNCHANGED <<owner, count, dead, call, sessions, held>> /\ m \in Objects
      BY <2>1 DEF MutexInit, Create, Objects
    <2>4. TypeOK'
      BY <2>2, <2>3 DEF IInv, TypeOK, sessions
    <2>5. HeldIsOwned' /\ NoLostUnlock' /\ CallShape'
      BY <2>3 DEF IInv, SyncInv, HeldIsOwned, NoLostUnlock, CallShape, Blocked, Parted, At
    <2>6. DepthOne'
      BY <2>2, <2>3 DEF IInv, SyncInv, AgeInv, DepthOne, UnbornUnused, TypeOK
    <2>7. UnbornUnused'
      BY <2>3 DEF IInv, AgeInv, UnbornUnused, TypeOK
    <2>8. Ages'
      BY <2>3 DEF IInv, AgeInv, Ages, TypeOK, sessions
    <2>9. ErasMatch'
      BY <2>3 DEF IInv, AgeInv, ErasMatch, TypeOK, sessions
    <2> QED
      BY <2>4, <2>5, <2>6, <2>7, <2>8, <2>9 DEF IInv, SyncInv, AgeInv
  <1>2. CASE \E c \in Conds : CondInit(t, c)
    <2>1. PICK c \in Conds : CondInit(t, c)
      BY <1>2
    <2>2. place[c] = "unborn" /\ place' = [place EXCEPT ![c] = "typed"]
          /\ born' = [born EXCEPT ![c] = session]
          /\ UNCHANGED <<mutexes, dead, call, sessions, held>> /\ c \in Objects /\ c \notin Mutexes
      BY <2>1, SyncConstants DEF CondInit, Create, Objects
    <2>3. TypeOK'
      BY <2>2 DEF IInv, TypeOK, sessions, mutexes
    <2>4. HeldIsOwned' /\ NoLostUnlock' /\ CallShape' /\ DepthOne'
      BY <2>2 DEF IInv, SyncInv, HeldIsOwned, NoLostUnlock, CallShape, DepthOne, Blocked,
                  Parted, At, mutexes
    <2>5. UnbornUnused'
      BY <2>2 DEF IInv, AgeInv, UnbornUnused, TypeOK, mutexes, Objects
    <2>6. Ages'
      BY <2>2 DEF IInv, AgeInv, Ages, TypeOK, sessions
    <2>7. ErasMatch'
      BY <2>2 DEF IInv, AgeInv, ErasMatch, TypeOK, sessions
    <2> QED
      BY <2>3, <2>4, <2>5, <2>6, <2>7 DEF IInv, SyncInv, AgeInv
  <1>3. CASE \E c \in Conds : CondDestroy(t, c)
    <2>1. dead' \subseteq Objects /\ UNCHANGED <<mutexes, place, born, call, sessions, held>>
      BY <1>3 DEF CondDestroy, Objects, IInv, TypeOK
    <2>2. TypeOK'
      BY <2>1 DEF IInv, TypeOK, mutexes, sessions
    <2>3. HeldIsOwned' /\ NoLostUnlock' /\ CallShape' /\ DepthOne'
      BY <2>1 DEF IInv, SyncInv, HeldIsOwned, NoLostUnlock, CallShape, DepthOne, Blocked,
                  Parted, At, mutexes
    <2>4. UnbornUnused'
      BY <2>1 DEF IInv, AgeInv, UnbornUnused, mutexes
    <2>5. Ages'
      BY <2>1 DEF IInv, AgeInv, Ages, sessions
    <2>6. ErasMatch'
      BY <2>1 DEF IInv, AgeInv, ErasMatch, sessions
    <2> QED
      BY <2>2, <2>3, <2>4, <2>5, <2>6 DEF IInv, SyncInv, AgeInv
  <1> QED
    BY <1>1, <1>2, <1>3

\* A new body, and the two steps of a teardown, keep the invariant.
LEMMA SessionsKeep ==
  ASSUME IInv, (\E t \in Threads : NewBody(t)) \/ ResetSwap \/ ResetDelete
  PROVE  IInv'
  <1>1. CASE \E t \in Threads : NewBody(t)
    <2>1. PICK t \in Threads : NewBody(t)
      BY <1>1
    <2>2. call[t] = Idle /\ Idle.mutex = None /\ Idle.cond = None
      BY <2>1 DEF NewBody, IInv, SyncInv, CallShape, Idle
    <2>3. UNCHANGED <<mutexes, objects, call, session, condemned, held>>
          /\ era' = [era EXCEPT ![t] = session]
      BY <2>1 DEF NewBody
    <2>4. TypeOK'
      BY <2>3 DEF IInv, TypeOK, mutexes, objects
    <2>5. SyncInv' /\ UnbornUnused' /\ Ages'
      BY <2>3 DEF IInv, SyncInv, AgeInv, HeldIsOwned, NoLostUnlock, CallShape, DepthOne,
                  UnbornUnused, Ages, Blocked, Parted, At, mutexes, objects
    <2>6. ErasMatch'
      BY <2>2, <2>3 DEF IInv, AgeInv, ErasMatch, TypeOK, objects
    <2> QED
      BY <2>4, <2>5, <2>6 DEF IInv, AgeInv
  <1>2. CASE ResetSwap
    <2>1. /\ session' = session + 1
          /\ condemned' = {o \in Objects : place[o] = "grave"}
          /\ place' = [o \in Objects |-> IF place[o] = "typed" THEN "grave" ELSE place[o]]
          /\ UNCHANGED <<mutexes, dead, born, call, era, held>>
      BY <1>2 DEF ResetSwap
    <2>2. TypeOK'
      BY <2>1 DEF IInv, TypeOK, mutexes
    <2>3. SyncInv'
      BY <2>1 DEF IInv, SyncInv, HeldIsOwned, NoLostUnlock, CallShape, DepthOne, Blocked,
                  Parted, At, mutexes
    <2>4. UnbornUnused'
      BY <2>1 DEF IInv, AgeInv, UnbornUnused, mutexes, Objects
    <2>5. Ages'
      <3> SUFFICES ASSUME NEW o \in Objects
                   PROVE  /\ place'[o] # "unborn" => born[o] <= session'
                          /\ place'[o] = "grave" => born[o] + 1 <= session'
                          /\ place'[o] = "gone" \/ o \in condemned'
                               => born[o] + 2 <= session' /\ place'[o] # "unborn"
        BY <2>1 DEF Ages
      <3>1. born[o] \in Nat /\ session \in Nat
            /\ place[o] \in {"unborn", "typed", "grave", "gone"}
        BY DEF IInv, TypeOK
      <3>2. /\ place[o] # "unborn" => born[o] <= session
            /\ place[o] = "grave" => born[o] + 1 <= session
            /\ place[o] = "gone" => born[o] + 2 <= session
        BY DEF IInv, AgeInv, Ages
      <3>3. place'[o] = IF place[o] = "typed" THEN "grave" ELSE place[o]
        BY <2>1
      <3> QED
        BY <2>1, <3>1, <3>2, <3>3
    <2>6. ErasMatch'
      <3> SUFFICES ASSUME NEW t \in Threads, NEW o \in {call[t].mutex, call[t].cond} \ {None}
                   PROVE  place'[o] # "unborn" /\ era[t] <= born[o]
        BY <2>1 DEF ErasMatch
      <3>1. place[o] # "unborn" /\ era[t] <= born[o]
        BY DEF IInv, AgeInv, ErasMatch
      <3>2. o \in Objects
        BY CallFields DEF IInv, TypeOK, Objects
      <3> QED
        BY <2>1, <3>1, <3>2
    <2> QED
      BY <2>2, <2>3, <2>4, <2>5, <2>6 DEF IInv, AgeInv
  <1>3. CASE ResetDelete
    <2>1. PICK o \in condemned : /\ condemned' = condemned \ {o}
                                 /\ place' = [place EXCEPT ![o] = "gone"]
      BY <1>3 DEF ResetDelete
    <2>2. UNCHANGED <<mutexes, dead, born, call, era, session, held>> /\ o \in Objects
      BY <1>3 DEF ResetDelete, IInv, TypeOK
    <2>3. TypeOK'
      BY <2>1, <2>2 DEF IInv, TypeOK, mutexes
    <2>4. SyncInv'
      BY <2>2 DEF IInv, SyncInv, HeldIsOwned, NoLostUnlock, CallShape, DepthOne, Blocked,
                  Parted, At, mutexes
    <2>5. UnbornUnused' /\ Ages' /\ ErasMatch'
      BY <2>1, <2>2 DEF IInv, AgeInv, UnbornUnused, Ages, ErasMatch, TypeOK, mutexes
    <2> QED
      BY <2>3, <2>4, <2>5 DEF IInv, AgeInv
  <1> QED
    BY <1>1, <1>2, <1>3

-----------------------------------------------------------------------------
(* The theorems.                                                           *)

\* The invariant holds at the start.
LEMMA InitInv == Init => IInv
  <1> SUFFICES ASSUME Init PROVE IInv
    OBVIOUS
  <1>1. Idle \in CallRec /\ Idle.at = "idle" /\ Idle.mutex = None /\ Idle.cond = None
        /\ Idle.ret = "none"
    BY DEF Idle, CallRec
  <1>2. TypeOK
    BY <1>1 DEF Init, TypeOK
  <1>3. SyncInv
    BY <1>1, SyncConstants DEF Init, SyncInv, HeldIsOwned, NoLostUnlock, CallShape, DepthOne,
                               Blocked, Parted, At
  <1>4. AgeInv
    BY <1>1 DEF Init, AgeInv, UnbornUnused, Ages, ErasMatch, Objects
  <1> QED
    BY <1>2, <1>3, <1>4 DEF IInv

\* Every step keeps the invariant.
LEMMA NextInv == IInv /\ [Next]_vars => IInv'
  <1> SUFFICES ASSUME IInv, [Next]_vars PROVE IInv'
    OBVIOUS
  <1>1. ASSUME NEW t \in Threads, Begin(t) PROVE IInv'
    <2>1. CASE \/ \E m \in Mutexes : MutexInit(t, m)
               \/ \E c \in Conds : CondInit(t, c) \/ CondDestroy(t, c)
      BY <2>1, ObjectsKeep
    <2>2. ASSUME NEW m \in Mutexes, Valid(t, m),
                 \E w \in {"lock", "unlock", "destroy"} : Enter(t, w, m, None)
          PROVE  IInv'
      BY <2>2, EnterKeeps DEF Enter
    <2>3. ASSUME NEW m \in Mutexes, Valid(t, m), NEW c \in Conds, Valid(t, c),
                 Enter(t, "wait", m, c)
          PROVE  IInv'
      BY <2>3, EnterKeeps DEF Enter
    <2>4. ASSUME NEW c \in Conds, Valid(t, c),
                 \E w \in {"signal", "broadcast"} : Enter(t, w, None, c)
          PROVE  IInv'
      BY <2>4, EnterKeeps DEF Enter
    <2> QED
      BY <1>1, <2>1, <2>2, <2>3, <2>4 DEF Begin
  <1>2. ASSUME NEW t \in Threads, Continue(t) \/ SpuriousWake(t) PROVE IInv'
    BY <1>2, LockKeeps, UnlockKeeps, DestroyKeeps, WaitUnlockKeeps, WaitersKeep DEF Continue
  <1>3. CASE UNCHANGED vars
    BY <1>3 DEF vars, IInv, TypeOK, SyncInv, HeldIsOwned, NoLostUnlock, CallShape, DepthOne,
                AgeInv, UnbornUnused, Ages, ErasMatch, Blocked, Parted, At,
                mutexes, objects, sessions
  <1> QED
    BY <1>1, <1>2, <1>3, SessionsKeep DEF Next

\* The invariant holds in every reachable state.
THEOREM SyncInductive == Spec => []IInv
  BY InitInv, NextInv, PTL DEF Spec

\* Every variable keeps its type and a mutex has an owner exactly while its
\* count is positive.
THEOREM SyncTypes == Spec => []TypeOK
  <1>1. IInv => TypeOK
    BY DEF IInv
  <1> QED
    BY <1>1, SyncInductive, PTL

\* Return codes and mutexes agree: what a thread locked and has not unlocked
\* or parted with is its own, so guest mutexes exclude.
THEOREM GuestMutexesExclude == Spec => []HeldIsOwned
  <1>1. IInv => HeldIsOwned
    BY DEF IInv, SyncInv
  <1> QED
    BY <1>1, SyncInductive, PTL

\* No free mutex leaves all its sleepers asleep.
THEOREM UnlocksAreNotLost == Spec => []NoLostUnlock
  <1>1. IInv => NoLostUnlock
    BY DEF IInv, SyncInv
  <1> QED
    BY <1>1, SyncInductive, PTL

\* Leftover guest code keeps its mutexes and conditions for one more session.
THEOREM GraveyardGrace == Spec => []OneSessionGrace
  <1>1. IInv => OneSessionGrace
    <2> SUFFICES ASSUME IInv, NEW t \in Threads,
                        NEW o \in {call[t].mutex, call[t].cond} \ {None}, place[o] = "gone"
                 PROVE  era[t] + 2 <= session
      BY DEF OneSessionGrace
    <2>1. o \in Objects /\ era[t] \in Nat /\ session \in Nat
      BY CallFields DEF IInv, TypeOK, Objects
    <2>2. born[o] \in Nat /\ born[o] + 2 <= session /\ era[t] <= born[o]
      BY <2>1 DEF IInv, TypeOK, AgeInv, Ages, ErasMatch
    <2> QED
      BY <2>1, <2>2
  <1> QED
    BY <1>1, SyncInductive, PTL
=============================================================================
