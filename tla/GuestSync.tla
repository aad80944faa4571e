----------------------------- MODULE GuestSync -----------------------------
(***************************************************************************)
(* Guest mutexes and condition variables in kernel/pthread_hle.cpp, and    *)
(* the one-session graveyard that keeps them alive across a teardown.      *)
(*                                                                         *)
(* A handler first reads the handle and the flag `dead' without a lock;    *)
(* that is the step a call begins with.  What it does under the object's   *)
(* own lock (meta of a mutex, waitM of a condition variable) is one later  *)
(* step.  Waiting on a std::condition_variable is a place of its own; the  *)
(* standard lets such a wait end without a notification.                   *)
(*                                                                         *)
(* The objects of a finished session may still be used by guest threads    *)
(* the teardown gave up on.  Using an object that has been deleted is      *)
(* undefined; the model stops there.                                       *)
(***************************************************************************)
EXTENDS Naturals, FiniteSets

CONSTANTS
  Threads,      \* host threads that run guest code
  Mutexes,      \* MutexPrivate objects
  Conds,        \* CondPrivate objects
  None,         \* no object, no owner
  Kinds,        \* the kinds the guest asks for
  MaxDepth,     \* how often a thread locks a mutex it already holds
  MaxSession    \* how many teardowns happen

Objects == Mutexes \cup Conds

ASSUME SyncConstants ==
  /\ None \notin Threads \cup Objects
  /\ Mutexes \cap Conds = {}
  /\ Kinds \subseteq {"errorcheck", "recursive", "normal", "adaptive"}
  /\ MaxDepth \in Nat \ {0}
  /\ MaxSession \in Nat

VARIABLES
  kind,     \* kind of every mutex
  owner,    \* owner of every mutex, None when it is free
  count,    \* how often the owner has locked it
  dead,     \* the objects the guest has destroyed
  place,    \* unborn, typed (g_typed), grave (g_graveyard), gone (deleted)
  born,     \* the session an object was created in
  call,     \* the call in progress of every thread
  era,      \* the session the guest code of a thread belongs to
  session,  \* how many teardowns have swapped the graveyard
  condemned,\* what the teardown in progress is about to delete
  held      \* per thread and mutex: locks minus unlocks that returned 0

mutexes  == <<kind, owner, count>>
objects  == <<dead, place, born>>
sessions == <<era, session, condemned>>
vars     == <<mutexes, objects, call, sessions, held>>

Idle == [at |-> "idle", mutex |-> None, cond |-> None, ret |-> "none"]

Init ==
  /\ kind = [m \in Mutexes |-> "errorcheck"]
  /\ owner = [m \in Mutexes |-> None]
  /\ count = [m \in Mutexes |-> 0]
  /\ dead = {}
  /\ place = [o \in Objects |-> "unborn"]
  /\ born = [o \in Objects |-> 0]
  /\ call = [t \in Threads |-> Idle]
  /\ era = [t \in Threads |-> 0]
  /\ session = 0
  /\ condemned = {}
  /\ held = [t \in Threads |-> [m \in Mutexes |-> 0]]

-----------------------------------------------------------------------------
(* Calls.                                                                  *)

\* The handle of `o' is in memory the guest code of `t' can read.  New code
\* can only hold new handles.
Knows(t, o) == place[o] # "unborn" /\ born[o] >= era[t]

\* The check every handler starts with: a handle, and an object not dead.
Valid(t, o) == Knows(t, o) /\ o \notin dead

At(t, where) == call[t].at = where
Goto(t, where) == call' = [call EXCEPT ![t].at = where]
Return(t) == call' = [call EXCEPT ![t] = Idle]

Enter(t, where, m, c) ==
  /\ At(t, "idle")
  /\ call' = [call EXCEPT ![t] = [at |-> where, mutex |-> m, cond |-> c, ret |-> "none"]]
  /\ UNCHANGED <<mutexes, objects, sessions, held>>

\* The threads that sleep in MutexPrivate::Lock.
Blocked(m) == {t \in Threads : At(t, "blocked") /\ call[t].mutex = m}

\* The threads that sleep in HCondTimedwait.
Waiting(c) == {t \in Threads : At(t, "waiting") /\ call[t].cond = c}

\* The threads inside HCondTimedwait that have given the mutex up.
Parted(t, m) == call[t].mutex = m /\ (At(t, "gap") \/ At(t, "waiting") \/ call[t].ret # "none")

\* The call of a thread whose wait on a mutex, on a condition variable, ended.
Woken(t) == [call[t] EXCEPT !.at = "woken"]
Resumed(t, r) == [call[t] EXCEPT !.at = "lock", !.cond = None, !.ret = r]
Signalled(t) == Resumed(t, "ok")

\* A sleeper of either kind after a notification.
Awake(t) == IF At(t, "blocked") THEN Woken(t) ELSE Signalled(t)

\* notify_one: one sleeper, if there is one, wakes up; the rest is as `calls'.
NotifyOne(sleepers, calls) ==
  IF sleepers = {} THEN call' = calls
  ELSE \E w \in sleepers : call' = [calls EXCEPT ![w] = Awake(w)]

-----------------------------------------------------------------------------
(* Creating and destroying objects.                                        *)

\* NewTracked, and the handle written to the guest's slot.
Create(t, o) ==
  /\ At(t, "idle")
  /\ place[o] = "unborn"
  /\ place' = [place EXCEPT ![o] = "typed"]
  /\ born' = [born EXCEPT ![o] = session]

MutexInit(t, m) ==
  /\ Create(t, m)
  /\ \E k \in Kinds : kind' = [kind EXCEPT ![m] = k]
  /\ UNCHANGED <<owner, count, dead, call, sessions, held>>

CondInit(t, c) ==
  /\ Create(t, c)
  /\ UNCHANGED <<mutexes, dead, call, sessions, held>>

\* HMutexDestroy: `dead' is tested before and set under the lock.
MutexDestroy(t) ==
  LET m == call[t].mutex IN
  /\ At(t, "destroy")
  /\ dead' = IF count[m] # 0 THEN dead ELSE dead \cup {m}
  /\ Return(t)
  /\ UNCHANGED <<mutexes, place, born, sessions, held>>

CondDestroy(t, c) ==
  /\ At(t, "idle") /\ Valid(t, c)
  /\ dead' = dead \cup {c}
  /\ UNCHANGED <<mutexes, place, born, call, sessions, held>>

-----------------------------------------------------------------------------
(* MutexPrivate::Lock and Unlock.                                          *)

\* Lock under meta, for a new call and for a thread that woke up.  A wait on
\* a condition variable returns whatever Lock says.
LockStep(t) ==
  LET m == call[t].mutex
      parted == call[t].ret # "none" IN
  /\ At(t, "lock") \/ At(t, "woken")
  /\ \/ /\ count[m] # 0 /\ owner[m] # t
        /\ Goto(t, "blocked")
        /\ UNCHANGED <<mutexes, held>>
     \/ /\ count[m] # 0 /\ owner[m] = t /\ kind[m] # "recursive"
        /\ Return(t)
        /\ UNCHANGED <<mutexes, held>>
     \/ /\ count[m] = 0 \/ (owner[m] = t /\ kind[m] = "recursive")
        /\ owner' = [owner EXCEPT ![m] = t]
        /\ count' = [count EXCEPT ![m] = @ + 1]
        /\ held' = IF parted THEN held ELSE [held EXCEPT ![t][m] = @ + 1]
        /\ Return(t)
        /\ UNCHANGED kind
  /\ UNCHANGED <<objects, sessions>>

\* The wait on MutexPrivate::cv ends without a notification.
SpuriousWake(t) ==
  /\ At(t, "blocked")
  /\ Goto(t, "woken")
  /\ UNCHANGED <<mutexes, objects, sessions, held>>

MayUnlock(t, m) == count[m] # 0 /\ owner[m] = t

Released_KeepsOwner(m) ==
  /\ count' = [count EXCEPT ![m] = @ - 1]
  /\ UNCHANGED <<owner, kind>>

\* The mutex after an Unlock by its owner.
Released(m) ==
  /\ count' = [count EXCEPT ![m] = @ - 1]
  /\ owner' = [owner EXCEPT ![m] = IF count[m] = 1 THEN None ELSE @]
  /\ UNCHANGED kind

ToNotify_WhenStillHeld(m) == IF count[m] = 1 THEN {} ELSE Blocked(m)

\* Whom the Unlock notifies: only the last one does.
ToNotify(m) == IF count[m] = 1 THEN Blocked(m) ELSE {}

UnlockStep(t) ==
  LET m == call[t].mutex IN
  /\ At(t, "unlock")
  /\ IF MayUnlock(t, m)
     THEN /\ Released(m)
          /\ held' = [held EXCEPT ![t][m] = @ - 1]
          /\ NotifyOne(ToNotify(m), [call EXCEPT ![t] = Idle])
     ELSE Return(t) /\ UNCHANGED <<mutexes, held>>
  /\ UNCHANGED <<objects, sessions>>

-----------------------------------------------------------------------------
(* HCondTimedwait, HCondSignal and HCondBroadcast.                         *)

\* The wait gives the mutex up once, whatever its depth.  A timeout of zero
\* takes it back at once.
WaitUnlock(t) ==
  LET m == call[t].mutex IN
  /\ At(t, "wait")
  /\ IF MayUnlock(t, m)
     THEN /\ Released(m)
          /\ \E then \in {[call[t] EXCEPT !.at = "gap"], Resumed(t, "timedout")} :
               NotifyOne(ToNotify(m), [call EXCEPT ![t] = then])
     ELSE Return(t) /\ UNCHANGED mutexes
  /\ UNCHANGED <<objects, sessions, held>>

\* Lock waitM and sleep; a signal that comes before this step is not seen.
WaitSleep(t) ==
  /\ At(t, "gap")
  /\ Goto(t, "waiting")
  /\ UNCHANGED <<mutexes, objects, sessions, held>>

WaitTimeout_NoRelock(t) ==
  /\ At(t, "waiting")
  /\ Return(t)
  /\ UNCHANGED <<mutexes, objects, sessions, held>>

\* wait_until returns at the deadline, or early without a notification.
WaitTimeout(t) ==
  /\ At(t, "waiting")
  /\ \E r \in {"timedout", "ok"} : call' = [call EXCEPT ![t] = Resumed(t, r)]
  /\ UNCHANGED <<mutexes, objects, sessions, held>>

Signal(t) ==
  /\ At(t, "signal")
  /\ NotifyOne(Waiting(call[t].cond), [call EXCEPT ![t] = Idle])
  /\ UNCHANGED <<mutexes, objects, sessions, held>>

Broadcast(t) ==
  /\ At(t, "broadcast")
  /\ call' = [w \in Threads |-> IF w = t THEN Idle
                                ELSE IF w \in Waiting(call[t].cond) THEN Signalled(w)
                                ELSE call[w]]
  /\ UNCHANGED <<mutexes, objects, sessions, held>>

-----------------------------------------------------------------------------
(* PthreadHle::ResetForSession, as far as it concerns these objects.       *)

ResetSwap_NoGraveyard ==
  /\ session < MaxSession /\ condemned = {}
  /\ session' = session + 1
  /\ condemned' = {o \in Objects : place[o] \in {"typed", "grave"}}
  /\ UNCHANGED <<mutexes, dead, place, born, call, era, held>>

\* Today's objects sleep in the graveyard; the previous graveyard goes.
ResetSwap ==
  /\ session < MaxSession /\ condemned = {}
  /\ session' = session + 1
  /\ condemned' = {o \in Objects : place[o] = "grave"}
  /\ place' = [o \in Objects |-> IF place[o] = "typed" THEN "grave" ELSE place[o]]
  /\ UNCHANGED <<mutexes, dead, born, call, era, held>>

\* The deleters run after g_regMutex is released.
ResetDelete ==
  /\ condemned # {}
  /\ \E o \in condemned :
       /\ condemned' = condemned \ {o}
       /\ place' = [place EXCEPT ![o] = "gone"]
  /\ UNCHANGED <<mutexes, dead, born, call, era, session, held>>

\* Guest code of an old session has ended and its host thread runs code of
\* the present one.  Code that ends has unlocked what it locked.
NewBody(t) ==
  /\ At(t, "idle")
  /\ era[t] < session
  /\ \A m \in Mutexes : held[t][m] = 0
  /\ era' = [era EXCEPT ![t] = session]
  /\ UNCHANGED <<mutexes, objects, call, session, condemned, held>>

-----------------------------------------------------------------------------

\* A call that holds a pointer to a deleted object is about to touch it.
UseAfterFree ==
  \E t \in Threads : \E o \in {call[t].mutex, call[t].cond} \ {None} : place[o] = "gone"

\* The calls the guest makes.  MaxDepth bounds how deep it locks.
Begin(t) ==
  \/ \E m \in Mutexes : MutexInit(t, m)
  \/ \E c \in Conds : CondInit(t, c) \/ CondDestroy(t, c)
  \/ \E m \in Mutexes :
       /\ Valid(t, m)
       /\ \/ held[t][m] < MaxDepth /\ Enter(t, "lock", m, None)
          \/ Enter(t, "unlock", m, None)
          \/ Enter(t, "destroy", m, None)
          \/ \E c \in Conds : Valid(t, c) /\ Enter(t, "wait", m, c)
  \/ \E c \in Conds :
       Valid(t, c) /\ (Enter(t, "signal", None, c) \/ Enter(t, "broadcast", None, c))

\* The steps of a call that nothing holds up.
Continue(t) ==
  \/ LockStep(t) \/ UnlockStep(t) \/ MutexDestroy(t)
  \/ WaitUnlock(t) \/ WaitSleep(t) \/ WaitTimeout(t)
  \/ Signal(t) \/ Broadcast(t)

Next ==
  /\ ~UseAfterFree
  /\ \/ \E t \in Threads : Begin(t) \/ Continue(t) \/ SpuriousWake(t) \/ NewBody(t)
     \/ ResetSwap \/ ResetDelete

Spec == Init /\ [][Next]_vars

\* The host scheduler lets a thread that can run go on, and a deadline passes.
FairSpec == Spec /\ \A t \in Threads : WF_vars(~UseAfterFree /\ Continue(t))

-----------------------------------------------------------------------------
(* Properties.                                                             *)

CallRec ==
  [at : {"idle", "lock", "blocked", "woken", "unlock", "destroy",
         "wait", "gap", "waiting", "signal", "broadcast"},
   mutex : Mutexes \cup {None}, cond : Conds \cup {None}, ret : {"none", "ok", "timedout"}]

\* The type of every variable; a mutex has an owner exactly while its count
\* is positive, and only a pending wait remembers a result.
TypeOK ==
  /\ kind \in [Mutexes -> Kinds \cup {"errorcheck"}]
  /\ owner \in [Mutexes -> Threads \cup {None}]
  /\ count \in [Mutexes -> Nat]
  /\ \A m \in Mutexes : count[m] = 0 <=> owner[m] = None
  /\ dead \subseteq Objects
  /\ place \in [Objects -> {"unborn", "typed", "grave", "gone"}]
  /\ born \in [Objects -> Nat]
  /\ call \in [Threads -> CallRec]
  /\ era \in [Threads -> Nat]
  /\ session \in Nat
  /\ condemned \subseteq Objects
  /\ held \in [Threads -> [Mutexes -> Nat]]

\* What the return codes told the guest is what the mutex records: a thread
\* holds a mutex as often as its successful locks and unlocks say, and a wait
\* that has given it up once takes it back once before it returns.  With one
\* owner per mutex this is mutual exclusion (MutexPrivate, HCondTimedwait).
HeldIsOwned ==
  \A t \in Threads, m \in Mutexes :
    held[t][m] = (IF owner[m] = t THEN count[m] ELSE 0) + (IF Parted(t, m) THEN 1 ELSE 0)

\* While a mutex is free and threads sleep in Lock, one of them has been woken
\* and will look again: the notification of MutexPrivate::Unlock is not lost
\* to a thread that comes in between.
NoLostUnlock ==
  \A m \in Mutexes :
    count[m] = 0 /\ Blocked(m) # {} => \E t \in Threads : At(t, "woken") /\ call[t].mutex = m

\* Guest code that a teardown gave up on finds its mutexes and condition
\* variables alive until the next teardown (g_graveyard).
OneSessionGrace ==
  \A t \in Threads : \A o \in {call[t].mutex, call[t].cond} \ {None} :
    place[o] = "gone" => era[t] + 2 <= session

=============================================================================
