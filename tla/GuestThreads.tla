---------------------------- MODULE GuestThreads ----------------------------
(***************************************************************************)
(* Lifetime of guest threads in kernel/pthread_hle.cpp: scePthreadCreate,  *)
(* Join, Detach, Exit, AttrGet and Self, the thread body, the reaper of    *)
(* detached threads and the session teardown.                              *)
(*                                                                         *)
(* A GuestThread object is an element of Threads; its handle is the object *)
(* itself.  An object is allocated at most once, so an element of Threads  *)
(* is one incarnation of an object.  The actors are the main guest thread  *)
(* and the host threads that run the bodies of the objects.  One step is   *)
(* one critical section or one access to an atomic.                        *)
(*                                                                         *)
(* A step that reads or writes a deleted object has undefined behaviour,   *)
(* and so have two that use the slot table at once.  The model records     *)
(* where this happened in `fault' and stops there.                         *)
(***************************************************************************)
EXTENDS Naturals, FiniteSets

CONSTANTS
  Threads,   \* GuestThread objects: a bound on how many are ever allocated
  Main,      \* the host thread that runs the main guest thread
  Slots,     \* the stack/TLS slots of the zone (kMaxSlots of them)
  None,      \* the null pointer
  MainOps,   \* the calls the main guest thread makes
  BodyOps    \* the calls the created guest threads make

OpNames == {"create", "createDetached", "createBadSlot", "join", "joinBadOut",
            "detach", "attrGet", "exit", "self", "reset"}

Actors == Threads \cup {Main}

ASSUME ConstantsOK ==
  /\ IsFiniteSet(Threads)
  /\ Main \notin Threads
  /\ None \notin Actors \cup Slots
  /\ MainOps \subseteq OpNames
  /\ BodyOps \subseteq OpNames \ {"reset"}

VARIABLES
  obj,        \* the fields of every GuestThread object
  body,       \* where the host thread of an object is in ThreadBody
  host,       \* the std::thread member of an object
  live,       \* g_live, the registry of valid handles
  zombies,    \* g_zombies, the reaper's queue
  leaked,     \* g_leaked, the objects given up at a reset
  slotInUse,  \* g_slotInUse
  resetting,  \* g_resetting
  mainThread, \* g_mainThread
  handles,    \* the handles Create and Self have given to the guest
  call,       \* the call in progress of every actor
  reset,      \* progress of ResetForSession
  fault       \* the place of the first undefined behaviour

threads  == <<body, host>>
registry == <<live, zombies, leaked, slotInUse>>
session  == <<resetting, mainThread, reset>>
history  == <<handles, fault>>
vars     == <<obj, call, threads, registry, session, history>>

\* Most steps of a call change the object and the call only.
RestUnchanged == UNCHANGED <<threads, registry, session, history>>

-----------------------------------------------------------------------------
(* Objects and calls.                                                      *)

Unallocated ==
  [st |-> "none", uses |-> 0, zombieQueued |-> FALSE, dead |-> FALSE,
   exited |-> FALSE, detached |-> FALSE, joined |-> FALSE,
   sessionDead |-> FALSE, slot |-> None, m |-> None]

\* `new GuestThread()' for Create, and for the lazy main-thread object.
NewThread(s, det) ==
  [Unallocated EXCEPT !.st = "alloc", !.slot = s, !.detached = det]

Allocated(t) == obj[t].st = "alloc"
Freed(t)     == obj[t].st = "freed"

BodyDone_BeforePush(t) == body[t] \in {"push", "last", "done"}

\* bodyDone is stored by the very last step of ThreadBody.
BodyDone(t) == body[t] = "done"

Idle == [pc |-> "idle", t |-> None, victim |-> None,
         mode |-> "none", batch |-> {}, keep |-> {}]

\* After undefined behaviour nothing more can be said.
Running      == fault = "none"
At(a, p)     == Running /\ call[a].pc = p
Obj(a)       == call[a].t
Goto(a, p)   == call' = [call EXCEPT ![a].pc = p]
Return(a)    == call' = [call EXCEPT ![a] = Idle]

\* An actor can call the surface between two calls, from guest code only.
\* ResetForSession is a call of Main.
CanCall(a, op) ==
  /\ op \in IF a = Main THEN MainOps ELSE BodyOps
  /\ At(a, "idle")
  /\ a \in Threads => body[a] = "guest"
  /\ a = Main => reset.phase = "idle"

\* g_regMutex is held over several steps only while the reset reclaims.
RegFree == reset.phase # "reclaim"

\* The thread's own mutex is held over several steps only by a call that
\* ends its use inside the critical section.
MFree(t) == obj[t].m = None

Self(a) == IF a = Main THEN mainThread ELSE a

\* The handles an actor can name: those it was given, and its own (the TCB
\* carries the handle of the thread it belongs to).
Known(a) == handles \cup ({a} \cap Threads)

-----------------------------------------------------------------------------
Init ==
  /\ obj = [t \in Threads |-> Unallocated]
  /\ body = [t \in Threads |-> "none"]
  /\ host = [t \in Threads |-> "none"]
  /\ live = {}
  /\ zombies = {}
  /\ leaked = {}
  /\ slotInUse = {}
  /\ resetting = FALSE
  /\ mainThread = None
  /\ handles = {}
  /\ call = [a \in Actors |-> Idle]
  /\ reset = [phase |-> "idle", coll |-> {}, todo |-> {}, main |-> None]
  /\ fault = "none"

-----------------------------------------------------------------------------
(* CurrentGuestOrMain: Main's object appears at its first use.             *)

MaterializeMain(a) ==
  IF a = Main /\ mainThread = None
  THEN /\ RegFree
       /\ \E t \in Threads :
            /\ obj[t].st = "none"
            /\ obj' = [obj EXCEPT ![t] = NewThread(None, FALSE)]
            /\ live' = live \cup {t}
            /\ mainThread' = t
  ELSE UNCHANGED <<obj, live, mainThread>>

SelfCall(a) ==
  /\ CanCall(a, "self")
  /\ MaterializeMain(a)
  /\ handles' = handles \cup {Self(a)'}
  /\ UNCHANGED <<call, threads, zombies, leaked, slotInUse, resetting, reset,
                 fault>>

-----------------------------------------------------------------------------
(* Handle uses: UseBegin, FinishDelete and UseEnd.                         *)

\* A stale handle is refused and the call returns EINVAL at once.
UseBegin(a, t, p, mode) ==
  /\ RegFree
  /\ t \in live
  /\ obj' = [obj EXCEPT ![t].uses = @ + 1]
  /\ call' = [call EXCEPT ![a] = [Idle EXCEPT !.pc = p, !.t = t, !.mode = mode]]
  /\ RestUnchanged

\* FinishDelete joins the finished host thread, frees the slot and deletes the
\* object.  It does not take g_regMutex, which everyone else holds who uses
\* g_slotInUse: what happens when they meet is SlotRace, below.
FinishDelete(t) ==
  /\ host[t] = "joinable" => BodyDone(t)
  /\ host' = [host EXCEPT ![t] = IF @ = "joinable" THEN "joined" ELSE @]
  /\ slotInUse' = slotInUse \ {obj[t].slot}
  /\ obj' = [obj EXCEPT ![t].st = "freed", ![t].slot = None]

\* Where a call goes when its UseEnd has returned without deleting.
Leave(a) ==
  IF obj[Obj(a)].m = a THEN Goto(a, "unlock") ELSE Return(a)

UseSub(a) ==
  /\ At(a, "u_sub")
  /\ Allocated(Obj(a))
  /\ obj' = [obj EXCEPT ![Obj(a)].uses = @ - 1]
  /\ IF obj[Obj(a)].uses = 1 THEN Goto(a, "u_zombie") ELSE Leave(a)
  /\ RestUnchanged

UseZombie(a) ==
  /\ At(a, "u_zombie")
  /\ Allocated(Obj(a))
  /\ IF obj[Obj(a)].zombieQueued THEN Leave(a) ELSE Goto(a, "u_done")
  /\ RestUnchanged /\ UNCHANGED obj

UseDone(a) ==
  /\ At(a, "u_done")
  /\ Allocated(Obj(a))
  /\ IF BodyDone(Obj(a)) THEN Goto(a, "u_live") ELSE Leave(a)
  /\ RestUnchanged /\ UNCHANGED obj

UseLive_NoCheck(a) ==
  /\ At(a, "u_live") /\ RegFree
  /\ Goto(a, "u_dead")
  /\ RestUnchanged /\ UNCHANGED obj

\* The registry is asked about the pointer only: the object is not touched.
UseLive(a) ==
  /\ At(a, "u_live")
  /\ RegFree
  /\ IF Obj(a) \in live THEN Leave(a) ELSE Goto(a, "u_dead")
  /\ RestUnchanged /\ UNCHANGED obj

UseDead_NoExchange(a) ==
  /\ At(a, "u_dead") /\ Allocated(Obj(a))
  /\ Goto(a, "u_delete")
  /\ RestUnchanged /\ UNCHANGED obj

UseDead(a) ==
  /\ At(a, "u_dead")
  /\ Allocated(Obj(a))
  /\ obj' = [obj EXCEPT ![Obj(a)].dead = TRUE]
  /\ IF obj[Obj(a)].dead THEN Leave(a) ELSE Goto(a, "u_delete")
  /\ RestUnchanged

UseDelete(a) ==
  /\ At(a, "u_delete")
  /\ Allocated(Obj(a))
  /\ FinishDelete(Obj(a))
  /\ Leave(a)
  /\ UNCHANGED <<body, live, zombies, leaked, session, history>>

\* The scope of the unique_lock or lock_guard on t->m ends after UseEnd.
Unlock(a) ==
  /\ At(a, "unlock")
  /\ Allocated(Obj(a))
  /\ obj' = [obj EXCEPT ![Obj(a)].m = None]
  /\ Return(a)
  /\ RestUnchanged

UseEnd(a) ==
  \/ UseSub(a) \/ UseZombie(a) \/ UseDone(a) \/ UseLive(a)
  \/ UseDead(a) \/ UseDelete(a) \/ Unlock(a)

-----------------------------------------------------------------------------
(* HCreate.                                                                *)

\* A create while g_resetting is set is refused and changes nothing.
CreateCheck(a, mode) ==
  /\ CanCall(a, mode)
  /\ ~resetting
  /\ \E t \in Threads : obj[t].st = "none"
  /\ call' = [call EXCEPT ![a] = [Idle EXCEPT !.pc = "c_slot", !.mode = mode]]
  /\ RestUnchanged /\ UNCHANGED obj

FreeSlots == Slots \ slotInUse

\* AllocSlot refuses (ENOMEM) when every slot of the zone is in use.
CreateSlot(a) ==
  /\ At(a, "c_slot")
  /\ RegFree
  /\ IF slotInUse = Slots
     THEN Return(a) /\ UNCHANGED <<obj, slotInUse>>
     ELSE \E s \in FreeSlots, t \in Threads :
            /\ obj[t].st = "none"
            /\ slotInUse' = slotInUse \cup {s}
            /\ obj' = [obj EXCEPT ![t] =
                         NewThread(s, call[a].mode = "createDetached")]
            /\ call' = [call EXCEPT ![a].pc = "c_insert", ![a].t = t]
  /\ UNCHANGED <<threads, live, zombies, leaked, session, history>>

CreateInsert(a) ==
  /\ At(a, "c_insert")
  /\ RegFree
  /\ live' = live \cup {Obj(a)}
  /\ Goto(a, "c_tcb")
  /\ UNCHANGED <<obj, threads, zombies, leaked, slotInUse, session, history>>

\* BuildThreadTcb and WriteSlotHandle: the guest learns the handle before
\* the host thread exists.
CreateTcb(a) ==
  /\ At(a, "c_tcb")
  /\ Allocated(Obj(a))
  /\ IF call[a].mode = "createBadSlot"
     THEN Goto(a, "c_undo") /\ UNCHANGED handles
     ELSE Goto(a, "c_start") /\ handles' = handles \cup {Obj(a)}
  /\ UNCHANGED <<obj, threads, registry, session, fault>>

CreateUndo_KeepsHandle(a) ==
  /\ At(a, "c_undo") /\ RegFree
  /\ Goto(a, "c_free")
  /\ RestUnchanged /\ UNCHANGED obj

CreateUndo(a) ==
  /\ At(a, "c_undo")
  /\ RegFree
  /\ live' = live \ {Obj(a)}
  /\ Goto(a, "c_free")
  /\ UNCHANGED <<obj, threads, zombies, leaked, slotInUse, session, history>>

CreateFree_LeaksSlot(a) ==
  /\ At(a, "c_free") /\ RegFree /\ Allocated(Obj(a))
  /\ obj' = [obj EXCEPT ![Obj(a)].st = "freed", ![Obj(a)].slot = None,
                        ![Obj(a)].dead = TRUE]
  /\ Return(a)
  /\ RestUnchanged

\* dead is stored, FreeSlot takes g_regMutex, and the object is deleted.
CreateFree(a) ==
  /\ At(a, "c_free")
  /\ RegFree
  /\ Allocated(Obj(a))
  /\ slotInUse' = slotInUse \ {obj[Obj(a)].slot}
  /\ obj' = [obj EXCEPT ![Obj(a)].st = "freed", ![Obj(a)].slot = None,
                        ![Obj(a)].dead = TRUE]
  /\ Return(a)
  /\ UNCHANGED <<threads, live, zombies, leaked, session, history>>

\* The constructor of std::thread starts the body ...
CreateStart(a) ==
  /\ At(a, "c_start")
  /\ Allocated(Obj(a))
  /\ body' = [body EXCEPT ![Obj(a)] = "guest"]
  /\ Goto(a, "c_assign")
  /\ UNCHANGED <<obj, host, registry, session, history>>

\* ... and the result is moved into t->host afterwards.
CreateAssign(a) ==
  /\ At(a, "c_assign")
  /\ Allocated(Obj(a))
  /\ host' = [host EXCEPT ![Obj(a)] = "joinable"]
  /\ Goto(a, "r_swap")
  /\ UNCHANGED <<obj, body, registry, session, history>>

\* The closing log line reads t->id and t->name.
CreateLog(a) ==
  /\ At(a, "c_log")
  /\ Allocated(Obj(a))
  /\ Return(a)
  /\ RestUnchanged /\ UNCHANGED obj

-----------------------------------------------------------------------------
(* ReapDetached, called at the end of HCreate.                             *)

ReapSwap(a) ==
  /\ At(a, "r_swap")
  /\ zombies' = {}
  /\ call' = [call EXCEPT ![a].batch = zombies,
                          ![a].pc = IF zombies = {} THEN "c_log" ELSE "r_visit"]
  /\ UNCHANGED <<obj, threads, live, leaked, slotInUse, session, history>>

Reapable(t) == obj[t].uses = 0 /\ BodyDone(t) /\ ~obj[t].dead

\* The handle becomes invalid; the object is claimed unless a user holds it
\* or its body is still on its way out.
ReapVisit(a) ==
  /\ At(a, "r_visit")
  /\ RegFree
  /\ \E t \in call[a].batch :
       /\ Allocated(t)
       /\ live' = live \ {t}
       /\ IF Reapable(t)
          THEN /\ obj' = [obj EXCEPT ![t].dead = TRUE]
               /\ call' = [call EXCEPT ![a].batch = @ \ {t}, ![a].victim = t,
                                       ![a].pc = "r_delete"]
          ELSE /\ UNCHANGED obj
               /\ call' = [call EXCEPT
                             ![a].batch = @ \ {t}, ![a].keep = @ \cup {t},
                             ![a].pc = IF call[a].batch = {t} THEN "r_back"
                                                              ELSE "r_visit"]
  /\ UNCHANGED <<threads, zombies, leaked, slotInUse, session, history>>

ReapDelete(a) ==
  /\ At(a, "r_delete")
  /\ Allocated(call[a].victim)
  /\ FinishDelete(call[a].victim)
  /\ call' = [call EXCEPT ![a].victim = None,
                          ![a].pc = IF call[a].batch = {} THEN "r_back"
                                                          ELSE "r_visit"]
  /\ UNCHANGED <<body, live, zombies, leaked, session, history>>

\* What could not be deleted goes back, whether or not a reset is running.
ReapBack(a) ==
  /\ At(a, "r_back")
  /\ zombies' = zombies \cup call[a].keep
  /\ call' = [call EXCEPT ![a].keep = {}, ![a].pc = "c_log"]
  /\ UNCHANGED <<obj, threads, live, leaked, slotInUse, session, history>>

CreateBegin(a) ==
  \E mode \in {"create", "createDetached", "createBadSlot"} :
    CreateCheck(a, mode)

CreateContinue(a) ==
  \/ CreateSlot(a) \/ CreateInsert(a) \/ CreateTcb(a) \/ CreateUndo(a)
  \/ CreateFree(a) \/ CreateStart(a) \/ CreateAssign(a) \/ CreateLog(a)

Reap(a) == ReapSwap(a) \/ ReapVisit(a) \/ ReapDelete(a) \/ ReapBack(a)

-----------------------------------------------------------------------------
(* HJoin.                                                                  *)

JoinBegin(a) ==
  \E mode \in {"join", "joinBadOut"} :
    /\ CanCall(a, mode)
    /\ \E t \in Known(a) : UseBegin(a, t, "j_self", mode)

JoinSelf_ForgetsUse(a) ==
  /\ At(a, "j_self")
  /\ MaterializeMain(a)
  /\ IF Self(a)' = Obj(a) THEN Return(a) ELSE Goto(a, "j_lock")
  /\ UNCHANGED <<threads, zombies, leaked, slotInUse, resetting, reset, history>>

\* A thread that joins itself, Main included, gets EDEADLK.
JoinSelf(a) ==
  /\ At(a, "j_self")
  /\ MaterializeMain(a)
  /\ Goto(a, IF Self(a)' = Obj(a) THEN "u_sub" ELSE "j_lock")
  /\ UNCHANGED <<threads, zombies, leaked, slotInUse, resetting, reset, history>>

\* An already joined handle is refused; the use ends under t->m.
JoinLock(a) ==
  LET t == Obj(a) IN
  /\ At(a, "j_lock")
  /\ Allocated(t) /\ MFree(t)
  /\ IF obj[t].joined
     THEN obj' = [obj EXCEPT ![t].m = a] /\ Goto(a, "u_sub")
     ELSE UNCHANGED obj /\ Goto(a, "j_wait")
  /\ RestUnchanged

JoinWake_TakesDetached(a) ==
  LET t == Obj(a) IN
  /\ At(a, "j_wait") /\ Allocated(t) /\ MFree(t) /\ obj[t].exited
  /\ obj' = [obj EXCEPT ![t].joined = TRUE]
  /\ Goto(a, "j_host")
  /\ RestUnchanged

\* The wait on t->cv ends when the thread has exited or the session died.
\* `joined' is not read again after the wait.
JoinWake(a) ==
  LET t == Obj(a) IN
  /\ At(a, "j_wait")
  /\ Allocated(t) /\ MFree(t)
  /\ obj[t].exited \/ obj[t].sessionDead
  /\ IF obj[t].exited /\ ~obj[t].detached
     THEN /\ obj' = [obj EXCEPT ![t].joined = TRUE,
                       ![t].m = IF call[a].mode = "joinBadOut" THEN a ELSE None]
          /\ Goto(a, IF call[a].mode = "joinBadOut" THEN "u_sub" ELSE "j_host")
     ELSE obj' = [obj EXCEPT ![t].m = a] /\ Goto(a, "u_sub")
  /\ RestUnchanged

JoinHost_Skips(a) ==
  /\ At(a, "j_host") /\ Allocated(Obj(a))
  /\ Goto(a, "j_erase")
  /\ RestUnchanged /\ UNCHANGED obj

\* Two calls that are both inside std::thread::join have undefined behaviour.
JoinHost(a) ==
  LET t == Obj(a) IN
  /\ At(a, "j_host")
  /\ Allocated(t)
  /\ IF host[t] # "joinable"
     THEN Goto(a, "j_erase") /\ UNCHANGED fault
     ELSE IF \E b \in Actors \ {a} : At(b, "j_hostwait") /\ Obj(b) = t
          THEN fault' = "double_join" /\ UNCHANGED call
          ELSE Goto(a, "j_hostwait") /\ UNCHANGED fault
  /\ UNCHANGED <<obj, threads, registry, session, handles>>

JoinHostWait(a) ==
  /\ At(a, "j_hostwait")
  /\ Allocated(Obj(a))
  /\ BodyDone(Obj(a))
  /\ host' = [host EXCEPT ![Obj(a)] = "joined"]
  /\ Goto(a, "j_erase")
  /\ UNCHANGED <<obj, body, registry, session, history>>

JoinErase(a) ==
  /\ At(a, "j_erase")
  /\ RegFree
  /\ live' = live \ {Obj(a)}
  /\ Goto(a, "j_log")
  /\ UNCHANGED <<obj, threads, zombies, leaked, slotInUse, session, handles, fault>>

\* The log line reads the object once more.
JoinLog(a) ==
  /\ At(a, "j_log")
  /\ Allocated(Obj(a))
  /\ Goto(a, "u_sub")
  /\ RestUnchanged /\ UNCHANGED obj

JoinContinue(a) ==
  \/ JoinSelf(a) \/ JoinLock(a) \/ JoinWake(a) \/ JoinHost(a)
  \/ JoinHostWait(a) \/ JoinErase(a) \/ JoinLog(a)

-----------------------------------------------------------------------------
(* HDetach (with QueueZombie), HAttrGet and HExit.                         *)

DetachBegin(a) ==
  /\ CanCall(a, "detach")
  /\ \E t \in Known(a) : UseBegin(a, t, "d_lock", "detach")

DetachLock(a) ==
  LET t == Obj(a) IN
  /\ At(a, "d_lock")
  /\ Allocated(t) /\ MFree(t)
  /\ IF obj[t].joined
     THEN obj' = [obj EXCEPT ![t].m = a] /\ Goto(a, "u_sub")
     ELSE /\ obj' = [obj EXCEPT ![t].detached = TRUE]
          /\ Goto(a, IF obj[t].exited THEN "q_flag" ELSE "u_sub")
  /\ RestUnchanged

QueueFlag(a) ==
  /\ At(a, "q_flag")
  /\ Allocated(Obj(a))
  /\ obj' = [obj EXCEPT ![Obj(a)].zombieQueued = TRUE]
  /\ Goto(a, IF obj[Obj(a)].zombieQueued THEN "u_sub" ELSE "q_push")
  /\ RestUnchanged

\* A push while a reset runs is dropped: the reset owns the object.
QueuePush(a) ==
  /\ At(a, "q_push")
  /\ zombies' = IF resetting THEN zombies ELSE zombies \cup {Obj(a)}
  /\ Goto(a, "u_sub")
  /\ UNCHANGED <<obj, threads, live, leaked, slotInUse, session, history>>

AttrGetBegin(a) ==
  /\ CanCall(a, "attrGet")
  /\ \E t \in Known(a) : UseBegin(a, t, "g_lock", "attrGet")

AttrGetLock(a) ==
  /\ At(a, "g_lock")
  /\ Allocated(Obj(a)) /\ MFree(Obj(a))
  /\ Goto(a, "u_sub")
  /\ RestUnchanged /\ UNCHANGED obj

ExitBegin(a) ==
  /\ CanCall(a, "exit")
  /\ MaterializeMain(a)
  /\ call' = [call EXCEPT ![a] = [Idle EXCEPT !.pc = "e_lock", !.t = Self(a)']]
  /\ UNCHANGED <<threads, zombies, leaked, slotInUse, resetting, reset, history>>

\* Exit records that the thread has exited and returns to the guest.  The
\* exit value itself is left out.
ExitLock(a) ==
  LET t == Obj(a) IN
  /\ At(a, "e_lock")
  /\ Allocated(t) /\ MFree(t)
  /\ obj' = [obj EXCEPT ![t].exited = TRUE]
  /\ Return(a)
  /\ RestUnchanged

DetachContinue(a) == DetachLock(a) \/ QueueFlag(a) \/ QueuePush(a)

-----------------------------------------------------------------------------
(* ThreadBody.                                                             *)

BodyAt(t, p) == Running /\ body[t] = p

BodyReturn_NoExit(t) ==
  /\ BodyAt(t, "guest") /\ At(t, "idle") /\ Allocated(t) /\ MFree(t)
  /\ body' = [body EXCEPT ![t] = IF obj[t].detached THEN "flag" ELSE "last"]
  /\ UNCHANGED <<obj, call, host, registry, session, history>>

\* The launcher returns, whether or not the guest has called Exit.
BodyReturn(t) ==
  /\ BodyAt(t, "guest")
  /\ At(t, "idle")
  /\ Allocated(t) /\ MFree(t)
  /\ obj' = [obj EXCEPT ![t].exited = TRUE]
  /\ body' = [body EXCEPT ![t] = IF obj[t].detached THEN "flag" ELSE "last"]
  /\ UNCHANGED <<call, host, registry, session, history>>

BodyFlag(t) ==
  /\ BodyAt(t, "flag")
  /\ Allocated(t)
  /\ obj' = [obj EXCEPT ![t].zombieQueued = TRUE]
  /\ body' = [body EXCEPT ![t] = IF obj[t].zombieQueued THEN "last" ELSE "push"]
  /\ UNCHANGED <<call, host, registry, session, history>>

BodyPush(t) ==
  /\ BodyAt(t, "push")
  /\ zombies' = IF resetting THEN zombies ELSE zombies \cup {t}
  /\ body' = [body EXCEPT ![t] = "last"]
  /\ UNCHANGED <<obj, call, host, live, leaked, slotInUse, session, history>>

BodyLast(t) ==
  /\ BodyAt(t, "last")
  /\ Allocated(t)
  /\ body' = [body EXCEPT ![t] = "done"]
  /\ UNCHANGED <<obj, call, host, registry, session, history>>

\* What the host thread still does once the guest code is over.
BodyEnd(t) == BodyFlag(t) \/ BodyPush(t) \/ BodyLast(t)

-----------------------------------------------------------------------------
(* ResetForSession.  reset.coll is the vector `all': an object that is     *)
(* listed by the queue and by the registry is in it twice.                 *)

ResetAt(p) == Running /\ reset.phase = p

ResetBegin ==
  /\ CanCall(Main, "reset")
  /\ resetting' = TRUE
  /\ reset' = [reset EXCEPT !.phase = "zombies"]
  /\ UNCHANGED <<obj, call, threads, registry, mainThread, history>>

ResetZombies ==
  /\ ResetAt("zombies")
  /\ reset' = [reset EXCEPT !.coll = zombies \X {"zombie"}, !.phase = "live"]
  /\ zombies' = {}
  /\ UNCHANGED <<obj, call, threads, live, leaked, slotInUse, resetting, mainThread, history>>

ResetLive_Skipped ==
  /\ ResetAt("live")
  /\ reset' = [reset EXCEPT !.phase = "wake", !.todo = reset.coll]
  /\ UNCHANGED <<obj, call, threads, registry, resetting, mainThread, history>>

ResetLive ==
  /\ ResetAt("live")
  /\ LET all == reset.coll \cup (live \X {"live"}) IN
       reset' = [phase |-> "wake", coll |-> all, todo |-> all,
                 main |-> mainThread]
  /\ live' = {}
  /\ UNCHANGED <<obj, call, threads, zombies, leaked, slotInUse, resetting, mainThread, history>>

\* The three loops over `all' go through the objects one by one.
ResetNext(p) ==
  /\ reset.todo = {}
  /\ reset' = [reset EXCEPT !.phase = p, !.todo = reset.coll]
  /\ UNCHANGED <<obj, call, threads, registry, resetting, mainThread, history>>

ResetWake ==
  /\ ResetAt("wake")
  /\ \/ \E e \in reset.todo :
          /\ Allocated(e[1]) /\ MFree(e[1])
          /\ obj' = [obj EXCEPT ![e[1]].sessionDead = TRUE]
          /\ reset' = [reset EXCEPT !.todo = @ \ {e}]
          /\ UNCHANGED <<call, threads, registry, resetting, mainThread, history>>
     \/ ResetNext("grace")

ResetGrace_WaitsForever ==
  /\ ResetAt("grace")
  /\ \/ \E e \in reset.todo :
          /\ Allocated(e[1]) /\ BodyDone(e[1])
          /\ reset' = [reset EXCEPT !.todo = @ \ {e}]
          /\ UNCHANGED <<obj, call, threads, registry, resetting, mainThread, history>>
     \/ ResetNext("reclaim")

\* Every object gets up to one second to finish its body; what it finds at
\* the end of that time is not used.
ResetGrace ==
  /\ ResetAt("grace")
  /\ \/ \E e \in reset.todo :
          /\ Allocated(e[1])
          /\ reset' = [reset EXCEPT !.todo = @ \ {e}]
          /\ UNCHANGED <<obj, call, threads, registry, resetting, mainThread, history>>
     \/ ResetNext("reclaim")

\* The main thread's "body" is the caller itself.
ResetDeletable(t) ==
  (t = reset.main \/ BodyDone(t)) /\ obj[t].uses = 0 /\ ~obj[t].dead

ResetReclaim ==
  /\ ResetAt("reclaim")
  /\ \E e \in reset.todo :
       LET t == e[1] IN
       /\ Allocated(t)
       /\ IF ResetDeletable(t)
          THEN /\ obj' = [obj EXCEPT ![t].st = "freed", ![t].dead = TRUE,
                                     ![t].slot = None]
               /\ host' = [host EXCEPT
                             ![t] = IF @ = "joinable" THEN "joined" ELSE @]
               /\ slotInUse' = slotInUse \ {obj[t].slot}
               /\ UNCHANGED leaked
          ELSE /\ leaked' = leaked \cup {t}
               /\ UNCHANGED <<obj, host, slotInUse>>
       /\ reset' = [reset EXCEPT !.todo = @ \ {e}]
  /\ UNCHANGED <<call, body, live, zombies, resetting, mainThread, history>>

\* Every slot is declared free, those of the leaked bodies too.
ResetClear ==
  /\ ResetAt("reclaim")
  /\ reset.todo = {}
  /\ slotInUse' = {}
  /\ reset' = [reset EXCEPT !.phase = "release", !.coll = {}, !.main = None]
  /\ UNCHANGED <<obj, call, threads, live, zombies, leaked, resetting, mainThread, history>>

ResetRelease ==
  /\ ResetAt("release")
  /\ mainThread' = None
  /\ resetting' = FALSE
  /\ reset' = [reset EXCEPT !.phase = "idle"]
  /\ UNCHANGED <<obj, call, threads, registry, history>>

ResetContinue ==
  \/ ResetZombies \/ ResetLive \/ ResetWake \/ ResetGrace
  \/ ResetReclaim \/ ResetClear \/ ResetRelease

-----------------------------------------------------------------------------
(* Undefined behaviour.                                                    *)

\* The places of a call that are about to read or write *t.
Touching == {"u_sub", "u_zombie", "u_done", "u_dead", "u_delete", "unlock",
             "c_tcb", "c_free", "c_start", "c_assign", "c_log",
             "j_lock", "j_wait", "j_host", "j_hostwait", "j_log",
             "d_lock", "q_flag", "g_lock", "e_lock"}

\* What an actor, the reset or a body is about to touch.
CallTouches(a) ==
  IF call[a].pc \in Touching THEN {Obj(a)}
  ELSE IF At(a, "r_visit") THEN call[a].batch
  ELSE {call[a].victim} \ {None}

ResetTouches ==
  IF reset.phase \in {"wake", "grace", "reclaim"}
  THEN {e[1] : e \in reset.todo} ELSE {}

UseAfterFree ==
  /\ Running
  /\ \/ \E a \in Actors : /\ \E t \in CallTouches(a) : Freed(t)
                          /\ fault' = call[a].pc
     \/ /\ \E t \in ResetTouches : Freed(t)
        /\ fault' = "reset"
     \/ /\ \E t \in Threads : Freed(t) /\ body[t] \notin {"none", "done"}
        /\ fault' = "body"
  /\ UNCHANGED <<obj, call, threads, registry, session, handles>>

\* Who is about to erase a slot in FinishDelete, without g_regMutex ...
SlotErasers ==
  {a \in Actors : \/ call[a].pc = "u_delete" /\ obj[Obj(a)].slot # None
                  \/ call[a].pc = "r_delete" /\ obj[call[a].victim].slot # None}

\* ... and who looks for one or gives one back, with it.
SlotUsers == {a \in Actors : call[a].pc \in {"c_slot", "c_free"} /\ RegFree}

\* FinishDelete may meet another user of g_slotInUse there: a data race on a
\* std::map.
SlotRace ==
  /\ Running
  /\ \E a \in SlotErasers :
       (SlotErasers \cup SlotUsers) \ {a} # {} \/ reset.phase = "reclaim"
  /\ fault' = "slot_race"
  /\ UNCHANGED <<obj, call, threads, registry, session, handles>>

-----------------------------------------------------------------------------
\* A call begins when the guest makes it; what follows is host code.
Begin(a) ==
  \/ SelfCall(a) \/ CreateBegin(a) \/ JoinBegin(a) \/ DetachBegin(a)
  \/ AttrGetBegin(a) \/ ExitBegin(a)

Continue(a) ==
  \/ UseEnd(a) \/ CreateContinue(a) \/ Reap(a) \/ JoinContinue(a)
  \/ DetachContinue(a) \/ AttrGetLock(a) \/ ExitLock(a)

Next ==
  \/ \E a \in Actors : Begin(a) \/ Continue(a)
  \/ \E t \in Threads : BodyReturn(t) \/ BodyEnd(t)
  \/ ResetBegin \/ ResetContinue
  \/ UseAfterFree \/ SlotRace

Spec == Init /\ [][Next]_vars

\* The host schedules its threads fairly: a call under way, a body past its
\* guest code and a reset go on while they can.  The guest owes nothing: it
\* need not make a call, and its code need not return.
FairSpec ==
  /\ Spec
  /\ \A a \in Actors : WF_vars(Continue(a))
  /\ \A t \in Threads : WF_vars(BodyEnd(t))
  /\ WF_vars(ResetContinue)

-----------------------------------------------------------------------------
(* Type invariant.                                                         *)

ObjRec ==
  [st : {"none", "alloc", "freed"}, uses : Nat, zombieQueued : BOOLEAN,
   dead : BOOLEAN, exited : BOOLEAN, detached : BOOLEAN, joined : BOOLEAN,
   sessionDead : BOOLEAN, slot : Slots \cup {None}, m : Actors \cup {None}]

PcNames ==
  Touching \cup {"idle", "u_live", "c_slot", "c_insert", "c_undo", "r_swap",
                 "r_visit", "r_delete", "r_back", "j_self", "j_erase", "q_push"}

CallRec ==
  [pc : PcNames, t : Threads \cup {None}, victim : Threads \cup {None},
   mode : OpNames \cup {"none"}, batch : SUBSET Threads,
   keep : SUBSET Threads]

ResetRec ==
  [phase : {"idle", "zombies", "live", "wake", "grace", "reclaim", "release"},
   coll : SUBSET (Threads \X {"zombie", "live"}),
   todo : SUBSET (Threads \X {"zombie", "live"}),
   main : Threads \cup {None}]

\* Every variable has its type.
TypeOK ==
  /\ obj \in [Threads -> ObjRec]
  /\ call \in [Actors -> CallRec]
  /\ body \in [Threads -> {"none", "guest", "flag", "push", "last", "done"}]
  /\ host \in [Threads -> {"none", "joinable", "joined"}]
  /\ live \in SUBSET Threads /\ zombies \in SUBSET Threads
  /\ leaked \in SUBSET Threads /\ slotInUse \in SUBSET Slots
  /\ resetting \in BOOLEAN /\ mainThread \in Threads \cup {None}
  /\ reset \in ResetRec
  /\ handles \in SUBSET Threads
  /\ fault \in PcNames \cup {"none", "double_join", "slot_race", "reset", "body"}

-----------------------------------------------------------------------------
(* Safety.                                                                 *)

\* Every handle UseBegin would accept belongs to an object that still
\* exists, so validating a handle never touches deleted memory.
LiveHandlesAreAllocated == \A t \in live : Allocated(t)

\* No object is deleted while its host thread is still inside ThreadBody.
NoDeleteUnderRunningBody ==
  \A t \in Threads : Freed(t) => body[t] \in {"none", "done"}

\* Who has won t->dead and is about to delete.
Claims(a, t) == \/ call[a].pc = "u_delete" /\ Obj(a) = t
                \/ call[a].pc = "r_delete" /\ call[a].victim = t

\* UseEnd and the reaper may both try to delete: only one of them gets to.
DeletedOnce ==
  \A t \in Threads, a, b \in Actors :
    Claims(a, t) => /\ Allocated(t)
                    /\ Claims(b, t) => a = b

\* No execution reaches undefined behaviour.
NoUndefinedBehaviour == fault = "none"

\* The places of a call between its UseBegin and the fetch_sub of its UseEnd.
UsePlaces == {"j_self", "j_lock", "j_wait", "j_host", "j_hostwait", "j_erase",
              "j_log", "d_lock", "q_flag", "q_push", "g_lock", "u_sub"}

Users(t) == {a \in Actors : call[a].pc \in UsePlaces /\ Obj(a) = t}

\* The use count is the number of calls that hold the handle: no early
\* return forgets its UseEnd or ends a use twice.
UsesCounted ==
  \A t \in Threads : Allocated(t) => obj[t].uses = Cardinality(Users(t))

\* A Join past the host join has really waited for the body's end.
JoinWaitsForBody ==
  \A a \in Actors : call[a].pc \in {"j_erase", "j_log"} => BodyDone(Obj(a))

\* The slot table lists the slots of the existing objects, no more and no
\* fewer: no failed create and no reclaimed thread leaks a slot.
SlotsAccounted ==
  slotInUse = {obj[t].slot : t \in {u \in Threads : Allocated(u)}} \ {None}

\* Two threads that are both running have different stacks.
SlotExclusive ==
  \A t, u \in Threads :
    /\ t # u
    /\ body[t] \notin {"none", "done"} /\ body[u] \notin {"none", "done"}
    => obj[t].slot # obj[u].slot

\* The objects some reaper holds in its local vectors.
InReap(t) ==
  \E a \in Actors : t \in call[a].batch \cup call[a].keep \cup {call[a].victim}

\* Someone has set zombieQueued and has yet to push.
AboutToPush(t) ==
  body[t] = "push" \/ \E a \in Actors : call[a].pc = "q_push" /\ Obj(a) = t

\* An object handed to the reaper is never lost: it is queued, in the hands
\* of a reaper or a reset, about to be pushed, or on the leak list.
ZombiesOwned ==
  \A t \in Threads :
    obj[t].zombieQueued /\ Allocated(t) =>
      \/ t \in zombies \cup leaked
      \/ InReap(t) \/ AboutToPush(t)
      \/ resetting
      \/ obj[t].dead

\* Nothing leaks while there is no teardown, whichever call fails half way and
\* whoever reaps: slots, stacks and zombies are all accounted for, as long as no
\* SlotRace has corrupted the slot table (pthread_hle.cpp:269) and no deleted
\* object has been used.
ResourcesAccounted == TypeOK /\ SlotsAccounted /\ SlotExclusive /\ ZombiesOwned

\* After a reset every object that still exists is on the leak list.
NothingSurvivesReset ==
  reset.phase = "release" =>
    \A t \in Threads : Allocated(t) => t \in leaked

-----------------------------------------------------------------------------
(* Liveness.                                                               *)

\* A session teardown ends, whatever the guest's threads do.
ResetTerminates == resetting ~> (~resetting \/ ~Running)

\* A joiner of a thread whose body has ended gets its answer.
JoinReturns ==
  \A a \in Actors, t \in Threads :
    (call[a].pc = "j_wait" /\ Obj(a) = t /\ BodyDone(t))
      ~> (call[a].pc = "idle" \/ ~Running)

-----------------------------------------------------------------------------
(* Refinement of ThreadHandles: a handle is good while it is in g_live,    *)
(* and there is none before Create or Self has registered one.             *)

\* Not yet allocated, or allocated by a Create that has not registered it.
Fresh(t) ==
  \/ obj[t].st = "none"
  \/ \E a \in Actors : call[a].pc = "c_insert" /\ Obj(a) = t

HandleState(t) ==
  IF t \notin live THEN IF Fresh(t) THEN "none" ELSE "consumed"
  ELSE IF t \in handles THEN "valid" ELSE "none"

\* HJoin sets `joined' when it is about to answer OK (or EFAULT, for a bad
\* out pointer), HDetach sets `detached' when it answers OK.
ClaimsOn(t) == {c \in {"join", "detach"} :
                  IF c = "join" THEN obj[t].joined ELSE obj[t].detached}

Handles == INSTANCE ThreadHandles
             WITH state <- [t \in Threads |-> HandleState(t)],
                  claims <- [t \in Threads |-> ClaimsOn(t)],
                  ended <- {t \in Threads : obj[t].exited}

\* Join and Detach of one thread never both succeed, Join succeeds after the
\* thread's end only, and a handle leaves the registry for one of the two, for
\* a failed Create or for a teardown, and never comes back: every step of the
\* handlers, the bodies, the reaper and a teardown is a step of ThreadHandles
\* or leaves the handles as they are.
ImplementsHandles == Handles!Spec

=============================================================================
