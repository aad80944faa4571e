------------------------ MODULE GuestThreads_proofs ------------------------
(***************************************************************************)
(* Proofs about GuestThreads, for any number of objects, slots and calls.  *)
(*                                                                         *)
(* None of the properties is inductive alone.  LifeInv describes the life  *)
(* of an object: who may name it before it is registered (Fresh), what a   *)
(* thread that is about to delete it knows (Condemned), who owns it while  *)
(* Create runs, and why a claim on it is exclusive.                        *)
(***************************************************************************)
EXTENDS GuestThreads, FiniteSetTheorems, TLAPS

-----------------------------------------------------------------------------
(* The inductive invariant.                                                *)

\* Where an object can be named: the registry, the reaper's queue and the
\* vectors of a reset or of a reaper.
Listed(t) ==
  \/ t \in live \cup zombies
  \/ \E e \in reset.coll \cup reset.todo : e[1] = t
  \/ \E a \in Actors : t \in call[a].batch \cup call[a].keep
  \/ t = mainThread \/ t = reset.main

\* Nobody but its creator can name a fresh object.
FreshInv ==
  \A t \in Threads : Fresh(t) =>
    /\ ~Listed(t)
    /\ body[t] = "none"
    /\ \A a \in Actors : call[a].pc \in UsePlaces => Obj(a) # t

\* The part of Create in which the object has no host thread yet.
Creating == {"c_insert", "c_tcb", "c_undo", "c_free", "c_start"}

\* Create owns the object until the host thread starts.
CreatorInv ==
  \A a \in Actors : call[a].pc \in Creating =>
    /\ Allocated(Obj(a))
    /\ body[Obj(a)] = "none"
    /\ Obj(a) # mainThread /\ Obj(a) # reset.main
    /\ call[a].pc = "c_free" => Obj(a) \notin live
    /\ \A b \in Actors :
         call[b].pc \in Creating /\ Obj(b) = Obj(a) => b = a

\* What a call of UseEnd and the reaper have established when they get to
\* the deletion.
CondemnedInv ==
  \A a \in Actors :
    /\ call[a].pc \in {"u_live", "u_dead", "u_delete"} => BodyDone(Obj(a))
    /\ call[a].pc \in {"u_dead", "u_delete"} => Obj(a) \notin live
    /\ call[a].pc = "u_delete" => Allocated(Obj(a)) /\ obj[Obj(a)].dead
    /\ call[a].pc = "r_delete" =>
         /\ BodyDone(call[a].victim) /\ call[a].victim \notin live
         /\ Allocated(call[a].victim) /\ obj[call[a].victim].dead

\* The main thread's object has no body.
MainInv ==
  \A t \in Threads :
    t = mainThread \/ t = reset.main => body[t] = "none"

\* What a reset has collected is out of the registry.
CollectedInv ==
  reset.phase \in {"wake", "grace", "reclaim"} =>
    \A e \in reset.coll \cup reset.todo : e[1] \notin live

\* The rest of UseEnd, once the use has been given up.
Ending == {"u_zombie", "u_done", "u_live", "u_dead", "u_delete"}

\* A use, the deletion after it, and a Create name an object.
NamesInv ==
  \A a \in Actors :
    /\ call[a].pc \in UsePlaces \cup Ending \cup Creating => Obj(a) \in Threads
    /\ call[a].pc = "r_delete" => call[a].victim \in Threads

LifeInv ==
  /\ FreshInv /\ CreatorInv /\ CondemnedInv /\ MainInv /\ CollectedInv
  /\ NamesInv
  /\ LiveHandlesAreAllocated /\ NoDeleteUnderRunningBody /\ DeletedOnce

IInv == TypeOK /\ UsesCounted /\ LifeInv

-----------------------------------------------------------------------------
(* Typing.  Updates of one field at a time are typed first; the provers    *)
(* then compose them without seeing all fields of the records at once.     *)

\* Every assignment of the code to a member of GuestThread keeps its type.
LEMMA ObjFields ==
  ASSUME NEW r \in ObjRec, NEW b \in BOOLEAN
  PROVE
    /\ [r EXCEPT !.st = "freed"] \in ObjRec
    /\ [r EXCEPT !.uses = @ + 1] \in ObjRec
    /\ \A s \in Slots \cup {None} : [r EXCEPT !.slot = s] \in ObjRec
    /\ \A a \in Actors \cup {None} : [r EXCEPT !.m = a] \in ObjRec
    /\ [r EXCEPT !.zombieQueued = b] \in ObjRec
    /\ [r EXCEPT !.dead = b] \in ObjRec
    /\ [r EXCEPT !.exited = b] \in ObjRec
    /\ [r EXCEPT !.detached = b] \in ObjRec
    /\ [r EXCEPT !.joined = b] \in ObjRec
    /\ [r EXCEPT !.sessionDead = b] \in ObjRec
  BY DEF ObjRec

\* `new GuestThread()' is an object.
LEMMA NewThreadType ==
  ASSUME NEW s \in Slots \cup {None}, NEW b \in BOOLEAN
  PROVE NewThread(s, b) \in ObjRec
  BY DEF ObjRec, NewThread, Unallocated

\* Every assignment of the model to the call of an actor keeps its type.
LEMMA CallFields ==
  ASSUME NEW c \in CallRec
  PROVE
    /\ \A p \in PcNames : [c EXCEPT !.pc = p] \in CallRec
    /\ \A t \in Threads \cup {None} :
         [c EXCEPT !.t = t] \in CallRec /\ [c EXCEPT !.victim = t] \in CallRec
    /\ \A m \in OpNames : [c EXCEPT !.mode = m] \in CallRec
    /\ \A S \in SUBSET Threads :
         [c EXCEPT !.batch = S] \in CallRec /\ [c EXCEPT !.keep = S] \in CallRec
  BY DEF CallRec

\* An actor between two calls.
LEMMA IdleType == Idle \in CallRec
  BY DEF CallRec, Idle, PcNames

\* The actors are the guest threads and Main.
LEMMA ActorsFinite == IsFiniteSet(Actors)
  BY ConstantsOK, FS_AddElement DEF Actors

\* Updates of an object that also take its mutex.
LEMMA ObjLocked ==
  ASSUME obj \in [Threads -> ObjRec], NEW t \in Threads, NEW x \in Actors \cup {None}
  PROVE  /\ [obj EXCEPT ![t].m = x] \in [Threads -> ObjRec]
         /\ [obj EXCEPT ![t].joined = TRUE, ![t].m = x] \in [Threads -> ObjRec]
         /\ [obj EXCEPT ![t].detached = TRUE] \in [Threads -> ObjRec]
<1>1. [obj[t] EXCEPT !.joined = TRUE] \in ObjRec /\ [obj[t] EXCEPT !.m = x] \in ObjRec
  BY ObjFields
<1>2. [[obj[t] EXCEPT !.joined = TRUE] EXCEPT !.m = x] \in ObjRec
  BY <1>1, ObjFields
<1>3. [obj[t] EXCEPT !.detached = TRUE] \in ObjRec
  BY ObjFields
<1> QED
  BY <1>1, <1>2, <1>3

\* A call that moves on keeps its type.
LEMMA GotoType ==
  ASSUME call \in [Actors -> CallRec], NEW a \in Actors, NEW p \in PcNames, Goto(a, p)
  PROVE call' \in [Actors -> CallRec]
  BY CallFields DEF Goto

\* A call that returns keeps its type.
LEMMA ReturnType ==
  ASSUME call \in [Actors -> CallRec], NEW a \in Actors, Return(a)
  PROVE call' \in [Actors -> CallRec]
  BY IdleType DEF Return

\* The end of UseEnd keeps the type of the call.
LEMMA LeaveType ==
  ASSUME call \in [Actors -> CallRec], NEW a \in Actors, Leave(a)
  PROVE call' \in [Actors -> CallRec]
  BY GotoType, ReturnType DEF Leave, PcNames, Touching

\* Every step of a call under way.
LEMMA TypeContinue ==
  ASSUME TypeOK, NamesInv, UsesCounted, NEW a \in Actors, Continue(a)
  PROVE TypeOK'
<1>c. call \in [Actors -> CallRec]
  BY DEF TypeOK
<1>o. obj \in [Threads -> ObjRec]
  BY DEF TypeOK
<1>1. ASSUME UseSub(a) PROVE TypeOK'
  <2>1. call' \in [Actors -> CallRec]
    BY <1>1, <1>c, GotoType, ReturnType, LeaveType DEF UseSub, PcNames, Touching
  <2>2. obj' \in [Threads -> ObjRec]
    <3>1. call[a].pc = "u_sub" /\ Obj(a) \in Threads /\ Allocated(Obj(a))
      BY <1>1 DEF UseSub, At, NamesInv, UsePlaces
    <3>2. obj[Obj(a)].uses = Cardinality(Users(Obj(a)))
      BY <3>1 DEF UsesCounted
    <3>3. a \in Users(Obj(a)) /\ Users(Obj(a)) \subseteq Actors
      BY <3>1 DEF Users, UsePlaces
    <3>4. Cardinality(Users(Obj(a))) \in Nat \ {0}
      BY <3>3, ActorsFinite, FS_Subset, FS_EmptySet, FS_CardinalityType
    <3>5. [obj[Obj(a)] EXCEPT !.uses = @ - 1] \in ObjRec
      BY <3>1, <3>2, <3>4, <1>o DEF ObjRec
    <3> QED
      BY <1>1, <3>5, <1>o DEF UseSub
  <2> QED
    BY <1>1, <2>1, <2>2 DEF TypeOK, UseSub, RestUnchanged, threads, registry, session, history
<1>2. ASSUME UseZombie(a) PROVE TypeOK'
  <2>1. call' \in [Actors -> CallRec]
    BY <1>2, <1>c, GotoType, ReturnType, LeaveType DEF UseZombie, PcNames, Touching
  <2>2. obj' \in [Threads -> ObjRec]
    BY <1>2, <1>o, ObjFields DEF UseZombie, RestUnchanged
  <2> QED
    BY <1>2, <2>1, <2>2 DEF TypeOK, UseZombie, RestUnchanged, threads, registry, session, history
<1>3. ASSUME UseDone(a) PROVE TypeOK'
  <2>1. call' \in [Actors -> CallRec]
    BY <1>3, <1>c, GotoType, ReturnType, LeaveType DEF UseDone, PcNames, Touching
  <2>2. obj' \in [Threads -> ObjRec]
    BY <1>3, <1>o, ObjFields DEF UseDone, RestUnchanged
  <2> QED
    BY <1>3, <2>1, <2>2 DEF TypeOK, UseDone, RestUnchanged, threads, registry, session, history
<1>4. ASSUME UseLive(a) PROVE TypeOK'
  <2>1. call' \in [Actors -> CallRec]
    BY <1>4, <1>c, GotoType, ReturnType, LeaveType DEF UseLive, PcNames, Touching
  <2>2. obj' \in [Threads -> ObjRec]
    BY <1>4, <1>o, ObjFields DEF UseLive, RestUnchanged
  <2> QED
    BY <1>4, <2>1, <2>2 DEF TypeOK, UseLive, RestUnchanged, threads, registry, session, history
<1>5. ASSUME UseDead(a) PROVE TypeOK'
  <2>1. call' \in [Actors -> CallRec]
    BY <1>5, <1>c, GotoType, ReturnType, LeaveType DEF UseDead, PcNames, Touching
  <2>2. obj' \in [Threads -> ObjRec]
    BY <1>5, <1>o, ObjFields DEF UseDead, RestUnchanged
  <2> QED
    BY <1>5, <2>1, <2>2 DEF TypeOK, UseDead, RestUnchanged, threads, registry, session, history
<1>6. ASSUME UseDelete(a) PROVE TypeOK'
  <2>1. call' \in [Actors -> CallRec]
    BY <1>6, <1>c, LeaveType DEF UseDelete
  <2>2. obj' \in [Threads -> ObjRec]
    BY <1>6, <1>o, ObjFields DEF UseDelete, FinishDelete
  <2> QED
    BY <1>6, <2>1, <2>2 DEF TypeOK, UseDelete, FinishDelete, RestUnchanged, threads, registry, session, history
<1>7. ASSUME Unlock(a) PROVE TypeOK'
  <2>1. call' \in [Actors -> CallRec]
    BY <1>7, <1>c, GotoType, ReturnType, LeaveType DEF Unlock, PcNames, Touching
  <2>2. obj' \in [Threads -> ObjRec]
    BY <1>7, <1>o, ObjFields DEF Unlock, RestUnchanged
  <2> QED
    BY <1>7, <2>1, <2>2 DEF TypeOK, Unlock, RestUnchanged, threads, registry, session, history
<1>8. ASSUME CreateSlot(a) PROVE TypeOK'
  <2>0. CASE Return(a) /\ UNCHANGED <<obj, slotInUse>>
    BY <1>8, <1>c, <2>0, ReturnType DEF TypeOK, CreateSlot, RestUnchanged, threads, registry, session, history
  <2>5. CASE \E s \in FreeSlots, t \in Threads :
            /\ slotInUse' = slotInUse \cup {s}
            /\ obj' = [obj EXCEPT ![t] = NewThread(s, call[a].mode = "createDetached")]
            /\ call' = [call EXCEPT ![a].pc = "c_insert", ![a].t = t]
    <3>0. PICK s \in Slots, t \in Threads :
            /\ slotInUse' = slotInUse \cup {s}
            /\ obj' = [obj EXCEPT ![t] = NewThread(s, call[a].mode = "createDetached")]
            /\ call' = [call EXCEPT ![a].pc = "c_insert", ![a].t = t]
      BY <2>5 DEF FreeSlots
    <3>1. call' \in [Actors -> CallRec]
      BY <3>0, <1>c, CallFields DEF PcNames, Touching
    <3>2. obj' \in [Threads -> ObjRec]
      BY <3>0, <1>o, NewThreadType
    <3> QED
      BY <1>8, <3>0, <3>1, <3>2 DEF TypeOK, CreateSlot, threads, registry, session, history
  <2> QED
    BY <1>8, <2>0, <2>5 DEF CreateSlot
<1>9. ASSUME CreateInsert(a) PROVE TypeOK'
  <2>1. call' \in [Actors -> CallRec]
    BY <1>9, <1>c, GotoType, ReturnType, LeaveType DEF CreateInsert, PcNames, Touching
  <2>2. obj' \in [Threads -> ObjRec]
    BY <1>9, <1>o, ObjFields DEF CreateInsert, RestUnchanged
  <2>3. Obj(a) \in Threads
    BY <1>9 DEF CreateInsert, At, NamesInv, Creating
  <2> QED
    BY <1>9, <2>1, <2>2, <2>3 DEF TypeOK, CreateInsert, RestUnchanged, threads, registry, session, history
<1>10. ASSUME CreateTcb(a) PROVE TypeOK'
  <2>1. call' \in [Actors -> CallRec]
    BY <1>10, <1>c, GotoType, ReturnType, LeaveType DEF CreateTcb, PcNames, Touching
  <2>2. obj' \in [Threads -> ObjRec]
    BY <1>10, <1>o, ObjFields DEF CreateTcb, RestUnchanged
  <2>3. Obj(a) \in Threads
    BY <1>10 DEF CreateTcb, At, NamesInv, Creating
  <2> QED
    BY <1>10, <2>1, <2>2, <2>3 DEF TypeOK, CreateTcb, RestUnchanged, threads, registry, session, history
<1>11. ASSUME CreateUndo(a) PROVE TypeOK'
  <2>1. call' \in [Actors -> CallRec]
    BY <1>11, <1>c, GotoType, ReturnType, LeaveType DEF CreateUndo, PcNames, Touching
  <2>2. obj' \in [Threads -> ObjRec]
    BY <1>11, <1>o, ObjFields DEF CreateUndo, RestUnchanged
  <2> QED
    BY <1>11, <2>1, <2>2 DEF TypeOK, CreateUndo, RestUnchanged, threads, registry, session, history
<1>12. ASSUME CreateFree(a) PROVE TypeOK'
  <2>1. call' \in [Actors -> CallRec]
    BY <1>12, <1>c, GotoType, ReturnType, LeaveType DEF CreateFree, PcNames, Touching
  <2>2. obj' \in [Threads -> ObjRec]
    BY <1>12, <1>o, ObjFields DEF CreateFree, RestUnchanged
  <2> QED
    BY <1>12, <2>1, <2>2 DEF TypeOK, CreateFree, RestUnchanged, threads, registry, session, history
<1>13. ASSUME CreateStart(a) PROVE TypeOK'
  <2>1. call' \in [Actors -> CallRec]
    BY <1>13, <1>c, GotoType, ReturnType, LeaveType DEF CreateStart, PcNames, Touching
  <2>2. obj' \in [Threads -> ObjRec]
    BY <1>13, <1>o, ObjFields DEF CreateStart, RestUnchanged
  <2> QED
    BY <1>13, <2>1, <2>2 DEF TypeOK, CreateStart, RestUnchanged, threads, registry, session, history
<1>14. ASSUME CreateAssign(a) PROVE TypeOK'
  <2>1. call' \in [Actors -> CallRec]
    BY <1>14, <1>c, GotoType, ReturnType, LeaveType DEF CreateAssign, PcNames, Touching
  <2>2. obj' \in [Threads -> ObjRec]
    BY <1>14, <1>o, ObjFields DEF CreateAssign, RestUnchanged
  <2> QED
    BY <1>14, <2>1, <2>2 DEF TypeOK, CreateAssign, RestUnchanged, threads, registry, session, history
<1>15. ASSUME CreateLog(a) PROVE TypeOK'
  <2>1. call' \in [Actors -> CallRec]
    BY <1>15, <1>c, GotoType, ReturnType, LeaveType DEF CreateLog, PcNames, Touching
  <2>2. obj' \in [Threads -> ObjRec]
    BY <1>15, <1>o, ObjFields DEF CreateLog, RestUnchanged
  <2> QED
    BY <1>15, <2>1, <2>2 DEF TypeOK, CreateLog, RestUnchanged, threads, registry, session, history
<1>16. ASSUME ReapSwap(a) PROVE TypeOK'
  <2>1. call' \in [Actors -> CallRec]
    BY <1>16, <1>c, CallFields DEF ReapSwap, PcNames, Touching, TypeOK
  <2>2. obj' \in [Threads -> ObjRec]
    BY <1>16, <1>o, ObjFields DEF ReapSwap, RestUnchanged
  <2> QED
    BY <1>16, <2>1, <2>2 DEF TypeOK, ReapSwap, RestUnchanged, threads, registry, session, history
<1>17. ASSUME ReapVisit(a) PROVE TypeOK'
  <2>1. call' \in [Actors -> CallRec]
    <3>1. call[a] \in CallRec /\ call[a].batch \subseteq Threads /\ call[a].keep \subseteq Threads
      BY <1>c DEF CallRec
    <3>2. PICK t \in Threads :
            \/ call' = [call EXCEPT ![a].batch = @ \ {t}, ![a].victim = t, ![a].pc = "r_delete"]
            \/ call' = [call EXCEPT ![a].batch = @ \ {t}, ![a].keep = @ \cup {t},
                             ![a].pc = IF call[a].batch = {t} THEN "r_back" ELSE "r_visit"]
      BY <1>17, <3>1 DEF ReapVisit
    <3> QED
      <4>1. call[a].batch \ {t} \in SUBSET Threads /\ call[a].keep \cup {t} \in SUBSET Threads
        BY <3>1
      <4>2. CASE call' = [call EXCEPT ![a].batch = @ \ {t}, ![a].victim = t, ![a].pc = "r_delete"]
        BY <1>c, <4>1, <4>2, CallFields DEF PcNames, Touching
      <4>3. CASE call' = [call EXCEPT ![a].batch = @ \ {t}, ![a].keep = @ \cup {t},
                             ![a].pc = IF call[a].batch = {t} THEN "r_back" ELSE "r_visit"]
        BY <1>c, <3>1, <4>1, <4>3, CallFields DEF PcNames, Touching
      <4> QED
        BY <3>2, <4>2, <4>3
  <2>2. obj' \in [Threads -> ObjRec]
    <3>1. \/ obj' = obj
          \/ \E t \in call[a].batch : obj' = [obj EXCEPT ![t].dead = TRUE]
      BY <1>17 DEF ReapVisit
    <3>2. call[a].batch \subseteq Threads
      BY <1>c DEF CallRec
    <3>3. \A t \in Threads : [obj[t] EXCEPT !.dead = TRUE] \in ObjRec
      BY <1>o, ObjFields
    <3> QED
      BY <1>o, <3>1, <3>2, <3>3
  <2> QED
    BY <1>17, <2>1, <2>2 DEF TypeOK, ReapVisit, RestUnchanged, threads, registry, session, history
<1>18. ASSUME ReapDelete(a) PROVE TypeOK'
  <2>1. call' \in [Actors -> CallRec]
    BY <1>18, <1>c, CallFields DEF ReapDelete, PcNames, Touching, TypeOK
  <2>2. obj' \in [Threads -> ObjRec]
    BY <1>18, <1>o, ObjFields DEF ReapDelete, FinishDelete
  <2> QED
    BY <1>18, <2>1, <2>2 DEF TypeOK, ReapDelete, FinishDelete, RestUnchanged, threads, registry, session, history
<1>19. ASSUME ReapBack(a) PROVE TypeOK'
  <2>1. call' \in [Actors -> CallRec]
    BY <1>19, <1>c, CallFields DEF ReapBack, PcNames, Touching
  <2>2. obj' \in [Threads -> ObjRec]
    BY <1>19, <1>o, ObjFields DEF ReapBack, RestUnchanged
  <2>3. call[a].keep \subseteq Threads
    BY <1>c DEF CallRec
  <2> QED
    BY <1>19, <2>1, <2>2, <2>3 DEF TypeOK, ReapBack, RestUnchanged, threads, registry, session, history
<1>20. ASSUME JoinSelf(a) PROVE TypeOK'
  <2>1. call' \in [Actors -> CallRec]
    BY <1>20, <1>c, GotoType DEF JoinSelf, PcNames, Touching
  <2>2. obj' \in [Threads -> ObjRec]
    BY <1>20, <1>o, NewThreadType DEF JoinSelf, MaterializeMain
  <2> QED
    BY <1>20, <2>1, <2>2 DEF TypeOK, JoinSelf, MaterializeMain, RestUnchanged, threads, registry, session, history
<1>21. ASSUME JoinLock(a) PROVE TypeOK'
  <2>1. call' \in [Actors -> CallRec]
    BY <1>21, <1>c, GotoType, ReturnType, LeaveType DEF JoinLock, PcNames, Touching
  <2>2. obj' \in [Threads -> ObjRec]
    <3>1. \/ obj' = obj
          \/ obj' = [obj EXCEPT ![Obj(a)].m = a]
          \/ obj' = [obj EXCEPT ![Obj(a)].detached = TRUE]
      BY <1>21 DEF JoinLock
    <3>2. Obj(a) \in Threads
      BY <1>21 DEF JoinLock, At, NamesInv, UsePlaces
    <3> QED
      <4>1. \A x \in Actors \cup {None} :
              /\ [obj EXCEPT ![Obj(a)].m = x] \in [Threads -> ObjRec]
              /\ [obj EXCEPT ![Obj(a)].joined = TRUE, ![Obj(a)].m = x] \in [Threads -> ObjRec]
              /\ [obj EXCEPT ![Obj(a)].detached = TRUE] \in [Threads -> ObjRec]
        BY <1>o, <3>2, ObjLocked
      <4>2. a \in Actors \cup {None}
        OBVIOUS
      <4> QED
        BY <1>o, <3>1, <4>1, <4>2
  <2> QED
    BY <1>21, <2>1, <2>2 DEF TypeOK, JoinLock, RestUnchanged, threads, registry, session, history
<1>22. ASSUME JoinWake(a) PROVE TypeOK'
  <2>1. call' \in [Actors -> CallRec]
    BY <1>22, <1>c, GotoType, ReturnType, LeaveType DEF JoinWake, PcNames, Touching
  <2>2. obj' \in [Threads -> ObjRec]
    <3>1. \E x \in Actors \cup {None} :
            \/ obj' = [obj EXCEPT ![Obj(a)].joined = TRUE, ![Obj(a)].m = x]
            \/ obj' = [obj EXCEPT ![Obj(a)].m = x]
      BY <1>22 DEF JoinWake
    <3>2. Obj(a) \in Threads
      BY <1>22 DEF JoinWake, At, NamesInv, UsePlaces
    <3> QED
      <4>1. \A x \in Actors \cup {None} :
              /\ [obj EXCEPT ![Obj(a)].m = x] \in [Threads -> ObjRec]
              /\ [obj EXCEPT ![Obj(a)].joined = TRUE, ![Obj(a)].m = x] \in [Threads -> ObjRec]
              /\ [obj EXCEPT ![Obj(a)].detached = TRUE] \in [Threads -> ObjRec]
        BY <1>o, <3>2, ObjLocked
      <4> QED
        BY <3>1, <4>1
  <2> QED
    BY <1>22, <2>1, <2>2 DEF TypeOK, JoinWake, RestUnchanged, threads, registry, session, history
<1>23. ASSUME JoinHost(a) PROVE TypeOK'
  <2>1. call' \in [Actors -> CallRec]
    BY <1>23, <1>c, GotoType, ReturnType, LeaveType DEF JoinHost, PcNames, Touching
  <2>2. obj' \in [Threads -> ObjRec]
    BY <1>23, <1>o, ObjFields DEF JoinHost, RestUnchanged
  <2> QED
    BY <1>23, <2>1, <2>2 DEF TypeOK, JoinHost, RestUnchanged, threads, registry, session, history
<1>24. ASSUME JoinHostWait(a) PROVE TypeOK'
  <2>1. call' \in [Actors -> CallRec]
    BY <1>24, <1>c, GotoType, ReturnType, LeaveType DEF JoinHostWait, PcNames, Touching
  <2>2. obj' \in [Threads -> ObjRec]
    BY <1>24, <1>o, ObjFields DEF JoinHostWait, RestUnchanged
  <2> QED
    BY <1>24, <2>1, <2>2 DEF TypeOK, JoinHostWait, RestUnchanged, threads, registry, session, history
<1>25. ASSUME JoinErase(a) PROVE TypeOK'
  <2>1. call' \in [Actors -> CallRec]
    BY <1>25, <1>c, GotoType, ReturnType, LeaveType DEF JoinErase, PcNames, Touching
  <2>2. obj' \in [Threads -> ObjRec]
    BY <1>25, <1>o, ObjFields DEF JoinErase, RestUnchanged
  <2>3. Obj(a) \in Threads
    BY <1>25 DEF JoinErase, At, NamesInv, UsePlaces
  <2> QED
    BY <1>25, <2>1, <2>2, <2>3 DEF TypeOK, JoinErase, RestUnchanged, threads, registry, session, history
<1>26. ASSUME JoinLog(a) PROVE TypeOK'
  <2>1. call' \in [Actors -> CallRec]
    BY <1>26, <1>c, GotoType, ReturnType, LeaveType DEF JoinLog, PcNames, Touching
  <2>2. obj' \in [Threads -> ObjRec]
    BY <1>26, <1>o, ObjFields DEF JoinLog, RestUnchanged
  <2> QED
    BY <1>26, <2>1, <2>2 DEF TypeOK, JoinLog, RestUnchanged, threads, registry, session, history
<1>27. ASSUME DetachLock(a) PROVE TypeOK'
  <2>1. call' \in [Actors -> CallRec]
    BY <1>27, <1>c, GotoType, ReturnType, LeaveType DEF DetachLock, PcNames, Touching
  <2>2. obj' \in [Threads -> ObjRec]
    <3>1. \/ obj' = obj
          \/ obj' = [obj EXCEPT ![Obj(a)].m = a]
          \/ obj' = [obj EXCEPT ![Obj(a)].detached = TRUE]
      BY <1>27 DEF DetachLock
    <3>2. Obj(a) \in Threads
      BY <1>27 DEF DetachLock, At, NamesInv, UsePlaces
    <3> QED
      <4>1. \A x \in Actors \cup {None} :
              /\ [obj EXCEPT ![Obj(a)].m = x] \in [Threads -> ObjRec]
              /\ [obj EXCEPT ![Obj(a)].joined = TRUE, ![Obj(a)].m = x] \in [Threads -> ObjRec]
              /\ [obj EXCEPT ![Obj(a)].detached = TRUE] \in [Threads -> ObjRec]
        BY <1>o, <3>2, ObjLocked
      <4>2. a \in Actors \cup {None}
        OBVIOUS
      <4> QED
        BY <1>o, <3>1, <4>1, <4>2
  <2> QED
    BY <1>27, <2>1, <2>2 DEF TypeOK, DetachLock, RestUnchanged, threads, registry, session, history
<1>28. ASSUME QueueFlag(a) PROVE TypeOK'
  <2>1. call' \in [Actors -> CallRec]
    BY <1>28, <1>c, GotoType, ReturnType, LeaveType DEF QueueFlag, PcNames, Touching
  <2>2. obj' \in [Threads -> ObjRec]
    BY <1>28, <1>o, ObjFields DEF QueueFlag, RestUnchanged
  <2> QED
    BY <1>28, <2>1, <2>2 DEF TypeOK, QueueFlag, RestUnchanged, threads, registry, session, history
<1>29. ASSUME QueuePush(a) PROVE TypeOK'
  <2>1. call' \in [Actors -> CallRec]
    BY <1>29, <1>c, GotoType, ReturnType, LeaveType DEF QueuePush, PcNames, Touching
  <2>2. obj' \in [Threads -> ObjRec]
    BY <1>29, <1>o, ObjFields DEF QueuePush, RestUnchanged
  <2>3. Obj(a) \in Threads
    BY <1>29 DEF QueuePush, At, NamesInv, UsePlaces
  <2> QED
    BY <1>29, <2>1, <2>2, <2>3 DEF TypeOK, QueuePush, RestUnchanged, threads, registry, session, history
<1>30. ASSUME AttrGetLock(a) PROVE TypeOK'
  <2>1. call' \in [Actors -> CallRec]
    BY <1>30, <1>c, GotoType, ReturnType, LeaveType DEF AttrGetLock, PcNames, Touching
  <2>2. obj' \in [Threads -> ObjRec]
    BY <1>30, <1>o, ObjFields DEF AttrGetLock, RestUnchanged
  <2> QED
    BY <1>30, <2>1, <2>2 DEF TypeOK, AttrGetLock, RestUnchanged, threads, registry, session, history
<1>31. ASSUME ExitLock(a) PROVE TypeOK'
  <2>1. call' \in [Actors -> CallRec]
    BY <1>31, <1>c, GotoType, ReturnType, LeaveType DEF ExitLock, PcNames, Touching
  <2>2. obj' \in [Threads -> ObjRec]
    BY <1>31, <1>o, ObjFields DEF ExitLock, RestUnchanged
  <2> QED
    BY <1>31, <2>1, <2>2 DEF TypeOK, ExitLock, RestUnchanged, threads, registry, session, history
<1> QED
  BY <1>1, <1>2, <1>3, <1>4, <1>5, <1>6, <1>7, <1>8, <1>9, <1>10, <1>11, <1>12, <1>13, <1>14, <1>15, <1>16, <1>17, <1>18, <1>19, <1>20, <1>21, <1>22, <1>23, <1>24, <1>25, <1>26, <1>27, <1>28, <1>29, <1>30, <1>31
  DEF Continue, UseEnd, CreateContinue, Reap, JoinContinue, DetachContinue

\* The main thread's object appears on demand, or nothing happens.
LEMMA MaterializeType ==
  ASSUME TypeOK, NEW a \in Actors, MaterializeMain(a)
  PROVE /\ obj' \in [Threads -> ObjRec]
        /\ mainThread' \in Threads \cup {None}
        /\ live' \in SUBSET Threads
<1>1. NewThread(None, FALSE) \in ObjRec
  BY NewThreadType
<1>2. CASE UNCHANGED <<obj, live, mainThread>>
  BY <1>2 DEF TypeOK
<1>3. CASE \E t \in Threads : /\ obj' = [obj EXCEPT ![t] = NewThread(None, FALSE)]
                              /\ live' = live \cup {t}
                              /\ mainThread' = t
  BY <1>1, <1>3 DEF TypeOK
<1> QED
  BY <1>2, <1>3 DEF MaterializeMain

\* Every first step of a call.
LEMMA TypeBegin ==
  ASSUME TypeOK, NEW a \in Actors, Begin(a)
  PROVE TypeOK'
<1>c. call \in [Actors -> CallRec]
  BY DEF TypeOK
<1>o. obj \in [Threads -> ObjRec]
  BY DEF TypeOK
<1>i. Idle \in CallRec
  BY IdleType
<1>1. ASSUME NEW t \in Known(a), NEW p \in {"j_self", "d_lock", "g_lock"}, NEW mode \in OpNames,
             UseBegin(a, t, p, mode)
      PROVE TypeOK'
  <2>1. t \in Threads
    BY <1>1 DEF Known, TypeOK
  <2>2. obj' \in [Threads -> ObjRec]
    BY <1>1, <1>o, <2>1, ObjFields DEF UseBegin
  <2>3. [Idle EXCEPT !.pc = p, !.t = t, !.mode = mode] \in CallRec
    BY <1>i, <2>1, CallFields DEF PcNames, Touching
  <2>4. call' \in [Actors -> CallRec]
    BY <1>1, <1>c, <2>3 DEF UseBegin
  <2> QED
    BY <1>1, <2>2, <2>4 DEF TypeOK, UseBegin, RestUnchanged, threads, registry, session, history
<1>2. CASE SelfCall(a)
  <2>1. obj' \in [Threads -> ObjRec] /\ mainThread' \in Threads \cup {None} /\ live' \in SUBSET Threads
    BY <1>2, MaterializeType DEF SelfCall
  <2>2. Self(a)' \in Threads
    BY <1>2 DEF SelfCall, MaterializeMain, Self, TypeOK, Actors
  <2> QED
    BY <1>2, <2>1, <2>2 DEF TypeOK, SelfCall, threads
<1>3. CASE CreateBegin(a)
  <2>1. PICK mode \in {"create", "createDetached", "createBadSlot"} : CreateCheck(a, mode)
    BY <1>3 DEF CreateBegin
  <2>2. [Idle EXCEPT !.pc = "c_slot", !.mode = mode] \in CallRec
    BY <1>i, CallFields DEF PcNames, OpNames
  <2>3. call' \in [Actors -> CallRec]
    BY <1>c, <2>1, <2>2 DEF CreateCheck
  <2> QED
    BY <2>1, <2>3 DEF TypeOK, CreateCheck, RestUnchanged, threads, registry, session, history
<1>4. CASE JoinBegin(a)
  BY <1>1, <1>4 DEF JoinBegin, OpNames
<1>5. CASE DetachBegin(a)
  BY <1>1, <1>5 DEF DetachBegin, OpNames
<1>6. CASE AttrGetBegin(a)
  BY <1>1, <1>6 DEF AttrGetBegin, OpNames
<1>7. CASE ExitBegin(a)
  <2>1. obj' \in [Threads -> ObjRec] /\ mainThread' \in Threads \cup {None} /\ live' \in SUBSET Threads
    BY <1>7, MaterializeType DEF ExitBegin
  <2>2. Self(a)' \in Threads
    BY <1>7 DEF ExitBegin, MaterializeMain, Self, TypeOK, Actors
  <2>3. [Idle EXCEPT !.pc = "e_lock", !.t = Self(a)'] \in CallRec
    BY <1>i, <2>2, CallFields DEF PcNames, Touching
  <2>4. call' \in [Actors -> CallRec]
    BY <1>7, <1>c, <2>3 DEF ExitBegin
  <2> QED
    BY <1>7, <2>1, <2>4 DEF TypeOK, ExitBegin, threads, history
<1> QED
  BY <1>2, <1>3, <1>4, <1>5, <1>6, <1>7 DEF Begin

\* Every step of a host thread after its guest code.
LEMMA TypeBody ==
  ASSUME TypeOK, NEW t \in Threads, BodyReturn(t) \/ BodyEnd(t)
  PROVE TypeOK'
<1>o. obj \in [Threads -> ObjRec]
  BY DEF TypeOK
<1>1. CASE BodyReturn(t)
  <2>1. obj' \in [Threads -> ObjRec]
    BY <1>1, <1>o, ObjFields DEF BodyReturn
  <2> QED
    BY <1>1, <2>1 DEF TypeOK, BodyReturn, registry, session, history
<1>2. CASE BodyFlag(t)
  <2>1. obj' \in [Threads -> ObjRec]
    BY <1>2, <1>o, ObjFields DEF BodyFlag
  <2> QED
    BY <1>2, <2>1 DEF TypeOK, BodyFlag, registry, session, history
<1>3. CASE BodyPush(t)
  BY <1>3 DEF TypeOK, BodyPush, session, history
<1>4. CASE BodyLast(t)
  BY <1>4 DEF TypeOK, BodyLast, registry, session, history
<1> QED
  BY <1>1, <1>2, <1>3, <1>4 DEF BodyEnd

\* Every step of a teardown.
LEMMA TypeReset ==
  ASSUME TypeOK, ResetBegin \/ ResetContinue
  PROVE TypeOK'
<1>o. obj \in [Threads -> ObjRec]
  BY DEF TypeOK
<1>r. reset \in ResetRec
  BY DEF TypeOK
<1>s. /\ \A e : [reset EXCEPT !.todo = @ \ {e}] \in ResetRec
      /\ [reset EXCEPT !.phase = "grace", !.todo = reset.coll] \in ResetRec
      /\ [reset EXCEPT !.phase = "reclaim", !.todo = reset.coll] \in ResetRec
  BY <1>r DEF ResetRec
<1>1. CASE ResetBegin
  BY <1>1 DEF TypeOK, ResetBegin, ResetRec, threads, registry, history
<1>2. CASE ResetZombies
  BY <1>2 DEF TypeOK, ResetZombies, ResetRec, threads, history
<1>3. CASE ResetLive
  <2>1. reset.coll \cup (live \X {"live"}) \in SUBSET (Threads \X {"zombie", "live"})
    BY <1>r DEF ResetRec, TypeOK
  <2>2. reset' \in ResetRec
    BY <1>3, <2>1 DEF ResetLive, ResetRec, TypeOK
  <2> QED
    BY <1>3, <2>2 DEF TypeOK, ResetLive, threads, history
<1>4. CASE ResetWake
  <2>1. obj' \in [Threads -> ObjRec]
    <3>1. \/ obj' = obj
          \/ \E e \in reset.todo : obj' = [obj EXCEPT ![e[1]].sessionDead = TRUE]
      BY <1>4 DEF ResetWake, ResetNext
    <3>2. \A e \in reset.todo : e[1] \in Threads
      BY <1>r DEF ResetRec
    <3>3. \/ obj' = obj
          \/ \E t \in Threads : obj' = [obj EXCEPT ![t].sessionDead = TRUE]
      BY <3>1, <3>2
    <3>4. \A t \in Threads : [obj[t] EXCEPT !.sessionDead = TRUE] \in ObjRec
      BY <1>o, ObjFields
    <3> QED
      BY <1>o, <3>3, <3>4
  <2>2. reset' \in ResetRec
    <3>1. \/ \E e : reset' = [reset EXCEPT !.todo = @ \ {e}]
          \/ reset' = [reset EXCEPT !.phase = "grace", !.todo = reset.coll]
      BY <1>4 DEF ResetWake, ResetNext
    <3> QED
      BY <1>s, <3>1
  <2> QED
    BY <1>4, <2>1, <2>2 DEF TypeOK, ResetWake, ResetNext, threads, registry, history
<1>5. CASE ResetGrace
  <2>1. reset' \in ResetRec
    <3>1. \/ \E e : reset' = [reset EXCEPT !.todo = @ \ {e}]
          \/ reset' = [reset EXCEPT !.phase = "reclaim", !.todo = reset.coll]
      BY <1>5 DEF ResetGrace, ResetNext
    <3> QED
      BY <1>s, <3>1
  <2> QED
    BY <1>5, <2>1 DEF TypeOK, ResetGrace, ResetNext, threads, registry, history
<1>6. CASE ResetReclaim
  <2>1. PICK e \in reset.todo :
          /\ \/ /\ obj' = [obj EXCEPT ![e[1]].st = "freed", ![e[1]].dead = TRUE, ![e[1]].slot = None]
                /\ host' = [host EXCEPT ![e[1]] = IF @ = "joinable" THEN "joined" ELSE @]
                /\ slotInUse' = slotInUse \ {obj[e[1]].slot}
                /\ leaked' = leaked
             \/ /\ UNCHANGED <<obj, host, slotInUse>>
                /\ leaked' = leaked \cup {e[1]}
          /\ reset' = [reset EXCEPT !.todo = @ \ {e}]
    BY <1>6 DEF ResetReclaim
  <2>2. e[1] \in Threads
    BY <1>r DEF ResetRec
  <2>3. obj' \in [Threads -> ObjRec]
    <3>1. obj' = obj \/ obj' = [obj EXCEPT ![e[1]].st = "freed", ![e[1]].dead = TRUE, ![e[1]].slot = None]
      BY <2>1
    <3>2. [obj[e[1]] EXCEPT !.st = "freed", !.dead = TRUE, !.slot = None] \in ObjRec
      BY <1>o, <2>2, ObjFields
    <3> QED
      BY <1>o, <2>2, <3>1, <3>2
  <2>4. reset' \in ResetRec
    BY <2>1, <1>r DEF ResetRec
  <2>5. /\ host' \in [Threads -> {"none", "joinable", "joined"}]
        /\ leaked' \in SUBSET Threads /\ slotInUse' \in SUBSET Slots
    BY <2>1, <2>2 DEF TypeOK
  <2> QED
    BY <1>6, <2>3, <2>4, <2>5 DEF TypeOK, ResetReclaim, history
<1>7. CASE ResetClear
  BY <1>7 DEF TypeOK, ResetClear, ResetRec, threads, history
<1>8. CASE ResetRelease
  BY <1>8 DEF TypeOK, ResetRelease, ResetRec, threads, registry, history
<1> QED
  BY <1>1, <1>2, <1>3, <1>4, <1>5, <1>6, <1>7, <1>8 DEF ResetContinue

\* Every step keeps the types.  The use count stays a natural number because
\* it is the number of the calls that hold a use.
LEMMA TypeStep ==
  ASSUME TypeOK, NamesInv, UsesCounted, [Next]_vars
  PROVE TypeOK'
<1>1. CASE UNCHANGED vars
  BY <1>1 DEF TypeOK, vars, threads, registry, session, history
<1>2. CASE UseAfterFree \/ SlotRace
  <2>1. \A a \in Actors : call[a].pc \in PcNames
    BY DEF TypeOK, CallRec
  <2> QED
    BY <1>2, <2>1 DEF TypeOK, UseAfterFree, SlotRace, threads, registry, session
<1> QED
  BY <1>1, <1>2, TypeContinue, TypeBegin, TypeBody, TypeReset DEF Next

-----------------------------------------------------------------------------
(* Ordinary steps: those that neither allocate or register an object, nor  *)
(* begin a use, nor win the claim to delete.  One lemma shows that they    *)
(* keep LifeInv.                                                           *)

Creates(b, u) == call[b].pc \in Creating /\ Obj(b) = u
IsMain(u) == u = mainThread \/ u = reset.main

\* An object is deleted only if nobody is left who could do so, and a body
\* moves only if its object exists and is not being created.
OrdinaryObject(u) ==
  /\ obj[u].dead => obj'[u].dead
  /\ obj'[u].st # obj[u].st =>
       /\ Allocated(u) /\ Freed(u)'
       /\ u \notin live'
       /\ body[u] \in {"none", "done"} /\ body'[u] = body[u]
       /\ \A b \in Actors : ~Claims(b, u)' /\ ~Creates(b, u)'
  /\ body'[u] # body[u] =>
       /\ Allocated(u) /\ ~Fresh(u) /\ ~IsMain(u)
       /\ body[u] # "done"
       /\ \A b \in Actors : ~Creates(b, u)'

\* A call goes on with the object it is about.
QuietCall(a) ==
  /\ call'[a].pc \notin {"c_insert", "u_delete", "r_delete"}
  /\ call'[a].pc \in UsePlaces => call[a].pc \in UsePlaces /\ Obj(a)' = Obj(a)
  /\ call'[a].pc \in Creating =>
       /\ call[a].pc \in Creating
       /\ Obj(a)' = Obj(a)
       /\ call'[a].pc = "c_free" => Obj(a) \notin live'
  /\ call'[a].pc \in Ending =>
       /\ call[a].pc \in UsePlaces \cup Ending
       /\ Obj(a)' = Obj(a)
       /\ call'[a].pc \in {"u_live", "u_dead"} => BodyDone(Obj(a))
       /\ call'[a].pc = "u_dead" => Obj(a) \notin live

OrdinaryCall(b) == call'[b] = call[b] \/ QuietCall(b)

\* Nothing fresh becomes known, and what a reset holds is unregistered.
OrdinaryLists ==
  /\ live' \subseteq live
  /\ \A u \in Threads : Fresh(u) /\ Listed(u)' => Listed(u)
  /\ \A u \in Threads : IsMain(u)' => IsMain(u)
  /\ CollectedInv'

Ordinary ==
  /\ \A u \in Threads : OrdinaryObject(u)
  /\ \A b \in Actors : OrdinaryCall(b)
  /\ OrdinaryLists

\* Ordinary steps keep the invariant of objects.
LEMMA OrdinaryLife ==
  ASSUME TypeOK, LifeInv, Ordinary
  PROVE LifeInv'
<1>1. \A t \in Threads : Fresh(t)' => Fresh(t)
  BY DEF Ordinary, Fresh, OrdinaryObject, OrdinaryCall, QuietCall, Obj, Freed
<1>2. FreshInv'
  BY <1>1 DEF LifeInv, FreshInv, Ordinary, OrdinaryObject, OrdinaryCall, OrdinaryLists, QuietCall, Obj
<1>3. CreatorInv'
  <2> SUFFICES ASSUME NEW a \in Actors, call'[a].pc \in Creating
               PROVE /\ Allocated(Obj(a))'
                     /\ body'[Obj(a)'] = "none"
                     /\ Obj(a)' # mainThread' /\ Obj(a)' # reset'.main
                     /\ call'[a].pc = "c_free" => Obj(a)' \notin live'
                     /\ \A b \in Actors :
                          call'[b].pc \in Creating /\ Obj(b)' = Obj(a)' => b = a
    BY DEF CreatorInv
  <2>1. call[a].pc \in Creating /\ Obj(a)' = Obj(a) /\ Obj(a) \in Threads
    BY DEF Ordinary, OrdinaryCall, QuietCall, LifeInv, NamesInv, Obj
  <2>2. Creates(a, Obj(a))'
    BY <2>1 DEF Creates
  <2>3. Allocated(Obj(a))' /\ body'[Obj(a)] = "none"
    BY <2>1, <2>2 DEF Ordinary, OrdinaryObject, LifeInv, CreatorInv, Allocated
  <2>4. Obj(a) # mainThread' /\ Obj(a) # reset'.main
    BY <2>1 DEF Ordinary, OrdinaryLists, IsMain, LifeInv, CreatorInv
  <2>5. call'[a].pc = "c_free" => Obj(a) \notin live'
    BY <2>1 DEF Ordinary, OrdinaryCall, OrdinaryLists, QuietCall, LifeInv, CreatorInv
  <2>6. ASSUME NEW b \in Actors, call'[b].pc \in Creating, Obj(b)' = Obj(a)'
        PROVE b = a
    BY <2>1, <2>6 DEF Ordinary, OrdinaryCall, QuietCall, LifeInv, CreatorInv, Obj
  <2> QED
    BY <2>1, <2>3, <2>4, <2>5, <2>6
<1>4. CondemnedInv'
  <2> SUFFICES ASSUME NEW a \in Actors
               PROVE /\ call'[a].pc \in {"u_live", "u_dead", "u_delete"} => BodyDone(Obj(a))'
                     /\ call'[a].pc \in {"u_dead", "u_delete"} => Obj(a)' \notin live'
                     /\ call'[a].pc = "u_delete" => Allocated(Obj(a))' /\ obj'[Obj(a)'].dead
                     /\ call'[a].pc = "r_delete" =>
                          /\ BodyDone(call[a].victim)' /\ call'[a].victim \notin live'
                          /\ Allocated(call[a].victim)' /\ obj'[call'[a].victim].dead
    BY DEF CondemnedInv
  <2>1. \A u \in Threads : BodyDone(u) => BodyDone(u)'
    BY DEF Ordinary, OrdinaryObject, BodyDone
  <2>2. \A u \in Threads : (\E b \in Actors : Claims(b, u)') /\ Allocated(u) => Allocated(u)'
    BY DEF Ordinary, OrdinaryObject, Allocated
  <2>3. CASE call'[a] = call[a]
    BY <2>1, <2>2, <2>3 DEF LifeInv, CondemnedInv, NamesInv, Ending, Claims, Obj, Ordinary, OrdinaryLists, OrdinaryObject
  <2>4. CASE QuietCall(a)
    BY <2>1, <2>4 DEF LifeInv, CondemnedInv, NamesInv, QuietCall, Ending, Ordinary, OrdinaryLists
  <2> QED
    BY <2>3, <2>4 DEF Ordinary, OrdinaryCall
<1>5. MainInv'
  BY DEF LifeInv, MainInv, Ordinary, OrdinaryLists, OrdinaryObject, IsMain
<1>6. NamesInv'
  BY DEF LifeInv, NamesInv, Ordinary, OrdinaryCall, QuietCall, Obj
<1>7. LiveHandlesAreAllocated'
  BY DEF TypeOK, LifeInv, LiveHandlesAreAllocated, Ordinary, OrdinaryLists, OrdinaryObject, Allocated
<1>8. NoDeleteUnderRunningBody'
  BY DEF LifeInv, NoDeleteUnderRunningBody, Ordinary, OrdinaryObject, Freed, Allocated
<1>9. \A t \in Threads, a \in Actors : Claims(a, t)' => Claims(a, t)
  BY DEF Ordinary, OrdinaryCall, QuietCall, Claims, Obj
<1>10. DeletedOnce'
  BY <1>9 DEF LifeInv, DeletedOnce, Ordinary, OrdinaryObject, Allocated
<1> QED
  BY <1>2, <1>3, <1>4, <1>5, <1>6, <1>7, <1>8, <1>10 DEF LifeInv, Ordinary, OrdinaryLists

\* The calls of the other actors stay where they are.
StepsAlone(a) == \A b \in Actors \ {a} : call'[b] = call[b]

KeepsObjects ==
  \A u \in Threads : obj'[u].st = obj[u].st /\ (obj[u].dead => obj'[u].dead)

KeepsUses == \A u \in Threads : obj'[u].uses = obj[u].uses

\* A step of one call that changes the registry at most by removing from it
\* names nothing new.
LEMMA SameLists ==
  ASSUME TypeOK, LifeInv, NEW a \in Actors, StepsAlone(a),
         UNCHANGED <<zombies, mainThread, reset>>, live' \subseteq live,
         call'[a].batch \subseteq call[a].batch, call'[a].keep \subseteq call[a].keep
  PROVE OrdinaryLists
<1>1. \A u \in Threads : Listed(u)' => Listed(u)
  BY DEF Listed, StepsAlone
<1> QED
  BY <1>1 DEF OrdinaryLists, IsMain, LifeInv, CollectedInv

\* A quiet step of one call.
LEMMA QuietOrdinary ==
  ASSUME TypeOK, LifeInv, NEW a \in Actors, StepsAlone(a), QuietCall(a),
         UNCHANGED body, KeepsObjects, OrdinaryLists
  PROVE Ordinary
  BY DEF Ordinary, OrdinaryObject, OrdinaryCall, KeepsObjects, StepsAlone

\* A step that leaves the use counts and the users of every object alone
\* keeps them equal.
LEMMA SameUsers ==
  ASSUME UsesCounted,
         \A u \in Threads : Allocated(u)' =>
           /\ Allocated(u)
           /\ obj'[u].uses = obj[u].uses
           /\ \A b \in Actors : (b \in Users(u))' <=> b \in Users(u)
  PROVE UsesCounted'
<1> SUFFICES ASSUME NEW u \in Threads, Allocated(u)'
             PROVE  obj'[u].uses = Cardinality(Users(u)')
  BY DEF UsesCounted
<1>1. Users(u)' = Users(u)
  BY DEF Users
<1> QED
  BY <1>1 DEF UsesCounted

-----------------------------------------------------------------------------
(* The effect of single assignments.                                       *)

\* A call that moves on keeps everything but its place.
LEMMA GotoEffect ==
  ASSUME call \in [Actors -> CallRec], NEW a \in Actors, NEW p \in PcNames, Goto(a, p)
  PROVE /\ StepsAlone(a)
        /\ call'[a].pc = p /\ call'[a].t = call[a].t
        /\ call'[a].batch = call[a].batch /\ call'[a].keep = call[a].keep
        /\ call'[a].victim = call[a].victim
  BY DEF Goto, StepsAlone, CallRec

\* A call that returns forgets everything.
LEMMA ReturnEffect ==
  ASSUME call \in [Actors -> CallRec], NEW a \in Actors, Return(a)
  PROVE /\ StepsAlone(a)
        /\ call'[a].pc = "idle"
        /\ call'[a].batch = {} /\ call'[a].keep = {}
  BY DEF Return, Idle, StepsAlone

\* UseEnd returns, or is left to unlock.
LEMMA LeaveEffect ==
  ASSUME call \in [Actors -> CallRec], NEW a \in Actors, Leave(a)
  PROVE /\ StepsAlone(a)
        /\ call'[a].pc \in {"idle", "unlock"}
        /\ call'[a].batch \subseteq call[a].batch /\ call'[a].keep \subseteq call[a].keep
  BY GotoEffect, ReturnEffect DEF Leave, PcNames, Touching

\* The assignments to the flags of an object and to its mutex.
FlaggedFrom(q, r, b, x) ==
  \/ q = r
  \/ q = [r EXCEPT !.zombieQueued = b]
  \/ q = [r EXCEPT !.dead = TRUE]
  \/ q = [r EXCEPT !.sessionDead = b]
  \/ q = [r EXCEPT !.detached = b]
  \/ q = [r EXCEPT !.m = x]
  \/ q = [r EXCEPT !.joined = b, !.m = x]
  \/ q = [r EXCEPT !.exited = b]

\* A flag of an object says nothing about its allocation or its uses.
LEMMA FlagEffect ==
  ASSUME NEW r \in ObjRec, NEW b \in BOOLEAN, NEW x, NEW q, FlaggedFrom(q, r, b, x)
  PROVE q.st = r.st /\ q.uses = r.uses /\ (r.dead => q.dead)
  BY DEF ObjRec, FlaggedFrom

\* The three orders in which the code writes the deletion of an object.
FreedFrom(q, r) ==
  \/ q = [r EXCEPT !.st = "freed", !.slot = None]
  \/ q = [r EXCEPT !.st = "freed", !.slot = None, !.dead = TRUE]
  \/ q = [r EXCEPT !.st = "freed", !.dead = TRUE, !.slot = None]

\* Deletion of an object.
LEMMA FreeEffect ==
  ASSUME NEW r \in ObjRec, NEW q, FreedFrom(q, r)
  PROVE q.st = "freed" /\ q.uses = r.uses /\ (r.dead => q.dead)
  BY DEF ObjRec, FreedFrom

\* The same for an object in its place.
LEMMA SetFlag ==
  ASSUME obj \in [Threads -> ObjRec], NEW t, NEW b \in BOOLEAN, NEW x,
         \/ obj' = obj
         \/ obj' = [obj EXCEPT ![t].zombieQueued = b]
         \/ obj' = [obj EXCEPT ![t].dead = TRUE]
         \/ obj' = [obj EXCEPT ![t].sessionDead = b]
         \/ obj' = [obj EXCEPT ![t].detached = b]
         \/ obj' = [obj EXCEPT ![t].m = x]
         \/ obj' = [obj EXCEPT ![t].joined = b, ![t].m = x]
         \/ obj' = [obj EXCEPT ![t].exited = b]
  PROVE KeepsObjects /\ KeepsUses
<1> SUFFICES ASSUME NEW u \in Threads
             PROVE /\ obj'[u].st = obj[u].st /\ (obj[u].dead => obj'[u].dead)
                   /\ obj'[u].uses = obj[u].uses
  BY DEF KeepsObjects, KeepsUses
<1>1. CASE u # t
  BY <1>1
<1>2. CASE u = t
  <2> DEFINE r == obj[u]
  <2> DEFINE q == obj'[u]
  <2>1. r \in ObjRec
    OBVIOUS
  <2>2. FlaggedFrom(q, r, b, x)
    BY <1>2 DEF FlaggedFrom
  <2> HIDE DEF r, q
  <2>3. q.st = r.st /\ q.uses = r.uses /\ (r.dead => q.dead)
    BY <2>1, <2>2, FlagEffect
  <2> QED
    BY <2>3 DEF r, q
<1> QED
  BY <1>1, <1>2

\* A step of one call that neither frees nor ends a use.
Calm(a) ==
  /\ StepsAlone(a) /\ QuietCall(a)
  /\ body' = body
  /\ KeepsObjects /\ KeepsUses
  /\ OrdinaryLists
  /\ call[a].pc \in UsePlaces => call'[a].pc \in UsePlaces

\* A calm step keeps the invariant and the use counts.
LEMMA CalmKeeps ==
  ASSUME TypeOK, LifeInv, UsesCounted, NEW a \in Actors, Calm(a)
  PROVE LifeInv' /\ UsesCounted'
<1>1. LifeInv'
  BY QuietOrdinary, OrdinaryLife DEF Calm
<1>2. \A u \in Threads : \A b \in Actors : (b \in Users(u))' <=> b \in Users(u)
  BY DEF Calm, StepsAlone, QuietCall, Users, Obj
<1>3. \A u \in Threads : Allocated(u)' => Allocated(u) /\ obj'[u].uses = obj[u].uses
  BY DEF Calm, KeepsObjects, KeepsUses, Allocated
<1> QED
  BY <1>1, <1>2, <1>3, SameUsers

\* The steps of a call that only look, lock or set a flag.
LEMMA CalmSteps ==
  ASSUME TypeOK, LifeInv, NEW a \in Actors
  PROVE  \/ UseZombie(a)
         \/ UseDone(a)
         \/ UseLive(a)
         \/ Unlock(a)
         \/ CreateTcb(a)
         \/ CreateUndo(a)
         \/ CreateAssign(a)
         \/ CreateLog(a)
         \/ JoinLock(a)
         \/ JoinWake(a)
         \/ JoinHost(a)
         \/ JoinHostWait(a)
         \/ JoinErase(a)
         \/ JoinLog(a)
         \/ DetachLock(a)
         \/ QueueFlag(a)
         \/ AttrGetLock(a)
         \/ ExitLock(a)
         => Calm(a)
<1>c. call \in [Actors -> CallRec]
  BY DEF TypeOK
<1>o. obj \in [Threads -> ObjRec]
  BY DEF TypeOK
<1>1. ASSUME UseZombie(a) PROVE Calm(a)
  <2>1. StepsAlone(a) /\ call'[a].batch \subseteq call[a].batch /\ call'[a].keep \subseteq call[a].keep
        /\ \/ call'[a].pc \in {"idle", "unlock"}
           \/ Obj(a)' = Obj(a) /\ call'[a].pc \in {"u_done"}
    <3>1. CASE Leave(a)
      BY <3>1, <1>c, LeaveEffect
    <3>2. CASE Goto(a, "u_done")
      BY <3>2, <1>c, GotoEffect DEF PcNames, Touching, Obj
    <3> QED
      BY <1>1, <3>1, <3>2 DEF UseZombie
  <2>2. QuietCall(a) /\ (call[a].pc \in UsePlaces => call'[a].pc \in UsePlaces)
    BY <1>1, <2>1 DEF UseZombie, At, QuietCall, UsePlaces, Creating, Ending
  <2>3. KeepsObjects /\ KeepsUses
    BY <1>1 DEF UseZombie, RestUnchanged, KeepsObjects, KeepsUses
  <2>4. OrdinaryLists
    BY <1>1, <2>1, SameLists DEF UseZombie, RestUnchanged, registry, session
  <2> QED
    BY <1>1, <2>1, <2>2, <2>3, <2>4 DEF UseZombie, Calm, RestUnchanged, threads
<1>2. ASSUME UseDone(a) PROVE Calm(a)
  <2>1. StepsAlone(a) /\ call'[a].batch \subseteq call[a].batch /\ call'[a].keep \subseteq call[a].keep
        /\ \/ call'[a].pc \in {"idle", "unlock"}
           \/ Obj(a)' = Obj(a) /\ call'[a].pc \in {"u_live"}
    <3>1. CASE Leave(a)
      BY <3>1, <1>c, LeaveEffect
    <3>2. CASE Goto(a, "u_live")
      BY <3>2, <1>c, GotoEffect DEF PcNames, Touching, Obj
    <3> QED
      BY <1>2, <3>1, <3>2 DEF UseDone
  <2>5. call'[a].pc = "u_live" => BodyDone(Obj(a))
    <3>1. CASE Leave(a)
      BY <3>1, <1>c, LeaveEffect
    <3> QED
      BY <1>2, <3>1 DEF UseDone
  <2>2. QuietCall(a) /\ (call[a].pc \in UsePlaces => call'[a].pc \in UsePlaces)
    BY <1>2, <2>1, <2>5 DEF UseDone, At, QuietCall, UsePlaces, Creating, Ending
  <2>3. KeepsObjects /\ KeepsUses
    BY <1>2 DEF UseDone, RestUnchanged, KeepsObjects, KeepsUses
  <2>4. OrdinaryLists
    BY <1>2, <2>1, SameLists DEF UseDone, RestUnchanged, registry, session
  <2> QED
    BY <1>2, <2>1, <2>2, <2>3, <2>4 DEF UseDone, Calm, RestUnchanged, threads
<1>3. ASSUME UseLive(a) PROVE Calm(a)
  <2>1. StepsAlone(a) /\ call'[a].batch \subseteq call[a].batch /\ call'[a].keep \subseteq call[a].keep
        /\ \/ call'[a].pc \in {"idle", "unlock"}
           \/ Obj(a)' = Obj(a) /\ call'[a].pc \in {"u_dead"}
    <3>1. CASE Leave(a)
      BY <3>1, <1>c, LeaveEffect
    <3>2. CASE Goto(a, "u_dead")
      BY <3>2, <1>c, GotoEffect DEF PcNames, Touching, Obj
    <3> QED
      BY <1>3, <3>1, <3>2 DEF UseLive
  <2>5. BodyDone(Obj(a)) /\ (call'[a].pc = "u_dead" => Obj(a) \notin live)
    <3>1. CASE Leave(a)
      BY <3>1, <1>3, <1>c, LeaveEffect DEF LifeInv, CondemnedInv, UseLive, At
    <3> QED
      BY <1>3, <3>1 DEF UseLive, LifeInv, CondemnedInv, At
  <2>2. QuietCall(a) /\ (call[a].pc \in UsePlaces => call'[a].pc \in UsePlaces)
    BY <1>3, <2>1, <2>5 DEF UseLive, At, QuietCall, UsePlaces, Creating, Ending
  <2>3. KeepsObjects /\ KeepsUses
    BY <1>3 DEF UseLive, RestUnchanged, KeepsObjects, KeepsUses
  <2>4. OrdinaryLists
    BY <1>3, <2>1, SameLists DEF UseLive, RestUnchanged, registry, session
  <2> QED
    BY <1>3, <2>1, <2>2, <2>3, <2>4 DEF UseLive, Calm, RestUnchanged, threads
<1>4. ASSUME Unlock(a) PROVE Calm(a)
  <2>1. StepsAlone(a) /\ call'[a].batch \subseteq call[a].batch /\ call'[a].keep \subseteq call[a].keep /\ call'[a].pc = "idle"
    BY <1>4, <1>c, ReturnEffect DEF Unlock
  <2>2. QuietCall(a) /\ (call[a].pc \in UsePlaces => call'[a].pc \in UsePlaces)
    BY <1>4, <2>1 DEF Unlock, At, QuietCall, UsePlaces, Creating, Ending
  <2>3. KeepsObjects /\ KeepsUses
    BY <1>4, <1>o, SetFlag DEF Unlock
  <2>4. OrdinaryLists
    BY <1>4, <2>1, SameLists DEF Unlock, RestUnchanged, registry, session
  <2> QED
    BY <1>4, <2>1, <2>2, <2>3, <2>4 DEF Unlock, Calm, RestUnchanged, threads
<1>5. ASSUME CreateTcb(a) PROVE Calm(a)
  <2>1. StepsAlone(a) /\ call'[a].batch \subseteq call[a].batch /\ call'[a].keep \subseteq call[a].keep
        /\ Obj(a)' = Obj(a) /\ call'[a].pc \in {"c_undo", "c_start"}
    BY <1>5, <1>c, GotoEffect DEF CreateTcb, PcNames, Touching, Obj
  <2>2. QuietCall(a) /\ (call[a].pc \in UsePlaces => call'[a].pc \in UsePlaces)
    BY <1>5, <2>1 DEF CreateTcb, At, QuietCall, UsePlaces, Creating, Ending
  <2>3. KeepsObjects /\ KeepsUses
    BY <1>5 DEF CreateTcb, RestUnchanged, KeepsObjects, KeepsUses
  <2>4. OrdinaryLists
    BY <1>5, <2>1, SameLists DEF CreateTcb, RestUnchanged, registry, session
  <2> QED
    BY <1>5, <2>1, <2>2, <2>3, <2>4 DEF CreateTcb, Calm, RestUnchanged, threads
<1>6. ASSUME CreateUndo(a) PROVE Calm(a)
  <2>1. StepsAlone(a) /\ call'[a].batch \subseteq call[a].batch /\ call'[a].keep \subseteq call[a].keep
        /\ Obj(a)' = Obj(a) /\ call'[a].pc \in {"c_free"}
    BY <1>6, <1>c, GotoEffect DEF CreateUndo, PcNames, Touching, Obj
  <2>5. Obj(a) \notin live'
    BY <1>6 DEF CreateUndo
  <2>2. QuietCall(a) /\ (call[a].pc \in UsePlaces => call'[a].pc \in UsePlaces)
    BY <1>6, <2>1, <2>5 DEF CreateUndo, At, QuietCall, UsePlaces, Creating, Ending
  <2>3. KeepsObjects /\ KeepsUses
    BY <1>6 DEF CreateUndo, RestUnchanged, KeepsObjects, KeepsUses
  <2>4. OrdinaryLists
    BY <1>6, <2>1, SameLists DEF CreateUndo, RestUnchanged, registry, session
  <2> QED
    BY <1>6, <2>1, <2>2, <2>3, <2>4 DEF CreateUndo, Calm, RestUnchanged, threads
<1>7. ASSUME CreateAssign(a) PROVE Calm(a)
  <2>1. StepsAlone(a) /\ call'[a].batch \subseteq call[a].batch /\ call'[a].keep \subseteq call[a].keep
        /\ Obj(a)' = Obj(a) /\ call'[a].pc \in {"r_swap"}
    BY <1>7, <1>c, GotoEffect DEF CreateAssign, PcNames, Touching, Obj
  <2>2. QuietCall(a) /\ (call[a].pc \in UsePlaces => call'[a].pc \in UsePlaces)
    BY <1>7, <2>1 DEF CreateAssign, At, QuietCall, UsePlaces, Creating, Ending
  <2>3. KeepsObjects /\ KeepsUses
    BY <1>7 DEF CreateAssign, RestUnchanged, KeepsObjects, KeepsUses
  <2>4. OrdinaryLists
    BY <1>7, <2>1, SameLists DEF CreateAssign, RestUnchanged, registry, session
  <2> QED
    BY <1>7, <2>1, <2>2, <2>3, <2>4 DEF CreateAssign, Calm, RestUnchanged, threads
<1>8. ASSUME CreateLog(a) PROVE Calm(a)
  <2>1. StepsAlone(a) /\ call'[a].batch \subseteq call[a].batch /\ call'[a].keep \subseteq call[a].keep /\ call'[a].pc = "idle"
    BY <1>8, <1>c, ReturnEffect DEF CreateLog
  <2>2. QuietCall(a) /\ (call[a].pc \in UsePlaces => call'[a].pc \in UsePlaces)
    BY <1>8, <2>1 DEF CreateLog, At, QuietCall, UsePlaces, Creating, Ending
  <2>3. KeepsObjects /\ KeepsUses
    BY <1>8 DEF CreateLog, RestUnchanged, KeepsObjects, KeepsUses
  <2>4. OrdinaryLists
    BY <1>8, <2>1, SameLists DEF CreateLog, RestUnchanged, registry, session
  <2> QED
    BY <1>8, <2>1, <2>2, <2>3, <2>4 DEF CreateLog, Calm, RestUnchanged, threads
<1>9. ASSUME JoinLock(a) PROVE Calm(a)
  <2>1. StepsAlone(a) /\ call'[a].batch \subseteq call[a].batch /\ call'[a].keep \subseteq call[a].keep
        /\ Obj(a)' = Obj(a) /\ call'[a].pc \in {"u_sub", "j_wait"}
    BY <1>9, <1>c, GotoEffect DEF JoinLock, PcNames, Touching, Obj
  <2>2. QuietCall(a) /\ (call[a].pc \in UsePlaces => call'[a].pc \in UsePlaces)
    BY <1>9, <2>1 DEF JoinLock, At, QuietCall, UsePlaces, Creating, Ending
  <2>3. KeepsObjects /\ KeepsUses
    BY <1>9, <1>o, SetFlag DEF JoinLock
  <2>4. OrdinaryLists
    BY <1>9, <2>1, SameLists DEF JoinLock, RestUnchanged, registry, session
  <2> QED
    BY <1>9, <2>1, <2>2, <2>3, <2>4 DEF JoinLock, Calm, RestUnchanged, threads
<1>10. ASSUME JoinWake(a) PROVE Calm(a)
  <2>1. StepsAlone(a) /\ call'[a].batch \subseteq call[a].batch /\ call'[a].keep \subseteq call[a].keep
        /\ Obj(a)' = Obj(a) /\ call'[a].pc \in {"u_sub", "j_host"}
    BY <1>10, <1>c, GotoEffect DEF JoinWake, PcNames, Touching, Obj
  <2>2. QuietCall(a) /\ (call[a].pc \in UsePlaces => call'[a].pc \in UsePlaces)
    BY <1>10, <2>1 DEF JoinWake, At, QuietCall, UsePlaces, Creating, Ending
  <2>3. KeepsObjects /\ KeepsUses
    BY <1>10, <1>o, SetFlag DEF JoinWake
  <2>4. OrdinaryLists
    BY <1>10, <2>1, SameLists DEF JoinWake, RestUnchanged, registry, session
  <2> QED
    BY <1>10, <2>1, <2>2, <2>3, <2>4 DEF JoinWake, Calm, RestUnchanged, threads
<1>11. ASSUME JoinHost(a) PROVE Calm(a)
  <2>0. CASE Goto(a, "j_erase") \/ Goto(a, "j_hostwait")
    <3>1. StepsAlone(a) /\ call'[a].batch \subseteq call[a].batch /\ call'[a].keep \subseteq call[a].keep
          /\ Obj(a)' = Obj(a) /\ call'[a].pc \in {"j_erase", "j_hostwait"}
      BY <2>0, <1>c, GotoEffect DEF PcNames, Touching, Obj
    <3>2. QuietCall(a) /\ call'[a].pc \in UsePlaces
      BY <1>11, <3>1 DEF JoinHost, At, QuietCall, UsePlaces, Creating, Ending
    <3>3. OrdinaryLists
      BY <1>11, <3>1, SameLists DEF JoinHost, registry, session
    <3> QED
      BY <1>11, <3>1, <3>2, <3>3 DEF JoinHost, Calm, KeepsObjects, KeepsUses, threads
  <2>1. CASE call' = call
    <3>1. StepsAlone(a) /\ QuietCall(a) /\ call'[a].pc \in UsePlaces
      BY <1>11, <2>1 DEF JoinHost, At, QuietCall, StepsAlone, UsePlaces, Creating, Ending, Obj
    <3>2. OrdinaryLists
      BY <1>11, <2>1, <3>1, SameLists DEF JoinHost, registry, session
    <3> QED
      BY <1>11, <3>1, <3>2 DEF JoinHost, Calm, KeepsObjects, KeepsUses, threads
  <2> QED
    BY <1>11, <2>0, <2>1 DEF JoinHost
<1>12. ASSUME JoinHostWait(a) PROVE Calm(a)
  <2>1. StepsAlone(a) /\ call'[a].batch \subseteq call[a].batch /\ call'[a].keep \subseteq call[a].keep
        /\ Obj(a)' = Obj(a) /\ call'[a].pc \in {"j_erase"}
    BY <1>12, <1>c, GotoEffect DEF JoinHostWait, PcNames, Touching, Obj
  <2>2. QuietCall(a) /\ (call[a].pc \in UsePlaces => call'[a].pc \in UsePlaces)
    BY <1>12, <2>1 DEF JoinHostWait, At, QuietCall, UsePlaces, Creating, Ending
  <2>3. KeepsObjects /\ KeepsUses
    BY <1>12 DEF JoinHostWait, RestUnchanged, KeepsObjects, KeepsUses
  <2>4. OrdinaryLists
    BY <1>12, <2>1, SameLists DEF JoinHostWait, RestUnchanged, registry, session
  <2> QED
    BY <1>12, <2>1, <2>2, <2>3, <2>4 DEF JoinHostWait, Calm, RestUnchanged, threads
<1>13. ASSUME JoinErase(a) PROVE Calm(a)
  <2>1. StepsAlone(a) /\ call'[a].batch \subseteq call[a].batch /\ call'[a].keep \subseteq call[a].keep
        /\ Obj(a)' = Obj(a) /\ call'[a].pc \in {"j_log"}
    BY <1>13, <1>c, GotoEffect DEF JoinErase, PcNames, Touching, Obj
  <2>2. QuietCall(a) /\ (call[a].pc \in UsePlaces => call'[a].pc \in UsePlaces)
    BY <1>13, <2>1 DEF JoinErase, At, QuietCall, UsePlaces, Creating, Ending
  <2>3. KeepsObjects /\ KeepsUses
    BY <1>13 DEF JoinErase, RestUnchanged, KeepsObjects, KeepsUses
  <2>4. OrdinaryLists
    BY <1>13, <2>1, SameLists DEF JoinErase, RestUnchanged, registry, session
  <2> QED
    BY <1>13, <2>1, <2>2, <2>3, <2>4 DEF JoinErase, Calm, RestUnchanged, threads
<1>14. ASSUME JoinLog(a) PROVE Calm(a)
  <2>1. StepsAlone(a) /\ call'[a].batch \subseteq call[a].batch /\ call'[a].keep \subseteq call[a].keep
        /\ Obj(a)' = Obj(a) /\ call'[a].pc \in {"u_sub"}
    BY <1>14, <1>c, GotoEffect DEF JoinLog, PcNames, Touching, Obj
  <2>2. QuietCall(a) /\ (call[a].pc \in UsePlaces => call'[a].pc \in UsePlaces)
    BY <1>14, <2>1 DEF JoinLog, At, QuietCall, UsePlaces, Creating, Ending
  <2>3. KeepsObjects /\ KeepsUses
    BY <1>14 DEF JoinLog, RestUnchanged, KeepsObjects, KeepsUses
  <2>4. OrdinaryLists
    BY <1>14, <2>1, SameLists DEF JoinLog, RestUnchanged, registry, session
  <2> QED
    BY <1>14, <2>1, <2>2, <2>3, <2>4 DEF JoinLog, Calm, RestUnchanged, threads
<1>15. ASSUME DetachLock(a) PROVE Calm(a)
  <2>1. StepsAlone(a) /\ call'[a].batch \subseteq call[a].batch /\ call'[a].keep \subseteq call[a].keep
        /\ Obj(a)' = Obj(a) /\ call'[a].pc \in {"u_sub", "q_flag"}
    BY <1>15, <1>c, GotoEffect DEF DetachLock, PcNames, Touching, Obj
  <2>2. QuietCall(a) /\ (call[a].pc \in UsePlaces => call'[a].pc \in UsePlaces)
    BY <1>15, <2>1 DEF DetachLock, At, QuietCall, UsePlaces, Creating, Ending
  <2>3. KeepsObjects /\ KeepsUses
    BY <1>15, <1>o, SetFlag DEF DetachLock
  <2>4. OrdinaryLists
    BY <1>15, <2>1, SameLists DEF DetachLock, RestUnchanged, registry, session
  <2> QED
    BY <1>15, <2>1, <2>2, <2>3, <2>4 DEF DetachLock, Calm, RestUnchanged, threads
<1>16. ASSUME QueueFlag(a) PROVE Calm(a)
  <2>1. StepsAlone(a) /\ call'[a].batch \subseteq call[a].batch /\ call'[a].keep \subseteq call[a].keep
        /\ Obj(a)' = Obj(a) /\ call'[a].pc \in {"u_sub", "q_push"}
    BY <1>16, <1>c, GotoEffect DEF QueueFlag, PcNames, Touching, Obj
  <2>2. QuietCall(a) /\ (call[a].pc \in UsePlaces => call'[a].pc \in UsePlaces)
    BY <1>16, <2>1 DEF QueueFlag, At, QuietCall, UsePlaces, Creating, Ending
  <2>3. KeepsObjects /\ KeepsUses
    BY <1>16, <1>o, SetFlag DEF QueueFlag
  <2>4. OrdinaryLists
    BY <1>16, <2>1, SameLists DEF QueueFlag, RestUnchanged, registry, session
  <2> QED
    BY <1>16, <2>1, <2>2, <2>3, <2>4 DEF QueueFlag, Calm, RestUnchanged, threads
<1>17. ASSUME AttrGetLock(a) PROVE Calm(a)
  <2>1. StepsAlone(a) /\ call'[a].batch \subseteq call[a].batch /\ call'[a].keep \subseteq call[a].keep
        /\ Obj(a)' = Obj(a) /\ call'[a].pc \in {"u_sub"}
    BY <1>17, <1>c, GotoEffect DEF AttrGetLock, PcNames, Touching, Obj
  <2>2. QuietCall(a) /\ (call[a].pc \in UsePlaces => call'[a].pc \in UsePlaces)
    BY <1>17, <2>1 DEF AttrGetLock, At, QuietCall, UsePlaces, Creating, Ending
  <2>3. KeepsObjects /\ KeepsUses
    BY <1>17 DEF AttrGetLock, RestUnchanged, KeepsObjects, KeepsUses
  <2>4. OrdinaryLists
    BY <1>17, <2>1, SameLists DEF AttrGetLock, RestUnchanged, registry, session
  <2> QED
    BY <1>17, <2>1, <2>2, <2>3, <2>4 DEF AttrGetLock, Calm, RestUnchanged, threads
<1>18. ASSUME ExitLock(a) PROVE Calm(a)
  <2>1. StepsAlone(a) /\ call'[a].batch \subseteq call[a].batch /\ call'[a].keep \subseteq call[a].keep /\ call'[a].pc = "idle"
    BY <1>18, <1>c, ReturnEffect DEF ExitLock
  <2>2. QuietCall(a) /\ (call[a].pc \in UsePlaces => call'[a].pc \in UsePlaces)
    BY <1>18, <2>1 DEF ExitLock, At, QuietCall, UsePlaces, Creating, Ending
  <2>3. KeepsObjects /\ KeepsUses
    BY <1>18, <1>o, SetFlag DEF ExitLock
  <2>4. OrdinaryLists
    BY <1>18, <2>1, SameLists DEF ExitLock, RestUnchanged, registry, session
  <2> QED
    BY <1>18, <2>1, <2>2, <2>3, <2>4 DEF ExitLock, Calm, RestUnchanged, threads
<1> QED
  BY <1>1, <1>2, <1>3, <1>4, <1>5, <1>6, <1>7, <1>8, <1>9, <1>10, <1>11, <1>12, <1>13, <1>14, <1>15, <1>16, <1>17, <1>18

\* The steps of a call that also move an object between lists.
LEMMA ListSteps ==
  ASSUME TypeOK, LifeInv, NEW a \in Actors
  PROVE  \/ \E mode \in OpNames : CreateCheck(a, mode)
         \/ QueuePush(a) \/ ReapSwap(a) \/ ReapBack(a)
         => Calm(a)
<1>c. call \in [Actors -> CallRec]
  BY DEF TypeOK
<1>1. ASSUME NEW mode \in OpNames, CreateCheck(a, mode) PROVE Calm(a)
  <2>1. /\ StepsAlone(a) /\ call'[a].pc = "c_slot"
        /\ call'[a].batch = {} /\ call'[a].keep = {}
    BY <1>1, <1>c DEF CreateCheck, StepsAlone, Idle
  <2>2. QuietCall(a) /\ call[a].pc \notin UsePlaces
    BY <1>1, <2>1 DEF CreateCheck, CanCall, At, QuietCall, UsePlaces, Creating, Ending
  <2>3. OrdinaryLists
    BY <1>1, <2>1, SameLists DEF CreateCheck, RestUnchanged, registry, session
  <2> QED
    BY <1>1, <2>1, <2>2, <2>3 DEF CreateCheck, Calm, RestUnchanged, KeepsObjects, KeepsUses, threads
<1>2. ASSUME QueuePush(a) PROVE Calm(a)
  <2>1. /\ StepsAlone(a) /\ call'[a].pc = "u_sub" /\ Obj(a)' = Obj(a)
        /\ call'[a].batch = call[a].batch /\ call'[a].keep = call[a].keep
    BY <1>2, <1>c, GotoEffect DEF QueuePush, PcNames, Touching, Obj
  <2>2. QuietCall(a) /\ call'[a].pc \in UsePlaces
    BY <1>2, <2>1 DEF QueuePush, At, QuietCall, UsePlaces, Creating, Ending
  <2>3. ~Fresh(Obj(a))
    BY <1>2 DEF QueuePush, At, LifeInv, FreshInv, NamesInv, UsePlaces
  <2>4. \A u \in Threads : Fresh(u) /\ Listed(u)' => Listed(u)
    BY <1>2, <2>1, <2>3 DEF QueuePush, Listed, StepsAlone, session
  <2>5. OrdinaryLists
    BY <1>2, <2>4 DEF QueuePush, OrdinaryLists, IsMain, LifeInv, CollectedInv, session
  <2> QED
    BY <1>2, <2>1, <2>2, <2>5 DEF QueuePush, Calm, KeepsObjects, KeepsUses, threads
<1>3. ASSUME ReapSwap(a) PROVE Calm(a)
  <2>1. /\ StepsAlone(a) /\ call'[a].pc \in {"c_log", "r_visit"}
        /\ call'[a].batch = zombies /\ call'[a].keep = call[a].keep
    BY <1>3, <1>c DEF ReapSwap, StepsAlone, CallRec
  <2>2. QuietCall(a) /\ call[a].pc \notin UsePlaces
    BY <1>3, <2>1 DEF ReapSwap, At, QuietCall, UsePlaces, Creating, Ending
  <2>3. \A u \in Threads : Listed(u)' => Listed(u)
    BY <1>3, <2>1 DEF ReapSwap, Listed, StepsAlone, session
  <2>4. OrdinaryLists
    BY <1>3, <2>3 DEF ReapSwap, OrdinaryLists, IsMain, LifeInv, CollectedInv, session
  <2> QED
    BY <1>3, <2>1, <2>2, <2>4 DEF ReapSwap, Calm, KeepsObjects, KeepsUses, threads
<1>4. ASSUME ReapBack(a) PROVE Calm(a)
  <2>1. /\ StepsAlone(a) /\ call'[a].pc = "c_log"
        /\ call'[a].batch = call[a].batch /\ call'[a].keep = {}
    BY <1>4, <1>c DEF ReapBack, StepsAlone, CallRec
  <2>2. QuietCall(a) /\ call[a].pc \notin UsePlaces
    BY <1>4, <2>1 DEF ReapBack, At, QuietCall, UsePlaces, Creating, Ending
  <2>3. \A u \in Threads : Listed(u)' => Listed(u)
    BY <1>4, <2>1 DEF ReapBack, Listed, StepsAlone, session
  <2>4. OrdinaryLists
    BY <1>4, <2>3 DEF ReapBack, OrdinaryLists, IsMain, LifeInv, CollectedInv, session
  <2> QED
    BY <1>4, <2>1, <2>2, <2>4 DEF ReapBack, Calm, KeepsObjects, KeepsUses, threads
<1> QED
  BY <1>1, <1>2, <1>3, <1>4

\* The fetch_sub of UseEnd takes its actor out of the users.
LEMMA SubStep ==
  ASSUME TypeOK, LifeInv, UsesCounted, NEW a \in Actors, UseSub(a)
  PROVE  LifeInv' /\ UsesCounted'
<1> DEFINE t == Obj(a)
<1>c. call \in [Actors -> CallRec] /\ obj \in [Threads -> ObjRec]
  BY DEF TypeOK
<1>1. call[a].pc = "u_sub" /\ t \in Threads /\ Allocated(t)
  BY DEF UseSub, At, LifeInv, NamesInv, UsePlaces
<1>2. /\ StepsAlone(a)
      /\ call'[a].batch \subseteq call[a].batch /\ call'[a].keep \subseteq call[a].keep
      /\ \/ call'[a].pc \in {"idle", "unlock"}
         \/ Obj(a)' = Obj(a) /\ call'[a].pc = "u_zombie"
  <2>1. CASE Leave(a)
    BY <2>1, <1>c, LeaveEffect
  <2>2. CASE Goto(a, "u_zombie")
    BY <2>2, <1>c, GotoEffect DEF PcNames, Touching, Obj
  <2> QED
    BY <2>1, <2>2 DEF UseSub
<1>3. QuietCall(a) /\ call'[a].pc \notin UsePlaces
  BY <1>1, <1>2 DEF QuietCall, UsePlaces, Creating, Ending
<1>4. OrdinaryLists
  BY <1>2, SameLists DEF UseSub, RestUnchanged, registry, session
<1>5. /\ KeepsObjects
      /\ obj'[t].uses = obj[t].uses - 1
      /\ \A u \in Threads \ {t} : obj'[u].uses = obj[u].uses
  BY <1>1, <1>c DEF UseSub, KeepsObjects, ObjRec
<1>6. LifeInv'
  BY <1>2, <1>3, <1>4, <1>5, QuietOrdinary, OrdinaryLife DEF UseSub, RestUnchanged, threads
<1>7. \A u \in Threads : Users(u)' = IF u = t THEN Users(u) \ {a} ELSE Users(u)
  BY <1>1, <1>2, <1>3 DEF Users, StepsAlone, Obj
<1>8. a \in Users(t) /\ IsFiniteSet(Users(t))
  BY <1>1, ActorsFinite, FS_Subset DEF Users, UsePlaces
<1>9. Cardinality(Users(t) \ {a}) = Cardinality(Users(t)) - 1
  BY <1>8, FS_RemoveElement
<1>10. UsesCounted'
  BY <1>1, <1>5, <1>7, <1>9 DEF UsesCounted, KeepsObjects, Allocated
<1> QED
  BY <1>6, <1>10

\* A step that is ordinary and changes neither a use count nor the users.
LEMMA OrdinaryKeeps ==
  ASSUME TypeOK, LifeInv, UsesCounted, Ordinary, KeepsUses,
         \A b \in Actors :
           \/ call'[b] = call[b]
           \/ call[b].pc \notin UsePlaces /\ call'[b].pc \notin UsePlaces
  PROVE  LifeInv' /\ UsesCounted'
<1>1. \A u \in Threads : \A b \in Actors : (b \in Users(u))' <=> b \in Users(u)
  BY DEF Users, Obj
<1>2. \A u \in Threads : Allocated(u)' => Allocated(u) /\ obj'[u].uses = obj[u].uses
  BY DEF Ordinary, OrdinaryObject, KeepsUses, Allocated, Freed
<1> QED
  BY <1>1, <1>2, SameUsers, OrdinaryLife

\* An object is deleted by the one that has claimed it, or by its creator.
LEMMA Delete ==
  ASSUME TypeOK, LifeInv, UsesCounted, NEW a \in Actors, NEW t \in Threads,
         StepsAlone(a), QuietCall(a), OrdinaryLists,
         call[a].pc \notin UsePlaces, call'[a].pc \notin UsePlaces \cup Creating,
         body' = body,
         Allocated(t), Freed(t)', t \notin live', body[t] \in {"none", "done"},
         KeepsUses,
         \A u \in Threads : obj[u].dead => obj'[u].dead,
         \A u \in Threads \ {t} : obj'[u].st = obj[u].st,
         \A b \in Actors \ {a} : ~Claims(b, t) /\ ~Creates(b, t)
  PROVE  LifeInv' /\ UsesCounted'
<1>1. \A b \in Actors : ~Claims(b, t)' /\ ~Creates(b, t)'
  BY DEF StepsAlone, QuietCall, Claims, Creates, Obj
<1>2. \A u \in Threads : OrdinaryObject(u)
  BY <1>1 DEF OrdinaryObject
<1>3. Ordinary
  BY <1>2 DEF Ordinary, OrdinaryCall, StepsAlone
<1> QED
  BY <1>3, OrdinaryKeeps DEF StepsAlone

\* Deletion of an object in its place: the other objects stay.
LEMMA SetFreed ==
  ASSUME obj \in [Threads -> ObjRec], NEW t \in Threads,
         \/ obj' = [obj EXCEPT ![t].st = "freed", ![t].slot = None]
         \/ obj' = [obj EXCEPT ![t].st = "freed", ![t].slot = None, ![t].dead = TRUE]
         \/ obj' = [obj EXCEPT ![t].st = "freed", ![t].dead = TRUE, ![t].slot = None]
  PROVE  /\ Freed(t)' /\ KeepsUses
         /\ \A u \in Threads : obj[u].dead => obj'[u].dead
         /\ \A u \in Threads \ {t} : obj'[u].st = obj[u].st
<1> DEFINE r == obj[t]
<1> DEFINE q == obj'[t]
<1>1. r \in ObjRec
  OBVIOUS
<1>2. FreedFrom(q, r)
  BY DEF FreedFrom
<1>3. \A u \in Threads \ {t} : obj'[u] = obj[u]
  OBVIOUS
<1> HIDE DEF r, q
<1>4. q.st = "freed" /\ q.uses = r.uses /\ (r.dead => q.dead)
  BY <1>1, <1>2, FreeEffect
<1> QED
  BY <1>3, <1>4 DEF r, q, Freed, KeepsUses

\* The three deletions of the handlers and the reaper are such deletions.
LEMMA DeleteSteps ==
  ASSUME TypeOK, LifeInv, UsesCounted, NEW a \in Actors,
         UseDelete(a) \/ ReapDelete(a) \/ CreateFree(a)
  PROVE  LifeInv' /\ UsesCounted'
<1>c. call \in [Actors -> CallRec] /\ obj \in [Threads -> ObjRec]
  BY DEF TypeOK
<1>1. CASE UseDelete(a)
  <2>0. PICK t \in Threads : t = Obj(a)
    BY <1>1 DEF UseDelete, At, LifeInv, NamesInv, Ending
  <2>1. /\ call[a].pc = "u_delete" /\ t \in Threads /\ t \notin live /\ Allocated(t)
        /\ body[t] = "done" /\ Claims(a, t)
    BY <1>1, <2>0 DEF UseDelete, At, LifeInv, NamesInv, CondemnedInv, BodyDone, Ending, Claims
  <2>2. /\ StepsAlone(a) /\ call'[a].pc \in {"idle", "unlock"}
        /\ call'[a].batch \subseteq call[a].batch /\ call'[a].keep \subseteq call[a].keep
    BY <1>1, <1>c, LeaveEffect DEF UseDelete
  <2>3. QuietCall(a) /\ OrdinaryLists
    BY <1>1, <2>2, SameLists DEF UseDelete, session, QuietCall, UsePlaces, Creating, Ending
  <2>4. /\ Freed(t)' /\ KeepsUses
        /\ \A u \in Threads : obj[u].dead => obj'[u].dead
        /\ \A u \in Threads \ {t} : obj'[u].st = obj[u].st
    BY <1>1, <1>c, <2>0, SetFreed DEF UseDelete, FinishDelete
  <2>5. \A b \in Actors \ {a} : ~Claims(b, t) /\ ~Creates(b, t)
    BY <2>1 DEF LifeInv, DeletedOnce, CreatorInv, Creates
  <2>6. call[a].pc \notin UsePlaces /\ call'[a].pc \notin UsePlaces \cup Creating
    BY <2>1, <2>2 DEF UsePlaces, Creating
  <2>7. body' = body /\ live' = live
    BY <1>1 DEF UseDelete
  <2> QED
    BY <2>1, <2>2, <2>3, <2>4, <2>5, <2>6, <2>7, Delete
<1>2. CASE ReapDelete(a)
  <2>0. PICK t \in Threads : t = call[a].victim
    BY <1>2 DEF ReapDelete, At, LifeInv, NamesInv
  <2>1. /\ call[a].pc = "r_delete" /\ t \in Threads /\ t \notin live /\ Allocated(t)
        /\ body[t] = "done" /\ Claims(a, t)
    BY <1>2, <2>0 DEF ReapDelete, At, LifeInv, NamesInv, CondemnedInv, BodyDone, Claims
  <2>2. /\ StepsAlone(a) /\ call'[a].pc \in {"r_back", "r_visit"}
        /\ call'[a].batch \subseteq call[a].batch /\ call'[a].keep \subseteq call[a].keep
    BY <1>2, <1>c DEF ReapDelete, StepsAlone, CallRec
  <2>3. QuietCall(a) /\ OrdinaryLists
    BY <1>2, <2>2, SameLists DEF ReapDelete, session, QuietCall, UsePlaces, Creating, Ending
  <2>4. /\ Freed(t)' /\ KeepsUses
        /\ \A u \in Threads : obj[u].dead => obj'[u].dead
        /\ \A u \in Threads \ {t} : obj'[u].st = obj[u].st
    BY <1>2, <1>c, <2>0, SetFreed DEF ReapDelete, FinishDelete
  <2>5. \A b \in Actors \ {a} : ~Claims(b, t) /\ ~Creates(b, t)
    BY <2>1 DEF LifeInv, DeletedOnce, CreatorInv, Creates
  <2>6. call[a].pc \notin UsePlaces /\ call'[a].pc \notin UsePlaces \cup Creating
    BY <2>1, <2>2 DEF UsePlaces, Creating
  <2>7. body' = body /\ live' = live
    BY <1>2 DEF ReapDelete
  <2> QED
    BY <2>1, <2>2, <2>3, <2>4, <2>5, <2>6, <2>7, Delete
<1>3. CASE CreateFree(a)
  <2>0. PICK t \in Threads : t = Obj(a)
    BY <1>3 DEF CreateFree, At, LifeInv, NamesInv, Creating
  <2>1. /\ call[a].pc = "c_free" /\ t \in Threads /\ t \notin live /\ Allocated(t)
        /\ body[t] = "none" /\ Creates(a, t)
    BY <1>3, <2>0 DEF CreateFree, At, LifeInv, NamesInv, CreatorInv, Creating, Creates
  <2>2. /\ StepsAlone(a) /\ call'[a].pc = "idle"
        /\ call'[a].batch \subseteq call[a].batch /\ call'[a].keep \subseteq call[a].keep
    BY <1>3, <1>c, ReturnEffect DEF CreateFree
  <2>3. QuietCall(a) /\ OrdinaryLists
    BY <1>3, <2>2, SameLists DEF CreateFree, session, QuietCall, UsePlaces, Creating, Ending
  <2>4. /\ Freed(t)' /\ KeepsUses
        /\ \A u \in Threads : obj[u].dead => obj'[u].dead
        /\ \A u \in Threads \ {t} : obj'[u].st = obj[u].st
    BY <1>3, <1>c, <2>0, SetFreed DEF CreateFree
  <2>5. \A b \in Actors \ {a} : ~Claims(b, t) /\ ~Creates(b, t)
    <3>1. \A b \in Actors : Claims(b, t) => body[t] = "done"
      BY DEF Claims, LifeInv, CondemnedInv, BodyDone
    <3> QED
      BY <2>1, <3>1 DEF LifeInv, CreatorInv, Creates
  <2>6. call[a].pc \notin UsePlaces /\ call'[a].pc \notin UsePlaces \cup Creating
    BY <2>1, <2>2 DEF UsePlaces, Creating
  <2>7. body' = body /\ live' = live
    BY <1>3 DEF CreateFree, threads
  <2> QED
    BY <2>1, <2>2, <2>3, <2>4, <2>5, <2>6, <2>7, Delete
<1> QED
  BY <1>1, <1>2, <1>3

\* The body of a created thread starts: the object leaves its creator.
LEMMA StartStep ==
  ASSUME TypeOK, LifeInv, UsesCounted, NEW a \in Actors, CreateStart(a)
  PROVE  LifeInv' /\ UsesCounted'
<1>c. call \in [Actors -> CallRec]
  BY DEF TypeOK
<1>0. PICK t \in Threads : t = Obj(a)
  BY DEF CreateStart, At, LifeInv, NamesInv, Creating
<1>1. /\ call[a].pc = "c_start" /\ Creates(a, t) /\ Allocated(t)
      /\ body[t] = "none" /\ ~IsMain(t)
  BY <1>0 DEF CreateStart, At, LifeInv, NamesInv, CreatorInv, Creating, Creates, IsMain
<1>2. /\ StepsAlone(a) /\ call'[a].pc = "c_assign"
      /\ call'[a].batch = call[a].batch /\ call'[a].keep = call[a].keep
  BY <1>c, GotoEffect DEF CreateStart, PcNames, Touching
<1>3. QuietCall(a) /\ OrdinaryLists
  BY <1>2, SameLists DEF CreateStart, registry, session, QuietCall, UsePlaces, Creating, Ending
<1>4. ~Fresh(t)
  BY <1>0, <1>1 DEF Fresh, LifeInv, CreatorInv, Creating, Creates, Allocated, Obj
<1>5. \A b \in Actors : ~Creates(b, t)'
  BY <1>1, <1>2 DEF LifeInv, CreatorInv, Creates, StepsAlone, Creating, Obj
<1>6. \A u \in Threads : OrdinaryObject(u)
  BY <1>0, <1>1, <1>4, <1>5 DEF CreateStart, OrdinaryObject, TypeOK
<1>7. Ordinary
  BY <1>2, <1>3, <1>6 DEF Ordinary, OrdinaryCall, StepsAlone
<1>8. KeepsUses /\ call[a].pc \notin UsePlaces /\ call'[a].pc \notin UsePlaces
  BY <1>1, <1>2 DEF CreateStart, KeepsUses, UsePlaces
<1> QED
  BY <1>2, <1>7, <1>8, OrdinaryKeeps DEF StepsAlone

\* The host thread of an object ends.
LEMMA BodySteps ==
  ASSUME TypeOK, LifeInv, UsesCounted, NEW t \in Threads, BodyReturn(t) \/ BodyEnd(t)
  PROVE  LifeInv' /\ UsesCounted'
<1>1. body[t] \notin {"none", "done"} /\ body'[t] \in {"flag", "push", "last", "done"}
  BY DEF BodyReturn, BodyEnd, BodyFlag, BodyPush, BodyLast, BodyAt, TypeOK
<1>2. Allocated(t) /\ ~Fresh(t) /\ ~IsMain(t)
  <2>1. ~Fresh(t) /\ ~IsMain(t) /\ ~Freed(t)
    BY <1>1 DEF LifeInv, FreshInv, MainInv, IsMain, NoDeleteUnderRunningBody
  <2> QED
    BY <2>1 DEF TypeOK, ObjRec, Fresh, Freed, Allocated
<1>3. \A b \in Actors : ~Creates(b, t)
  BY <1>1 DEF LifeInv, CreatorInv, Creates
<1>4. KeepsObjects /\ KeepsUses
  BY SetFlag DEF BodyReturn, BodyEnd, BodyFlag, BodyPush, BodyLast, KeepsObjects, KeepsUses, TypeOK
<1>5. UNCHANGED <<call, live, mainThread, reset>> /\ \A u \in Threads \ {t} : body'[u] = body[u]
  BY DEF BodyReturn, BodyEnd, BodyFlag, BodyPush, BodyLast, TypeOK, registry, session
<1>6. \A u \in Threads : OrdinaryObject(u)
  BY <1>1, <1>2, <1>3, <1>4, <1>5 DEF OrdinaryObject, KeepsObjects, Creates, Obj
<1>7. zombies' \subseteq zombies \cup {t}
  BY DEF BodyReturn, BodyEnd, BodyFlag, BodyPush, BodyLast, registry
<1>8. \A u \in Threads : Fresh(u) /\ Listed(u)' => Listed(u)
  BY <1>2, <1>5, <1>7 DEF Listed
<1>9. OrdinaryLists
  BY <1>5, <1>8 DEF OrdinaryLists, IsMain, LifeInv, CollectedInv
<1> QED
  BY <1>4, <1>5, <1>6, <1>9, OrdinaryKeeps DEF Ordinary, OrdinaryCall

\* A teardown is ordinary throughout: it deletes only what nobody has claimed.
LEMMA ResetSteps ==
  ASSUME TypeOK, LifeInv, UsesCounted, ResetBegin \/ ResetContinue
  PROVE  LifeInv' /\ UsesCounted'
<1>o. obj \in [Threads -> ObjRec] /\ reset \in ResetRec
  BY DEF TypeOK
<1> SUFFICES /\ call' = call /\ KeepsUses /\ OrdinaryLists
             /\ \A u \in Threads : OrdinaryObject(u)
  BY OrdinaryKeeps DEF Ordinary, OrdinaryCall
<1>1. CASE \/ ResetBegin \/ ResetZombies \/ ResetLive \/ ResetWake \/ ResetGrace
           \/ ResetClear \/ ResetRelease
  <2>1. KeepsObjects /\ KeepsUses
    <3>1. obj' = obj \/ \E t \in Threads : obj' = [obj EXCEPT ![t].sessionDead = TRUE]
      BY <1>1, <1>o DEF ResetRec, ResetBegin, ResetZombies, ResetLive, ResetWake, ResetGrace, ResetClear, ResetRelease, ResetNext
    <3> QED
      BY <1>o, <3>1, SetFlag
  <2>2. call' = call /\ body' = body
    BY <1>1 DEF ResetBegin, ResetZombies, ResetLive, ResetWake, ResetGrace, ResetClear, ResetRelease, ResetNext, threads
  <2>3. \A u \in Threads : OrdinaryObject(u)
    BY <2>1, <2>2 DEF OrdinaryObject, KeepsObjects
  <2>4. OrdinaryLists
    <3>1. CASE ResetBegin
      BY <3>1, <1>o DEF ResetBegin, OrdinaryLists, Listed, IsMain, CollectedInv, ResetRec, registry
    <3>2. CASE ResetZombies
      <4>1. reset'.coll = zombies \X {"zombie"} /\ reset'.todo = reset.todo /\ reset'.main = reset.main /\ reset'.phase = "live"
        BY <3>2, <1>o DEF ResetZombies, ResetRec
      <4> QED
        BY <3>2, <4>1, <2>2 DEF ResetZombies, OrdinaryLists, Listed, IsMain, CollectedInv
    <3>3. CASE ResetLive
      <4>1. /\ reset'.coll = reset.coll \cup (live \X {"live"}) /\ reset'.todo = reset.coll \cup (live \X {"live"})
            /\ reset'.main = mainThread
        BY <3>3 DEF ResetLive
      <4> QED
        BY <3>3, <4>1, <2>2 DEF ResetLive, OrdinaryLists, Listed, IsMain, CollectedInv
    <3>4. CASE ResetWake \/ ResetGrace
      <4>1. /\ reset'.coll = reset.coll /\ reset'.todo \subseteq reset.coll \cup reset.todo
            /\ reset'.main = reset.main /\ reset.phase \in {"wake", "grace"}
        <5>1. \/ \E e : reset' = [reset EXCEPT !.todo = @ \ {e}]
              \/ \E p : reset' = [reset EXCEPT !.phase = p, !.todo = reset.coll]
          BY <3>4 DEF ResetWake, ResetGrace, ResetNext
        <5>2. reset.phase \in {"wake", "grace"}
          BY <3>4 DEF ResetWake, ResetGrace, ResetAt
        <5> QED
          BY <1>o, <5>1, <5>2 DEF ResetRec
      <4>2. UNCHANGED <<live, zombies, mainThread>>
        BY <3>4 DEF ResetWake, ResetGrace, ResetNext, registry
      <4> QED
        BY <4>1, <4>2, <2>2 DEF OrdinaryLists, Listed, IsMain, LifeInv, CollectedInv
    <3>5. CASE ResetClear
      <4>1. reset'.coll = {} /\ reset'.todo = reset.todo /\ reset.todo = {} /\ reset'.main = None /\ reset'.phase = "release"
        BY <3>5, <1>o DEF ResetClear, ResetRec
      <4>2. None \notin Threads
        BY ConstantsOK DEF Actors
      <4> QED
        BY <3>5, <4>1, <4>2, <2>2 DEF ResetClear, OrdinaryLists, Listed, IsMain, CollectedInv
    <3>6. CASE ResetRelease
      <4>1. reset'.coll = reset.coll /\ reset'.todo = reset.todo /\ reset'.main = reset.main /\ reset'.phase = "idle"
        BY <3>6, <1>o DEF ResetRelease, ResetRec
      <4>2. None \notin Threads
        BY ConstantsOK DEF Actors
      <4> QED
        BY <3>6, <4>1, <4>2, <2>2 DEF ResetRelease, OrdinaryLists, Listed, IsMain, CollectedInv, registry
    <3> QED
      BY <1>1, <3>1, <3>2, <3>3, <3>4, <3>5, <3>6
  <2> QED
    BY <2>1, <2>2, <2>3, <2>4
<1>2. CASE ResetReclaim
  <2>1. PICK e \in reset.todo :
          /\ Allocated(e[1])
          /\ IF ResetDeletable(e[1])
             THEN obj' = [obj EXCEPT ![e[1]].st = "freed", ![e[1]].dead = TRUE, ![e[1]].slot = None]
             ELSE obj' = obj
          /\ reset' = [reset EXCEPT !.todo = @ \ {e}]
    BY <1>2 DEF ResetReclaim
  <2>2. UNCHANGED <<call, body, live, zombies, mainThread>> /\ reset.phase = "reclaim"
    BY <1>2 DEF ResetReclaim, ResetAt
  <2>3. PICK t \in Threads : t = e[1]
    BY <1>o DEF ResetRec
  <2>4. OrdinaryLists
    <3>1. /\ reset'.coll = reset.coll /\ reset'.todo \subseteq reset.todo
          /\ reset'.main = reset.main /\ reset'.phase = reset.phase
      BY <2>1, <1>o DEF ResetRec
    <3> QED
      BY <2>2, <3>1 DEF OrdinaryLists, Listed, IsMain, LifeInv, CollectedInv
  <2>5. CASE obj' = obj
    BY <2>2, <2>4, <2>5 DEF KeepsUses, OrdinaryObject
  <2>6. CASE /\ ResetDeletable(t)
             /\ obj' = [obj EXCEPT ![t].st = "freed", ![t].dead = TRUE, ![t].slot = None]
    <3>1. /\ Freed(t)' /\ KeepsUses
          /\ \A u \in Threads : obj[u].dead => obj'[u].dead
          /\ \A u \in Threads \ {t} : obj'[u].st = obj[u].st
      BY <1>o, <2>6, SetFreed
    <3>2. body[t] \in {"none", "done"} /\ t \notin live
      BY <2>1, <2>2, <2>3, <2>6 DEF ResetDeletable, BodyDone, LifeInv, MainInv, CollectedInv
    <3>3. \A b \in Actors : ~Claims(b, t)
      BY <2>6 DEF ResetDeletable, Claims, LifeInv, CondemnedInv
    <3>4. \A b \in Actors : ~Creates(b, t)
      BY <2>6 DEF ResetDeletable, BodyDone, Creates, LifeInv, CreatorInv
    <3>5. \A u \in Threads : OrdinaryObject(u)
      BY <2>1, <2>2, <2>3, <3>1, <3>2, <3>3, <3>4 DEF OrdinaryObject, Claims, Creates, Obj
    <3> QED
      BY <2>2, <2>4, <3>1, <3>5
  <2> QED
    BY <2>1, <2>3, <2>5, <2>6
<1> QED
  BY <1>1, <1>2 DEF ResetContinue

-----------------------------------------------------------------------------
(* The steps that are not ordinary.                                        *)

\* Create puts the object into g_live.
LEMMA InsertStep ==
  ASSUME TypeOK, LifeInv, UsesCounted, NEW a \in Actors, CreateInsert(a)
  PROVE  LifeInv' /\ UsesCounted'
<1>c. call \in [Actors -> CallRec]
  BY DEF TypeOK
<1>0. PICK t \in Threads : t = Obj(a)
  BY DEF CreateInsert, At, LifeInv, NamesInv, Creating
<1>1. /\ call[a].pc = "c_insert" /\ Creates(a, t) /\ Fresh(t) /\ Allocated(t)
      /\ body[t] = "none" /\ ~Listed(t) /\ ~IsMain(t)
  BY <1>0 DEF CreateInsert, At, LifeInv, CreatorInv, FreshInv, Creating, Creates, Fresh, IsMain
<1>2. /\ StepsAlone(a) /\ call'[a].pc = "c_tcb" /\ call'[a].t = t
      /\ call'[a].batch = call[a].batch /\ call'[a].keep = call[a].keep
  BY <1>0, <1>c, GotoEffect DEF CreateInsert, PcNames, Touching, Obj
<1>3. UNCHANGED <<obj, body, zombies, mainThread, reset>> /\ live' = live \cup {t}
  BY <1>0 DEF CreateInsert, threads, session
<1>4. \A u \in Threads : Fresh(u)' => Fresh(u) /\ u # t
  BY <1>0, <1>1, <1>2, <1>3 DEF Fresh, StepsAlone, Obj, LifeInv, CreatorInv, Creating, Creates, Allocated
<1>5. \A u \in Threads : Listed(u)' => Listed(u) \/ u = t
  BY <1>2, <1>3 DEF Listed, StepsAlone
<1>6. FreshInv'
  BY <1>2, <1>3, <1>4, <1>5 DEF LifeInv, FreshInv, StepsAlone, UsePlaces, Obj
<1>7. CreatorInv'
  BY <1>0, <1>1, <1>2, <1>3 DEF LifeInv, CreatorInv, Creating, Creates, StepsAlone, Obj, Allocated
<1>8. CondemnedInv'
  BY <1>1, <1>2, <1>3 DEF LifeInv, CondemnedInv, StepsAlone, Obj, Allocated, BodyDone
<1>9. CollectedInv'
  BY <1>1, <1>3 DEF LifeInv, CollectedInv, Listed
<1>10. NamesInv' /\ MainInv' /\ LiveHandlesAreAllocated' /\ NoDeleteUnderRunningBody'
  BY <1>1, <1>2, <1>3 DEF LifeInv, NamesInv, MainInv, LiveHandlesAreAllocated, NoDeleteUnderRunningBody,
     StepsAlone, Obj, Allocated, Freed, Creating
<1>11. DeletedOnce'
  BY <1>2, <1>3 DEF LifeInv, DeletedOnce, Claims, StepsAlone, Obj, Allocated
<1>12. UsesCounted'
  BY <1>1, <1>2, <1>3, SameUsers DEF StepsAlone, Users, UsePlaces, Obj, Allocated
<1> QED
  BY <1>6, <1>7, <1>8, <1>9, <1>10, <1>11, <1>12 DEF LifeInv

\* UseBegin: the handle is registered, so its object is not fresh.
LEMMA UseBeginStep ==
  ASSUME TypeOK, LifeInv, UsesCounted, NEW a \in Actors, At(a, "idle"), NEW t \in Threads,
         NEW p \in {"j_self", "d_lock", "g_lock"}, NEW mode, UseBegin(a, t, p, mode)
  PROVE  LifeInv' /\ UsesCounted'
<1>c. call \in [Actors -> CallRec] /\ obj \in [Threads -> ObjRec]
  BY DEF TypeOK
<1>1. t \in live /\ Allocated(t) /\ ~Fresh(t)
  BY DEF UseBegin, LifeInv, LiveHandlesAreAllocated, FreshInv, Listed
<1>2. /\ StepsAlone(a) /\ call'[a].pc = p /\ call'[a].t = t
      /\ call'[a].batch = {} /\ call'[a].keep = {}
  BY <1>c DEF UseBegin, StepsAlone, Idle
<1>3. UNCHANGED <<body, live, zombies, mainThread, reset>>
  BY DEF UseBegin, RestUnchanged, threads, registry, session
<1>4. /\ KeepsObjects
      /\ obj'[t].uses = obj[t].uses + 1
      /\ \A u \in Threads \ {t} : obj'[u].uses = obj[u].uses
  BY <1>c DEF UseBegin, KeepsObjects, ObjRec
<1>5. \A u \in Threads : Fresh(u)' => Fresh(u)
  BY <1>2, <1>4 DEF Fresh, StepsAlone, KeepsObjects, Obj
<1>6. \A u \in Threads : Listed(u)' => Listed(u)
  BY <1>2, <1>3 DEF Listed, StepsAlone
<1>7. FreshInv'
  BY <1>1, <1>2, <1>3, <1>5, <1>6 DEF LifeInv, FreshInv, StepsAlone, Obj
<1>8. CreatorInv'
  BY <1>2, <1>3, <1>4 DEF LifeInv, CreatorInv, NamesInv, Creating, StepsAlone, KeepsObjects, Obj, Allocated
<1>9. CondemnedInv'
  BY <1>2, <1>3, <1>4 DEF LifeInv, CondemnedInv, NamesInv, Ending, StepsAlone, KeepsObjects, Obj, Allocated, BodyDone
<1>10. NamesInv' /\ MainInv' /\ CollectedInv' /\ NoDeleteUnderRunningBody'
  BY <1>2, <1>3, <1>4 DEF LifeInv, NamesInv, MainInv, CollectedInv, NoDeleteUnderRunningBody,
     StepsAlone, KeepsObjects, Obj, Freed
<1>11. LiveHandlesAreAllocated' /\ DeletedOnce'
  BY <1>2, <1>3, <1>4 DEF TypeOK, LifeInv, LiveHandlesAreAllocated, DeletedOnce, Claims,
     StepsAlone, KeepsObjects, Obj, Allocated
<1>12. UsesCounted'
  <2>1. \A u \in Threads : Users(u)' = IF u = t THEN Users(u) \cup {a} ELSE Users(u)
    BY <1>2 DEF At, Users, UsePlaces, StepsAlone, Obj
  <2>2. a \notin Users(t) /\ IsFiniteSet(Users(t))
    BY ActorsFinite, FS_Subset DEF At, Users, UsePlaces
  <2>3. Cardinality(Users(t) \cup {a}) = Cardinality(Users(t)) + 1
    BY <2>2, FS_AddElement
  <2> QED
    BY <1>1, <1>4, <2>1, <2>3 DEF UsesCounted, KeepsObjects, Allocated
<1> QED
  BY <1>7, <1>8, <1>9, <1>10, <1>11, <1>12 DEF LifeInv

\* A new object: all its fields are known and the others are as before.
LEMMA SetNew ==
  ASSUME obj \in [Threads -> ObjRec], NEW t \in Threads, NEW s, NEW d,
         obj' = [obj EXCEPT ![t] = NewThread(s, d)]
  PROVE  /\ obj'[t].st = "alloc" /\ obj'[t].uses = 0
         /\ \A u \in Threads \ {t} : obj'[u] = obj[u]
  BY DEF NewThread, Unallocated

\* Create allocates the object.
LEMMA AllocStep ==
  ASSUME TypeOK, LifeInv, UsesCounted, NEW a \in Actors, CreateSlot(a)
  PROVE  LifeInv' /\ UsesCounted'
<1>c. call \in [Actors -> CallRec] /\ obj \in [Threads -> ObjRec]
  BY DEF TypeOK
<1>a. call[a].pc = "c_slot" /\ UNCHANGED <<body, live, zombies, mainThread, reset>>
  BY DEF CreateSlot, At, threads, session
<1>1. CASE Return(a) /\ obj' = obj
  <2>1. /\ StepsAlone(a) /\ call'[a].pc = "idle" /\ call'[a].batch = {} /\ call'[a].keep = {}
    BY <1>1, <1>c, ReturnEffect
  <2>2. QuietCall(a) /\ OrdinaryLists /\ call[a].pc \notin UsePlaces
    BY <1>a, <2>1, SameLists DEF QuietCall, UsePlaces, Creating, Ending
  <2> QED
    BY <1>1, <1>a, <2>1, <2>2, CalmKeeps DEF Calm, KeepsObjects, KeepsUses
<1>2. ASSUME NEW t \in Threads, NEW s, obj[t].st = "none",
             obj' = [obj EXCEPT ![t] = NewThread(s, call[a].mode = "createDetached")],
             call' = [call EXCEPT ![a].pc = "c_insert", ![a].t = t]
      PROVE  LifeInv' /\ UsesCounted'
  <2>1. /\ StepsAlone(a) /\ call'[a].pc = "c_insert" /\ call'[a].t = t
        /\ call'[a].batch = call[a].batch /\ call'[a].keep = call[a].keep
    BY <1>2, <1>c DEF StepsAlone, CallRec
  <2>2. /\ obj'[t].st = "alloc" /\ obj'[t].uses = 0
        /\ \A u \in Threads \ {t} : obj'[u] = obj[u]
    BY <1>2, <1>c, SetNew
  <2>3. /\ Fresh(t) /\ ~Listed(t) /\ body[t] = "none" /\ ~IsMain(t)
        /\ \A b \in Actors : call[b].pc \in UsePlaces => Obj(b) # t
    BY <1>2 DEF Fresh, LifeInv, FreshInv, IsMain, Listed
  <2>4. \A u \in Threads : Fresh(u)' => Fresh(u)
    BY <2>1, <2>2, <2>3 DEF Fresh, StepsAlone, Obj
  <2>5. \A u \in Threads : Listed(u)' => Listed(u)
    BY <1>a, <2>1 DEF Listed, StepsAlone
  <2>6. FreshInv'
    BY <1>a, <2>1, <2>4, <2>5 DEF LifeInv, FreshInv, StepsAlone, UsePlaces, Obj
  <2>7. CreatorInv'
    <3> SUFFICES ASSUME NEW b \in Actors, call'[b].pc \in Creating
                 PROVE  /\ Allocated(Obj(b))' /\ body'[Obj(b)'] = "none"
                        /\ Obj(b)' # mainThread' /\ Obj(b)' # reset'.main
                        /\ call'[b].pc = "c_free" => Obj(b)' \notin live'
                        /\ \A d \in Actors :
                             call'[d].pc \in Creating /\ Obj(d)' = Obj(b)' => d = b
      BY DEF CreatorInv
    <3>1. \A d \in Actors \ {a} : call'[d].pc \in Creating => Obj(d)' = Obj(d) /\ Obj(d) # t
      BY <1>2, <2>1 DEF StepsAlone, Obj, LifeInv, CreatorInv, Allocated
    <3>2. CASE b = a
      BY <1>a, <2>1, <2>2, <2>3, <3>1, <3>2 DEF Obj, Allocated, IsMain
    <3>3. CASE b # a
      <4>1. /\ call[b].pc \in Creating /\ call'[b] = call[b] /\ Obj(b) \in Threads
            /\ Obj(b)' = Obj(b) /\ Obj(b) # t
        BY <2>1, <3>1, <3>3 DEF StepsAlone, LifeInv, NamesInv
      <4>2. \A d \in Actors : call'[d].pc \in Creating /\ Obj(d)' = Obj(b)' => d = b
        <5>1. Obj(a)' = t
          BY <2>1 DEF Obj
        <5> QED
          BY <2>1, <3>1, <4>1, <5>1 DEF StepsAlone, LifeInv, CreatorInv
      <4> QED
        BY <1>a, <2>2, <4>1, <4>2 DEF LifeInv, CreatorInv, Allocated
    <3> QED
      BY <3>2, <3>3
  <2>8. CondemnedInv'
    <3>1. \A b \in Actors : call[b].pc \in {"u_live", "u_dead", "u_delete"} => Obj(b) # t /\ Obj(b) \in Threads
      BY <2>3 DEF LifeInv, CondemnedInv, NamesInv, Ending, BodyDone
    <3>2. \A b \in Actors : call[b].pc = "r_delete" => call[b].victim # t /\ call[b].victim \in Threads
      BY <2>3 DEF LifeInv, CondemnedInv, NamesInv, BodyDone
    <3>3. \A b \in Actors \ {a} : call'[b] = call[b] /\ Obj(b)' = Obj(b)
      BY <2>1 DEF StepsAlone, Obj
    <3> QED
      BY <1>a, <2>1, <2>2, <3>1, <3>2, <3>3 DEF LifeInv, CondemnedInv, Allocated, BodyDone
  <2>9. NamesInv' /\ MainInv' /\ CollectedInv' /\ NoDeleteUnderRunningBody'
    BY <1>a, <2>1, <2>2 DEF LifeInv, NamesInv, MainInv, CollectedInv, NoDeleteUnderRunningBody,
       StepsAlone, UsePlaces, Ending, Obj, Freed
  <2>10. LiveHandlesAreAllocated' /\ DeletedOnce'
    <3>1. LiveHandlesAreAllocated'
      BY <1>2, <1>a, <2>1, <2>2, <2>3 DEF TypeOK, LifeInv, LiveHandlesAreAllocated, Allocated
    <3>2. DeletedOnce'
      <4>1. \A b \in Actors \ {a}, u \in Threads : Claims(b, u)' => Claims(b, u)
        BY <2>1 DEF Claims, StepsAlone, Obj
      <4>2. \A u \in Threads : ~Claims(a, u)'
        BY <2>1 DEF Claims
      <4>3. \A u \in Threads : Allocated(u) => Allocated(u)'
        BY <2>2 DEF Allocated
      <4> QED
        BY <4>1, <4>2, <4>3 DEF LifeInv, DeletedOnce
    <3> QED
      BY <3>1, <3>2
  <2>11. UsesCounted'
    <3> SUFFICES ASSUME NEW u \in Threads, Allocated(u)'
                 PROVE  obj'[u].uses = Cardinality(Users(u)')
      BY DEF UsesCounted
    <3>1. Users(u)' = Users(u)
      BY <1>a, <2>1 DEF Users, StepsAlone, UsePlaces, Obj
    <3>2. CASE u = t
      BY <2>2, <2>3, <3>1, <3>2, FS_EmptySet DEF Users
    <3>3. CASE u # t
      BY <2>2, <3>1, <3>3 DEF UsesCounted, Allocated
    <3> QED
      BY <3>2, <3>3
  <2> QED
    BY <2>6, <2>7, <2>8, <2>9, <2>10, <2>11 DEF LifeInv
<1> QED
  BY <1>1, <1>2 DEF CreateSlot

\* CurrentGuestOrMain may allocate and register the main thread's object on
\* the way; the call it is part of goes on quietly.
LEMMA MaterializeStep ==
  ASSUME TypeOK, LifeInv, UsesCounted, NEW a \in Actors, MaterializeMain(a),
         StepsAlone(a), call'[a] = call[a] \/ QuietCall(a),
         call'[a].batch \subseteq call[a].batch, call'[a].keep \subseteq call[a].keep,
         call[a].pc \in UsePlaces => call'[a].pc \in UsePlaces,
         UNCHANGED <<body, zombies, reset>>
  PROVE  LifeInv' /\ UsesCounted'
<1>o. obj \in [Threads -> ObjRec]
  BY DEF TypeOK
<1>u. \A u \in Threads : Users(u)' = Users(u)
  BY DEF Users, StepsAlone, QuietCall, Obj
<1>1. CASE UNCHANGED <<obj, live, mainThread>>
  <2>1. OrdinaryLists
    BY <1>1, SameLists
  <2>2. \A u \in Threads : OrdinaryObject(u)
    BY <1>1 DEF OrdinaryObject
  <2>3. Ordinary
    BY <2>1, <2>2 DEF Ordinary, OrdinaryCall, StepsAlone
  <2>4. UsesCounted'
    BY <1>1, <1>u DEF UsesCounted, Allocated
  <2> QED
    BY <2>3, <2>4, OrdinaryLife
<1>2. ASSUME NEW t \in Threads, obj[t].st = "none",
             obj' = [obj EXCEPT ![t] = NewThread(None, FALSE)],
             live' = live \cup {t}, mainThread' = t
      PROVE  LifeInv' /\ UsesCounted'
  <2>1. /\ obj'[t].st = "alloc" /\ obj'[t].uses = 0
        /\ \A u \in Threads \ {t} : obj'[u] = obj[u]
    BY <1>2, <1>o, SetNew
  <2>2. /\ Fresh(t) /\ ~Listed(t) /\ body[t] = "none"
        /\ \A b \in Actors : call[b].pc \in UsePlaces => Obj(b) # t
    BY <1>2 DEF Fresh, LifeInv, FreshInv
  <2>3. \A b \in Actors : ~Creates(b, t)
    BY <1>2 DEF LifeInv, CreatorInv, Creates, Allocated
  <2>4. \A b \in Actors : ~Claims(b, t)
    BY <2>2 DEF LifeInv, CondemnedInv, Claims, BodyDone
  <2>5. \A b \in Actors : call'[b] = call[b] \/ QuietCall(b)
    BY DEF StepsAlone
  <2>6. \A u \in Threads : Fresh(u)' => Fresh(u) /\ u # t
    BY <2>1, <2>3, <2>5 DEF Fresh, QuietCall, Creates, Creating, Obj
  <2>7. \A u \in Threads : Listed(u)' => Listed(u) \/ u = t
    BY <1>2 DEF Listed, StepsAlone
  <2>8. FreshInv'
    BY <2>5, <2>6, <2>7 DEF LifeInv, FreshInv, QuietCall, Obj
  <2>9. CreatorInv'
    <3>1. ASSUME NEW b \in Actors, call'[b].pc \in Creating
          PROVE  /\ call[b].pc \in Creating /\ Obj(b)' = Obj(b) /\ Obj(b) # t /\ Obj(b) \in Threads
                 /\ call'[b].pc = "c_free" => Obj(b) \notin live'
      BY <1>2, <2>3, <2>5, <3>1 DEF QuietCall, Creates, Obj, LifeInv, CreatorInv, NamesInv
    <3> QED
      <4> SUFFICES ASSUME NEW b \in Actors, call'[b].pc \in Creating
                   PROVE  /\ Allocated(Obj(b))' /\ body'[Obj(b)'] = "none"
                          /\ Obj(b)' # mainThread' /\ Obj(b)' # reset'.main
                          /\ call'[b].pc = "c_free" => Obj(b)' \notin live'
                          /\ \A d \in Actors :
                               call'[d].pc \in Creating /\ Obj(d)' = Obj(b)' => d = b
        BY DEF CreatorInv
      <4>1. \A d \in Actors : call'[d].pc \in Creating /\ Obj(d)' = Obj(b)' => d = b
        BY <3>1 DEF LifeInv, CreatorInv
      <4>2. /\ call[b].pc \in Creating /\ Obj(b)' = Obj(b) /\ Obj(b) # t /\ Obj(b) \in Threads
            /\ call'[b].pc = "c_free" => Obj(b) \notin live'
        BY <3>1
      <4>3. Allocated(Obj(b)) /\ body[Obj(b)] = "none" /\ Obj(b) # reset.main
        BY <4>2 DEF LifeInv, CreatorInv
      <4> QED
        BY <1>2, <2>1, <4>1, <4>2, <4>3 DEF Allocated
  <2>10. CondemnedInv'
    <3>1. \A b \in Actors : call[b].pc \in {"u_live", "u_dead", "u_delete"} => Obj(b) # t
      BY <2>2 DEF LifeInv, CondemnedInv, BodyDone
    <3>2. \A b \in Actors : call[b].pc = "r_delete" => call[b].victim # t
      BY <2>2 DEF LifeInv, CondemnedInv, BodyDone
    <3>3. ASSUME NEW b \in Actors, call'[b] = call[b]
          PROVE  /\ call'[b].pc \in {"u_live", "u_dead", "u_delete"} => BodyDone(Obj(b))'
                 /\ call'[b].pc \in {"u_dead", "u_delete"} => Obj(b)' \notin live'
                 /\ call'[b].pc = "u_delete" => Allocated(Obj(b))' /\ obj'[Obj(b)'].dead
                 /\ call'[b].pc = "r_delete" =>
                      /\ BodyDone(call[b].victim)' /\ call'[b].victim \notin live'
                      /\ Allocated(call[b].victim)' /\ obj'[call'[b].victim].dead
      <4>1. Obj(b)' = Obj(b)
        BY <3>3 DEF Obj
      <4>2. call[b].pc \in {"u_live", "u_dead", "u_delete"} => Obj(b) \in Threads
        BY DEF LifeInv, NamesInv, Ending
      <4>3. call[b].pc = "r_delete" => call[b].victim \in Threads
        BY DEF LifeInv, NamesInv
      <4>4. ASSUME call[b].pc \in {"u_live", "u_dead", "u_delete"}
            PROVE  /\ BodyDone(Obj(b))'
                   /\ call[b].pc \in {"u_dead", "u_delete"} => Obj(b)' \notin live'
                   /\ call[b].pc = "u_delete" => Allocated(Obj(b))' /\ obj'[Obj(b)'].dead
        <5>1. Obj(b) # t /\ Obj(b) \in Threads /\ obj'[Obj(b)] = obj[Obj(b)]
          BY <2>1, <3>1, <4>2, <4>4
        <5> QED
          BY <1>2, <4>1, <4>4, <5>1 DEF LifeInv, CondemnedInv, Allocated, BodyDone
      <4>5. ASSUME call[b].pc = "r_delete"
            PROVE  /\ BodyDone(call[b].victim)' /\ call'[b].victim \notin live'
                   /\ Allocated(call[b].victim)' /\ obj'[call'[b].victim].dead
        <5>1. /\ call[b].victim # t /\ obj'[call[b].victim] = obj[call[b].victim]
              /\ call'[b].victim = call[b].victim
          BY <2>1, <3>2, <3>3, <4>3, <4>5
        <5> QED
          BY <1>2, <4>5, <5>1 DEF LifeInv, CondemnedInv, Allocated, BodyDone
      <4> QED
        BY <3>3, <4>4, <4>5
    <3>4. ASSUME NEW b \in Actors, QuietCall(b)
          PROVE  /\ call'[b].pc \notin {"u_delete", "r_delete"}
                 /\ call'[b].pc \in {"u_live", "u_dead"} => BodyDone(Obj(b))'
                 /\ call'[b].pc = "u_dead" => Obj(b)' \notin live'
      BY <1>2, <2>2, <3>4 DEF QuietCall, Ending, BodyDone
    <3> QED
      BY <2>5, <3>3, <3>4 DEF CondemnedInv
  <2>11. NamesInv'
    BY <2>5 DEF LifeInv, NamesInv, QuietCall, Obj
  <2>12. MainInv' /\ CollectedInv' /\ NoDeleteUnderRunningBody' /\ LiveHandlesAreAllocated'
    <3>1. MainInv'
      BY <1>2, <2>1, <2>2 DEF TypeOK, LifeInv, MainInv
    <3>2. CollectedInv'
      BY <1>2, <2>1, <2>2 DEF TypeOK, LifeInv, CollectedInv, Listed
    <3>3. NoDeleteUnderRunningBody'
      BY <1>2, <2>1, <2>2 DEF TypeOK, LifeInv, NoDeleteUnderRunningBody, Freed
    <3>4. LiveHandlesAreAllocated'
      BY <1>2, <2>1, <2>2 DEF TypeOK, LifeInv, LiveHandlesAreAllocated, Listed, Freed, Allocated
    <3> QED
      BY <3>1, <3>2, <3>3, <3>4
  <2>13. DeletedOnce'
    <3>1. \A b \in Actors, u \in Threads : Claims(b, u)' => Claims(b, u) /\ u # t
      BY <2>4, <2>5 DEF Claims, QuietCall, Obj
    <3> QED
      BY <2>1, <3>1 DEF LifeInv, DeletedOnce, Allocated
  <2>14. UsesCounted'
    <3> SUFFICES ASSUME NEW u \in Threads, Allocated(u)'
                 PROVE  obj'[u].uses = Cardinality(Users(u)')
      BY DEF UsesCounted
    <3>1. CASE u = t
      BY <1>u, <2>1, <2>2, <3>1, FS_EmptySet DEF Users
    <3>2. CASE u # t
      BY <1>u, <2>1, <3>2 DEF UsesCounted, Allocated
    <3> QED
      BY <3>1, <3>2
  <2> QED
    BY <2>8, <2>9, <2>10, <2>11, <2>12, <2>13, <2>14 DEF LifeInv
<1> QED
  BY <1>1, <1>2 DEF MaterializeMain

\* UseEnd or the reaper wins t->dead: nobody else holds the claim, because
\* whoever does has set the flag before.
LEMMA ClaimLife ==
  ASSUME TypeOK, LifeInv, UsesCounted, NEW a \in Actors, NEW t \in Threads,
         Allocated(t), ~obj[t].dead, BodyDone(t), t \notin live',
         obj' = [obj EXCEPT ![t].dead = TRUE],
         UNCHANGED <<body, zombies, mainThread, reset>>, live' \subseteq live,
         StepsAlone(a), call[a].pc \notin UsePlaces, Claims(a, t)',
         \/ call'[a].pc = "u_delete"
         \/ call'[a].pc = "r_delete",
         call'[a].batch \subseteq call[a].batch, call'[a].keep \subseteq call[a].keep
  PROVE  LifeInv' /\ UsesCounted'
<1>1. KeepsObjects /\ KeepsUses /\ obj'[t].dead
  <2>1. KeepsObjects /\ KeepsUses
    BY SetFlag DEF TypeOK
  <2>2. obj'[t].dead
    BY DEF TypeOK, ObjRec
  <2> QED
    BY <2>1, <2>2
<1>2. \A b \in Actors : ~Claims(b, t)
  BY DEF LifeInv, CondemnedInv, Claims
<1>3. OrdinaryLists
  BY SameLists
<1>4. \A u \in Threads : Fresh(u)' => Fresh(u)
  BY <1>1 DEF Fresh, StepsAlone, KeepsObjects, Obj
<1>5. FreshInv'
  BY <1>3, <1>4 DEF LifeInv, FreshInv, OrdinaryLists, StepsAlone, UsePlaces, Obj
<1>6. CreatorInv'
  <2>1. \A b \in Actors : call'[b].pc \in Creating =>
          call'[b] = call[b] /\ Obj(b)' = Obj(b) /\ Obj(b) \in Threads
    BY DEF StepsAlone, Creating, LifeInv, NamesInv, Obj
  <2> QED
    BY <1>1, <2>1 DEF LifeInv, CreatorInv, KeepsObjects, Allocated
<1>7. CondemnedInv'
  <2> SUFFICES ASSUME NEW b \in Actors
               PROVE /\ call'[b].pc \in {"u_live", "u_dead", "u_delete"} => BodyDone(Obj(b))'
                     /\ call'[b].pc \in {"u_dead", "u_delete"} => Obj(b)' \notin live'
                     /\ call'[b].pc = "u_delete" => Allocated(Obj(b))' /\ obj'[Obj(b)'].dead
                     /\ call'[b].pc = "r_delete" =>
                          /\ BodyDone(call[b].victim)' /\ call'[b].victim \notin live'
                          /\ Allocated(call[b].victim)' /\ obj'[call'[b].victim].dead
    BY DEF CondemnedInv
  <2>1. CASE b = a
    <3>1. Allocated(t)' /\ BodyDone(t)'
      BY <1>1 DEF KeepsObjects, Allocated, BodyDone
    <3> QED
      BY <1>1, <2>1, <3>1 DEF Claims, Obj, Allocated, BodyDone
  <2>2. CASE b # a
    <3>1. call'[b] = call[b] /\ Obj(b)' = Obj(b)
      BY <2>2 DEF StepsAlone, Obj
    <3>2. \A u \in Threads : BodyDone(u) => BodyDone(u)'
      BY DEF BodyDone
    <3> QED
      BY <1>1, <3>1, <3>2 DEF LifeInv, CondemnedInv, NamesInv, Ending, KeepsObjects, Allocated, BodyDone
  <2> QED
    BY <2>1, <2>2
<1>8. NamesInv'
  <2>1. /\ call'[a].pc \in UsePlaces \cup Ending \cup Creating => Obj(a)' \in Threads
        /\ call'[a].pc = "r_delete" => call'[a].victim \in Threads
    BY DEF Claims, UsePlaces, Creating, Ending, Obj
  <2>2. \A b \in Actors \ {a} : call'[b] = call[b] /\ Obj(b)' = Obj(b)
    BY DEF StepsAlone, Obj
  <2> QED
    BY <2>1, <2>2 DEF LifeInv, NamesInv
<1>9. MainInv' /\ CollectedInv' /\ NoDeleteUnderRunningBody' /\ LiveHandlesAreAllocated'
  BY <1>1, <1>3 DEF TypeOK, LifeInv, MainInv, OrdinaryLists, NoDeleteUnderRunningBody,
     LiveHandlesAreAllocated, KeepsObjects, Freed, Allocated
<1>10. DeletedOnce'
  <2>1. \A b \in Actors \ {a}, u \in Threads : Claims(b, u)' => Claims(b, u) /\ u # t
    BY <1>2 DEF Claims, StepsAlone, Obj
  <2>2. \A u \in Threads : Claims(a, u)' => u = t
    BY DEF Claims, Obj
  <2> QED
    BY <1>1, <2>1, <2>2 DEF LifeInv, DeletedOnce, KeepsObjects, Allocated
<1>11. UsesCounted'
  <2>1. \A u \in Threads : \A b \in Actors : (b \in Users(u))' <=> b \in Users(u)
    BY DEF StepsAlone, Users, UsePlaces, Obj
  <2> QED
    BY <1>1, <2>1, SameUsers DEF KeepsObjects, KeepsUses, Allocated
<1> QED
  BY <1>5, <1>6, <1>7, <1>8, <1>9, <1>10, <1>11 DEF LifeInv

\* The two places where the dead flag is won.
LEMMA ClaimSteps ==
  ASSUME TypeOK, LifeInv, UsesCounted, NEW a \in Actors, UseDead(a) \/ ReapVisit(a)
  PROVE  LifeInv' /\ UsesCounted'
<1>c. call \in [Actors -> CallRec] /\ obj \in [Threads -> ObjRec]
  BY DEF TypeOK
<1>1. CASE UseDead(a)
  <2>0. PICK t \in Threads : t = Obj(a)
    BY <1>1 DEF UseDead, At, LifeInv, NamesInv, Ending
  <2>1. /\ call[a].pc = "u_dead" /\ Allocated(t) /\ BodyDone(t) /\ t \notin live
        /\ obj' = [obj EXCEPT ![t].dead = TRUE]
        /\ UNCHANGED <<body, live, zombies, mainThread, reset>>
    BY <1>1, <2>0 DEF UseDead, At, LifeInv, CondemnedInv, RestUnchanged, threads, registry, session
  <2>2. CASE ~obj[t].dead
    <3>1. Goto(a, "u_delete")
      BY <1>1, <2>0, <2>2 DEF UseDead
    <3>2. /\ StepsAlone(a) /\ call'[a].pc = "u_delete" /\ call'[a].t = t
          /\ call'[a].batch = call[a].batch /\ call'[a].keep = call[a].keep
      BY <2>0, <3>1, <1>c, GotoEffect DEF PcNames, Touching, Obj
    <3>3. Claims(a, t)' /\ call[a].pc \notin UsePlaces
      BY <2>1, <3>2 DEF Claims, Obj, UsePlaces
    <3> QED
      BY <2>1, <2>2, <3>2, <3>3, ClaimLife
  <2>3. CASE obj[t].dead
    <3>1. Leave(a)
      BY <1>1, <2>0, <2>3 DEF UseDead
    <3>2. /\ StepsAlone(a) /\ call'[a].pc \in {"idle", "unlock"}
          /\ call'[a].batch \subseteq call[a].batch /\ call'[a].keep \subseteq call[a].keep
      BY <3>1, <1>c, LeaveEffect
    <3>3. QuietCall(a) /\ OrdinaryLists /\ call[a].pc \notin UsePlaces
      BY <2>1, <3>2, SameLists DEF QuietCall, UsePlaces, Creating, Ending
    <3>4. KeepsObjects /\ KeepsUses
      BY <1>c, <2>1, SetFlag
    <3> QED
      BY <2>1, <3>2, <3>3, <3>4, CalmKeeps DEF Calm
  <2> QED
    BY <2>2, <2>3
<1>2. CASE ReapVisit(a)
  <2>1. PICK t \in Threads :
          /\ t \in call[a].batch
          /\ Allocated(t)
          /\ live' = live \ {t}
          /\ \/ /\ Reapable(t)
                /\ obj' = [obj EXCEPT ![t].dead = TRUE]
                /\ call' = [call EXCEPT ![a].batch = @ \ {t}, ![a].victim = t, ![a].pc = "r_delete"]
             \/ /\ obj' = obj
                /\ call' = [call EXCEPT ![a].batch = @ \ {t}, ![a].keep = @ \cup {t},
                                 ![a].pc = IF call[a].batch = {t} THEN "r_back" ELSE "r_visit"]
    BY <1>2, <1>c DEF ReapVisit, CallRec
  <2>2. call[a].pc = "r_visit" /\ UNCHANGED <<body, zombies, mainThread, reset>>
    BY <1>2 DEF ReapVisit, At, threads, session
  <2>3. CASE /\ Reapable(t)
             /\ obj' = [obj EXCEPT ![t].dead = TRUE]
             /\ call' = [call EXCEPT ![a].batch = @ \ {t}, ![a].victim = t, ![a].pc = "r_delete"]
    <3>1. /\ StepsAlone(a) /\ call'[a].pc = "r_delete" /\ call'[a].victim = t
          /\ call'[a].batch \subseteq call[a].batch /\ call'[a].keep = call[a].keep
      BY <2>3, <1>c DEF StepsAlone, CallRec
    <3>2. Claims(a, t)' /\ call[a].pc \notin UsePlaces
      BY <2>2, <3>1 DEF Claims, UsePlaces
    <3> QED
      BY <2>1, <2>2, <2>3, <3>1, <3>2, ClaimLife DEF Reapable
  <2>4. CASE /\ obj' = obj
             /\ call' = [call EXCEPT ![a].batch = @ \ {t}, ![a].keep = @ \cup {t},
                              ![a].pc = IF call[a].batch = {t} THEN "r_back" ELSE "r_visit"]
    <3>1. /\ StepsAlone(a) /\ call'[a].pc \in {"r_back", "r_visit"}
          /\ call'[a].batch \cup call'[a].keep \subseteq call[a].batch \cup call[a].keep
      BY <2>1, <2>4, <1>c DEF StepsAlone, CallRec
    <3>2. QuietCall(a) /\ call[a].pc \notin UsePlaces
      BY <2>2, <3>1 DEF QuietCall, UsePlaces, Creating, Ending
    <3>3. \A u \in Threads : Listed(u)' => Listed(u)
      BY <2>1, <2>2, <3>1 DEF Listed, StepsAlone
    <3>4. OrdinaryLists
      BY <2>1, <2>2, <3>3 DEF OrdinaryLists, IsMain, LifeInv, CollectedInv
    <3> QED
      BY <2>2, <2>4, <3>1, <3>2, <3>4, CalmKeeps DEF Calm, KeepsObjects, KeepsUses
  <2> QED
    BY <2>1, <2>3, <2>4
<1> QED
  BY <1>1, <1>2

\* The three places that may allocate the main thread's object.
LEMMA MainSteps ==
  ASSUME TypeOK, LifeInv, UsesCounted, NEW a \in Actors,
         SelfCall(a) \/ JoinSelf(a) \/ ExitBegin(a)
  PROVE  LifeInv' /\ UsesCounted'
<1>c. call \in [Actors -> CallRec]
  BY DEF TypeOK
<1>1. CASE SelfCall(a)
  BY <1>1, MaterializeStep DEF SelfCall, StepsAlone, threads
<1>2. CASE JoinSelf(a)
  <2>1. /\ StepsAlone(a) /\ call'[a].pc \in {"u_sub", "j_lock"} /\ Obj(a)' = Obj(a)
        /\ call'[a].batch = call[a].batch /\ call'[a].keep = call[a].keep
    BY <1>2, <1>c, GotoEffect DEF JoinSelf, PcNames, Touching, Obj
  <2>2. QuietCall(a) /\ call'[a].pc \in UsePlaces
    BY <1>2, <2>1 DEF JoinSelf, At, QuietCall, UsePlaces, Creating, Ending
  <2>3. MaterializeMain(a) /\ UNCHANGED <<body, zombies, reset>>
    BY <1>2 DEF JoinSelf, threads
  <2> QED
    BY <2>1, <2>2, <2>3, MaterializeStep
<1>3. CASE ExitBegin(a)
  <2>1. /\ StepsAlone(a) /\ call'[a].pc = "e_lock" /\ call'[a].batch = {} /\ call'[a].keep = {}
    BY <1>3, <1>c DEF ExitBegin, StepsAlone, Idle
  <2>2. QuietCall(a) /\ call[a].pc \notin UsePlaces
    BY <1>3, <2>1 DEF ExitBegin, CanCall, At, QuietCall, UsePlaces, Creating, Ending
  <2>3. MaterializeMain(a) /\ UNCHANGED <<body, zombies, reset>>
    BY <1>3 DEF ExitBegin, threads
  <2> QED
    BY <2>1, <2>2, <2>3, MaterializeStep
<1> QED
  BY <1>1, <1>2, <1>3

-----------------------------------------------------------------------------
(* The theorems.                                                           *)

\* The invariant holds initially.
LEMMA IInvInit ==
  ASSUME Init
  PROVE  IInv
<1>1. TypeOK
  BY IdleType DEF Init, TypeOK, ObjRec, Unallocated, ResetRec
<1>2. \A u \in Threads : obj[u].st = "none" /\ body[u] = "none"
  BY DEF Init, Unallocated
<1>3. \A b \in Actors : call[b].pc = "idle" /\ call[b].batch = {} /\ call[b].keep = {}
  BY DEF Init, Idle
<1>4. None \notin Threads
  BY ConstantsOK DEF Actors
<1>5. FreshInv
  BY <1>2, <1>3, <1>4 DEF Init, FreshInv, Listed, UsePlaces
<1>6. LifeInv
  BY <1>2, <1>3, <1>4, <1>5 DEF Init, LifeInv, CreatorInv, CondemnedInv, MainInv, CollectedInv, NamesInv,
     LiveHandlesAreAllocated, NoDeleteUnderRunningBody, DeletedOnce, Claims, UsePlaces, Ending, Creating, Freed
<1>7. UsesCounted
  BY <1>2 DEF UsesCounted, Allocated
<1> QED
  BY <1>1, <1>6, <1>7 DEF IInv

\* Every step keeps the invariant.
LEMMA IInvStep ==
  ASSUME IInv, [Next]_vars
  PROVE  IInv'
<1> USE DEF IInv
<1>0. TypeOK'
  BY TypeStep DEF LifeInv
<1>1. ASSUME NEW a \in Actors, Begin(a)
      PROVE  LifeInv' /\ UsesCounted'
  <2>1. CASE SelfCall(a) \/ ExitBegin(a)
    BY <2>1, MainSteps
  <2>2. CASE CreateBegin(a)
    BY <2>2, ListSteps, CalmKeeps DEF CreateBegin, OpNames
  <2>3. CASE JoinBegin(a) \/ DetachBegin(a) \/ AttrGetBegin(a)
    <3>1. Known(a) \subseteq Threads
      BY DEF Known, TypeOK
    <3>2. PICK t \in Threads, p \in {"j_self", "d_lock", "g_lock"} :
            At(a, "idle") /\ \E mode : UseBegin(a, t, p, mode)
      BY <2>3, <3>1 DEF JoinBegin, DetachBegin, AttrGetBegin, CanCall
    <3> QED
      BY <3>2, UseBeginStep
  <2> QED
    BY <1>1, <2>1, <2>2, <2>3 DEF Begin
<1>2. ASSUME NEW a \in Actors, Continue(a)
      PROVE  LifeInv' /\ UsesCounted'
  <2>1. CASE \/ UseZombie(a) \/ UseDone(a) \/ UseLive(a) \/ Unlock(a)
             \/ CreateTcb(a) \/ CreateUndo(a) \/ CreateAssign(a) \/ CreateLog(a)
             \/ JoinLock(a) \/ JoinWake(a) \/ JoinHost(a) \/ JoinHostWait(a)
             \/ JoinErase(a) \/ JoinLog(a) \/ DetachLock(a) \/ QueueFlag(a)
             \/ AttrGetLock(a) \/ ExitLock(a)
    BY <2>1, CalmSteps, CalmKeeps
  <2>2. CASE QueuePush(a) \/ ReapSwap(a) \/ ReapBack(a)
    BY <2>2, ListSteps, CalmKeeps
  <2>3. CASE UseSub(a)
    BY <2>3, SubStep
  <2>4. CASE UseDelete(a) \/ ReapDelete(a) \/ CreateFree(a)
    BY <2>4, DeleteSteps
  <2>5. CASE CreateStart(a) \/ CreateInsert(a) \/ CreateSlot(a)
    BY <2>5, StartStep, InsertStep, AllocStep
  <2>6. CASE UseDead(a) \/ ReapVisit(a)
    BY <2>6, ClaimSteps
  <2>7. CASE JoinSelf(a)
    BY <2>7, MainSteps
  <2> QED
    BY <1>2, <2>1, <2>2, <2>3, <2>4, <2>5, <2>6, <2>7
    DEF Continue, UseEnd, CreateContinue, Reap, JoinContinue, DetachContinue
<1>3. CASE UseAfterFree \/ SlotRace \/ UNCHANGED vars
  <2>1. UNCHANGED <<obj, call, body, live, zombies, mainThread, reset>>
    BY <1>3 DEF UseAfterFree, SlotRace, vars, threads, registry, session
  <2>2. \A u \in Threads : Listed(u)' => Listed(u)
    BY <2>1 DEF Listed
  <2>3. Ordinary /\ KeepsUses
    BY <2>1, <2>2 DEF Ordinary, OrdinaryObject, OrdinaryCall, OrdinaryLists, IsMain, KeepsUses, LifeInv, CollectedInv
  <2>4. \A b \in Actors : call'[b] = call[b]
    BY <2>1
  <2>5. TypeOK /\ LifeInv /\ UsesCounted
    OBVIOUS
  <2> QED
    BY <1>0, <2>3, <2>4, <2>5, OrdinaryKeeps
<1> QED
  BY <1>0, <1>1, <1>2, <1>3, BodySteps, ResetSteps DEF Next

\* The invariant holds in every reachable state.
THEOREM Inductive == Spec => []IInv
<1>1. Init => IInv
  BY IInvInit
<1>2. IInv /\ [Next]_vars => IInv'
  BY IInvStep
<1> QED
  BY <1>1, <1>2, PTL DEF Spec

\* Every variable of pthread_hle.cpp keeps its type; in particular the atomic
\* use count never falls below zero.
THEOREM TypeCorrect == Spec => []TypeOK
<1>1. IInv => TypeOK
  BY DEF IInv
<1> QED
  BY <1>1, Inductive, PTL

\* A handle that UseBegin accepts always belongs to an existing object.
THEOREM HandlesAreValid == Spec => []LiveHandlesAreAllocated
<1>1. IInv => LiveHandlesAreAllocated
  BY DEF IInv, LifeInv
<1> QED
  BY <1>1, Inductive, PTL

\* No object is deleted while its host thread is inside ThreadBody.
THEOREM BodiesKeepTheirObject == Spec => []NoDeleteUnderRunningBody
<1>1. IInv => NoDeleteUnderRunningBody
  BY DEF IInv, LifeInv
<1> QED
  BY <1>1, Inductive, PTL

\* UseEnd and the reaper never both get to delete an object.
THEOREM DeletedAtMostOnce == Spec => []DeletedOnce
<1>1. IInv => DeletedOnce
  BY DEF IInv, LifeInv
<1> QED
  BY <1>1, Inductive, PTL

\* The use count of an existing object is the number of calls that use it.
THEOREM UseCountsAreExact == Spec => []UsesCounted
<1>1. IInv => UsesCounted
  BY DEF IInv
<1> QED
  BY <1>1, Inductive, PTL

-----------------------------------------------------------------------------
(* The refinement of ThreadHandles.                                        *)

\* A Join that has consumed the handle and still needs the object.
Joining == {"j_host", "j_hostwait", "j_erase"}

\* A thread is joined after its end, and never both joined and detached.
JoinedInv ==
  /\ \A t \in Threads : obj[t].joined => obj[t].exited /\ ~obj[t].detached
  /\ \A a \in Actors : call[a].pc \in Joining => obj[Obj(a)].joined

\* On the way to the reaper, in its queue or in its hands.
Queued(t) ==
  \/ t \in zombies
  \/ body[t] \in {"flag", "push"}
  \/ \E a \in Actors :
       \/ t \in call[a].batch \cup call[a].keep
       \/ call[a].pc \in {"q_flag", "q_push"} /\ Obj(a) = t

\* Only detached threads that have ended come to the reaper.
QueuedInv == \A t \in Threads : Queued(t) => obj[t].detached /\ obj[t].exited

\* The part of Create in which the guest does not know the handle.
Making == {"c_insert", "c_tcb", "c_undo"}

\* Nobody is given a handle before its Create gives it to him, and nothing
\* has happened to an object that does not exist.
UnpublishedInv ==
  /\ \A t \in Threads :
       obj[t].st = "none" => t \notin handles /\ ~obj[t].exited /\ ~obj[t].detached
  /\ \A a \in Actors : call[a].pc \in Making => Obj(a) \notin handles

HandleInv == JoinedInv /\ QueuedInv /\ UnpublishedInv

\* The abstract state in terms of the model's.
HandleStates == [t \in Threads |-> HandleState(t)]
ClaimSets    == [t \in Threads |-> ClaimsOn(t)]

\* A step that neither changes what a thread has come to nor who knows it.
SameThreads ==
  \A u \in Threads :
    /\ obj'[u].exited = obj[u].exited
    /\ obj'[u].detached = obj[u].detached
    /\ obj'[u].joined = obj[u].joined
    /\ obj'[u].st = "none" <=> obj[u].st = "none"

KeepsPlaces ==
  /\ \A u \in Threads : (Queued(u)' => Queued(u)) /\ (Fresh(u)' <=> Fresh(u))
  /\ \A b \in Actors :
       /\ call'[b].pc \in Joining => call[b].pc \in Joining /\ Obj(b)' = Obj(b)
       /\ call'[b].pc \in Making => call[b].pc \in Making /\ Obj(b)' = Obj(b)

\* Such a step keeps the invariant; the handles change with the registry only.
LEMMA SameStory ==
  ASSUME TypeOK, NamesInv, HandleInv, SameThreads, KeepsPlaces, UNCHANGED handles
  PROVE  /\ HandleInv'
         /\ {t \in Threads : obj'[t].exited} = {t \in Threads : obj[t].exited}
         /\ ClaimSets' = ClaimSets
         /\ live' = live => HandleStates' = HandleStates
<1>1. JoinedInv'
  <2>1. \A b \in Actors : call'[b].pc \in Joining => Obj(b)' \in Threads /\ obj'[Obj(b)'].joined
    BY DEF HandleInv, JoinedInv, SameThreads, KeepsPlaces, NamesInv, Joining, UsePlaces
  <2> QED
    BY <2>1 DEF HandleInv, JoinedInv, SameThreads
<1>2. QueuedInv'
  BY DEF HandleInv, QueuedInv, SameThreads, KeepsPlaces
<1>3. UnpublishedInv'
  BY DEF HandleInv, UnpublishedInv, SameThreads, KeepsPlaces
<1>4. ASSUME live' = live PROVE HandleStates' = HandleStates
  BY <1>4 DEF HandleStates, HandleState, SameThreads, KeepsPlaces
<1>5. ClaimSets' = ClaimSets
  BY DEF ClaimSets, ClaimsOn, SameThreads
<1> QED
  BY <1>1, <1>2, <1>3, <1>4, <1>5 DEF HandleInv, SameThreads

\* A step of the threads' surface seen from outside.
Implements == Handles!Next \/ UNCHANGED Handles!vars

\* Nothing is seen of it when handles and ends stay as they are.
LEMMA Unseen ==
  ASSUME HandleStates' = HandleStates, ClaimSets' = ClaimSets,
         {t \in Threads : obj'[t].exited} = {t \in Threads : obj[t].exited}
  PROVE  Implements
  BY DEF Implements, Handles!vars, HandleStates, ClaimSets

\* The part of Detach that hands an ended thread to the reaper.
Queueing == {"q_flag", "q_push"}

\* A call goes on without changing what it does to a handle.
QuietMove(a) ==
  /\ StepsAlone(a)
  /\ call[a].pc # "c_insert" /\ call'[a].pc # "c_insert"
  /\ call'[a].pc \in Joining => call[a].pc \in Joining /\ Obj(a)' = Obj(a)
  /\ call'[a].pc \in Making => call[a].pc \in Making /\ Obj(a)' = Obj(a)
  /\ call'[a].pc \in Queueing => call[a].pc \in Queueing /\ Obj(a)' = Obj(a)
  /\ call'[a].batch \cup call'[a].keep \subseteq call[a].batch \cup call[a].keep

QuietBodies ==
  \A u \in Threads : body'[u] \in {"flag", "push"} => body[u] \in {"flag", "push"}

\* Such a call brings nothing to the reaper and registers nothing.
LEMMA QuietMoves ==
  ASSUME NEW a \in Actors, SameThreads, QuietMove(a), QuietBodies, zombies' \subseteq zombies
  PROVE  KeepsPlaces
<1>1. \A u \in Threads : Queued(u)' => Queued(u)
  BY DEF QuietMove, QuietBodies, StepsAlone, Queued, Queueing, Obj
<1>2. \A u \in Threads : Fresh(u)' <=> Fresh(u)
  BY DEF QuietMove, StepsAlone, SameThreads, Fresh, Obj
<1>3. \A b \in Actors :
        /\ call'[b].pc \in Joining => call[b].pc \in Joining /\ Obj(b)' = Obj(b)
        /\ call'[b].pc \in Making => call[b].pc \in Making /\ Obj(b)' = Obj(b)
  BY DEF QuietMove, StepsAlone, Obj
<1> QED
  BY <1>1, <1>2, <1>3 DEF KeepsPlaces

Silent(a) ==
  /\ SameThreads /\ QuietMove(a) /\ QuietBodies
  /\ zombies' \subseteq zombies
  /\ UNCHANGED <<handles, live>>

\* A silent step keeps the invariant and is not seen.
LEMMA SilentKeeps ==
  ASSUME TypeOK, NamesInv, HandleInv, NEW a \in Actors, Silent(a)
  PROVE  HandleInv' /\ Implements
BY QuietMoves, SameStory, Unseen DEF Silent

\* The assignments that are not about the end, a join or a detach.
PlainlyFrom(q, r, n, x) ==
  \/ q = r
  \/ q = [r EXCEPT !.uses = n]
  \/ q = [r EXCEPT !.zombieQueued = TRUE]
  \/ q = [r EXCEPT !.dead = TRUE]
  \/ q = [r EXCEPT !.sessionDead = TRUE]
  \/ q = [r EXCEPT !.m = x]
  \/ FreedFrom(q, r)

\* They leave the end, a join and a detach as they were.
LEMMA PlainEffect ==
  ASSUME NEW r \in ObjRec, NEW q, NEW n, NEW x, r.st = "alloc", PlainlyFrom(q, r, n, x)
  PROVE  /\ q.exited = r.exited /\ q.detached = r.detached /\ q.joined = r.joined
         /\ q.st # "none"
<1>1. CASE FreedFrom(q, r)
  BY <1>1 DEF ObjRec, FreedFrom
<1>2. CASE ~FreedFrom(q, r)
  BY <1>2 DEF ObjRec, PlainlyFrom
<1> QED
  BY <1>1, <1>2

\* The same for an object in its place.
LEMMA SetPlain ==
  ASSUME obj \in [Threads -> ObjRec], NEW t \in Threads, NEW n, NEW x, Allocated(t),
         \/ obj' = obj
         \/ obj' = [obj EXCEPT ![t].uses = n]
         \/ obj' = [obj EXCEPT ![t].zombieQueued = TRUE]
         \/ obj' = [obj EXCEPT ![t].dead = TRUE]
         \/ obj' = [obj EXCEPT ![t].sessionDead = TRUE]
         \/ obj' = [obj EXCEPT ![t].m = x]
         \/ obj' = [obj EXCEPT ![t].st = "freed", ![t].slot = None]
         \/ obj' = [obj EXCEPT ![t].st = "freed", ![t].slot = None, ![t].dead = TRUE]
         \/ obj' = [obj EXCEPT ![t].st = "freed", ![t].dead = TRUE, ![t].slot = None]
  PROVE  SameThreads
<1> SUFFICES ASSUME NEW u \in Threads
             PROVE  /\ obj'[u].exited = obj[u].exited /\ obj'[u].detached = obj[u].detached
                    /\ obj'[u].joined = obj[u].joined
                    /\ obj'[u].st = "none" <=> obj[u].st = "none"
  BY DEF SameThreads
<1>1. CASE u # t
  BY <1>1
<1>2. CASE u = t
  <2> DEFINE r == obj[u]
  <2> DEFINE q == obj'[u]
  <2>1. r \in ObjRec /\ r.st = "alloc"
    BY <1>2 DEF Allocated
  <2>2. PlainlyFrom(q, r, n, x)
    BY <1>2 DEF PlainlyFrom, FreedFrom
  <2> HIDE DEF r, q
  <2>3. /\ q.exited = r.exited /\ q.detached = r.detached /\ q.joined = r.joined
        /\ q.st # "none"
    BY <2>1, <2>2, PlainEffect
  <2> QED
    BY <2>1, <2>3 DEF r, q
<1> QED
  BY <1>1, <1>2

\* Where calls are once a handle is out of the question.
QuietPlace(p) == p \in PcNames \ (Making \cup Joining \cup Queueing)

\* A call that moves to such a place, returns, or leaves UseEnd.
LEMMA QuietGoto ==
  ASSUME call \in [Actors -> CallRec], NEW a \in Actors, call[a].pc # "c_insert",
         \/ Return(a) \/ Leave(a)
         \/ \E p : QuietPlace(p) /\ Goto(a, p)
  PROVE  QuietMove(a)
<1>1. CASE \E p : QuietPlace(p) /\ Goto(a, p)
  <2>1. PICK p \in PcNames : QuietPlace(p) /\ Goto(a, p)
    BY <1>1 DEF QuietPlace
  <2> QED
    BY <2>1, GotoEffect DEF QuietMove, QuietPlace, Making
<1>2. CASE Return(a) \/ Leave(a)
  BY <1>2, ReturnEffect, LeaveEffect DEF QuietMove, Making, Joining, Queueing
<1> QED
  BY <1>1, <1>2

\* The steps of a call after which no handle is worth more or less.
LEMMA SilentSteps ==
  ASSUME TypeOK, NamesInv, NEW a \in Actors,
         \/ UseEnd(a) \/ CreateFree(a) \/ CreateAssign(a) \/ CreateLog(a) \/ CreateStart(a)
         \/ JoinLock(a) \/ JoinHost(a) \/ JoinHostWait(a) \/ JoinLog(a)
         \/ QueueFlag(a) \/ AttrGetLock(a) \/ ReapDelete(a)
  PROVE  Silent(a)
<1> USE DEF RestUnchanged, threads, registry, session, history
<1>c. call \in [Actors -> CallRec] /\ obj \in [Threads -> ObjRec]
  BY DEF TypeOK
<1>1. CASE UseSub(a)
  <2>1. call[a].pc = "u_sub" /\ Obj(a) \in Threads
    BY <1>1 DEF UseSub, At, NamesInv, UsePlaces, Ending, Creating
  <2>2. SameThreads
    BY <1>1, <1>c, <2>1, SetPlain DEF UseSub, SameThreads
  <2>3. QuietMove(a)
    BY <1>1, <1>c, <2>1, QuietGoto DEF UseSub, QuietPlace, PcNames, Touching, Making, Joining, Queueing
  <2> QED
    BY <1>1, <2>2, <2>3 DEF UseSub, Silent, QuietBodies
<1>2. CASE UseZombie(a)
  <2>1. call[a].pc = "u_zombie" /\ Obj(a) \in Threads
    BY <1>2 DEF UseZombie, At, NamesInv, UsePlaces, Ending, Creating
  <2>2. SameThreads
    BY <1>2, <1>c, <2>1, SetPlain DEF UseZombie, SameThreads
  <2>3. QuietMove(a)
    BY <1>2, <1>c, <2>1, QuietGoto DEF UseZombie, QuietPlace, PcNames, Touching, Making, Joining, Queueing
  <2> QED
    BY <1>2, <2>2, <2>3 DEF UseZombie, Silent, QuietBodies
<1>3. CASE UseDone(a)
  <2>1. call[a].pc = "u_done" /\ Obj(a) \in Threads
    BY <1>3 DEF UseDone, At, NamesInv, UsePlaces, Ending, Creating
  <2>2. SameThreads
    BY <1>3, <1>c, <2>1, SetPlain DEF UseDone, SameThreads
  <2>3. QuietMove(a)
    BY <1>3, <1>c, <2>1, QuietGoto DEF UseDone, QuietPlace, PcNames, Touching, Making, Joining, Queueing
  <2> QED
    BY <1>3, <2>2, <2>3 DEF UseDone, Silent, QuietBodies
<1>4. CASE UseLive(a)
  <2>1. call[a].pc = "u_live" /\ Obj(a) \in Threads
    BY <1>4 DEF UseLive, At, NamesInv, UsePlaces, Ending, Creating
  <2>2. SameThreads
    BY <1>4, <1>c, <2>1, SetPlain DEF UseLive, SameThreads
  <2>3. QuietMove(a)
    BY <1>4, <1>c, <2>1, QuietGoto DEF UseLive, QuietPlace, PcNames, Touching, Making, Joining, Queueing
  <2> QED
    BY <1>4, <2>2, <2>3 DEF UseLive, Silent, QuietBodies
<1>5. CASE UseDead(a)
  <2>1. call[a].pc = "u_dead" /\ Obj(a) \in Threads
    BY <1>5 DEF UseDead, At, NamesInv, UsePlaces, Ending, Creating
  <2>2. SameThreads
    BY <1>5, <1>c, <2>1, SetPlain DEF UseDead, SameThreads
  <2>3. QuietMove(a)
    BY <1>5, <1>c, <2>1, QuietGoto DEF UseDead, QuietPlace, PcNames, Touching, Making, Joining, Queueing
  <2> QED
    BY <1>5, <2>2, <2>3 DEF UseDead, Silent, QuietBodies
<1>6. CASE UseDelete(a)
  <2>1. call[a].pc = "u_delete" /\ Obj(a) \in Threads
    BY <1>6 DEF UseDelete, At, NamesInv, UsePlaces, Ending, Creating
  <2>2. SameThreads
    BY <1>6, <1>c, <2>1, SetPlain DEF UseDelete, FinishDelete, SameThreads
  <2>3. QuietMove(a)
    BY <1>6, <1>c, <2>1, QuietGoto DEF UseDelete, QuietPlace, PcNames, Touching, Making, Joining, Queueing
  <2> QED
    BY <1>6, <2>2, <2>3 DEF UseDelete, FinishDelete, Silent, QuietBodies
<1>7. CASE Unlock(a)
  <2>1. call[a].pc = "unlock"
    BY <1>7 DEF Unlock, At
  <2>2. SameThreads
    <3>1. CASE Obj(a) \in Threads
      BY <1>7, <1>c, <3>1, SetPlain DEF Unlock
    <3>2. CASE Obj(a) \notin Threads
      <4>1. obj' = obj
        BY <1>7, <1>c, <3>2 DEF Unlock
      <4> QED
        BY <4>1 DEF SameThreads
    <3> QED
      BY <3>1, <3>2
  <2>3. QuietMove(a)
    BY <1>7, <1>c, <2>1, QuietGoto DEF Unlock, QuietPlace, PcNames, Touching, Making, Joining, Queueing
  <2> QED
    BY <1>7, <2>2, <2>3 DEF Unlock, Silent, QuietBodies
<1>8. CASE CreateFree(a)
  <2>1. call[a].pc = "c_free" /\ Obj(a) \in Threads
    BY <1>8 DEF CreateFree, At, NamesInv, UsePlaces, Ending, Creating
  <2>2. SameThreads
    BY <1>8, <1>c, <2>1, SetPlain DEF CreateFree, SameThreads
  <2>3. QuietMove(a)
    BY <1>8, <1>c, <2>1, QuietGoto DEF CreateFree, QuietPlace, PcNames, Touching, Making, Joining, Queueing
  <2> QED
    BY <1>8, <2>2, <2>3 DEF CreateFree, Silent, QuietBodies
<1>9. CASE CreateAssign(a)
  <2>1. call[a].pc = "c_assign"
    BY <1>9 DEF CreateAssign, At
  <2>2. SameThreads
    BY <1>9 DEF CreateAssign, SameThreads
  <2>3. QuietMove(a)
    BY <1>9, <1>c, <2>1, QuietGoto DEF CreateAssign, QuietPlace, PcNames, Touching, Making, Joining, Queueing
  <2> QED
    BY <1>9, <2>2, <2>3 DEF CreateAssign, Silent, QuietBodies
<1>10. CASE CreateLog(a)
  <2>1. call[a].pc = "c_log"
    BY <1>10 DEF CreateLog, At
  <2>2. SameThreads
    BY <1>10 DEF CreateLog, SameThreads
  <2>3. QuietMove(a)
    BY <1>10, <1>c, <2>1, QuietGoto DEF CreateLog, QuietPlace, PcNames, Touching, Making, Joining, Queueing
  <2> QED
    BY <1>10, <2>2, <2>3 DEF CreateLog, Silent, QuietBodies
<1>11. CASE JoinLog(a)
  <2>1. call[a].pc = "j_log" /\ Obj(a) \in Threads
    BY <1>11 DEF JoinLog, At, NamesInv, UsePlaces, Ending, Creating
  <2>2. SameThreads
    BY <1>11, <1>c, <2>1, SetPlain DEF JoinLog, SameThreads
  <2>3. QuietMove(a)
    BY <1>11, <1>c, <2>1, QuietGoto DEF JoinLog, QuietPlace, PcNames, Touching, Making, Joining, Queueing
  <2> QED
    BY <1>11, <2>2, <2>3 DEF JoinLog, Silent, QuietBodies
<1>12. CASE AttrGetLock(a)
  <2>1. call[a].pc = "g_lock" /\ Obj(a) \in Threads
    BY <1>12 DEF AttrGetLock, At, NamesInv, UsePlaces, Ending, Creating
  <2>2. SameThreads
    BY <1>12, <1>c, <2>1, SetPlain DEF AttrGetLock, SameThreads
  <2>3. QuietMove(a)
    BY <1>12, <1>c, <2>1, QuietGoto DEF AttrGetLock, QuietPlace, PcNames, Touching, Making, Joining, Queueing
  <2> QED
    BY <1>12, <2>2, <2>3 DEF AttrGetLock, Silent, QuietBodies
<1>13. CASE JoinLock(a)
  <2>1. call[a].pc = "j_lock" /\ Obj(a) \in Threads
    BY <1>13 DEF JoinLock, At, NamesInv, UsePlaces, Ending, Creating
  <2>2. SameThreads
    BY <1>13, <1>c, <2>1, SetPlain DEF JoinLock, SameThreads
  <2>3. QuietMove(a)
    BY <1>13, <1>c, <2>1, QuietGoto DEF JoinLock, QuietPlace, PcNames, Touching, Making, Joining, Queueing
  <2> QED
    BY <1>13, <2>2, <2>3 DEF JoinLock, Silent, QuietBodies
<1>14. CASE CreateStart(a)
  <2>1. call[a].pc = "c_start" /\ Obj(a) \in Threads
    BY <1>14 DEF CreateStart, At, NamesInv, UsePlaces, Ending, Creating
  <2>2. SameThreads
    BY <1>14, <1>c, <2>1, SetPlain DEF CreateStart, SameThreads
  <2>3. QuietMove(a)
    BY <1>14, <1>c, <2>1, QuietGoto DEF CreateStart, QuietPlace, PcNames, Touching, Making, Joining, Queueing
  <2> QED
    BY <1>14, <2>2, <2>3 DEF CreateStart, Silent, QuietBodies
<1>15. CASE JoinHost(a)
  <2>1. call[a].pc = "j_host" /\ Obj(a) \in Threads
    BY <1>15 DEF JoinHost, At, NamesInv, UsePlaces
  <2>2. SameThreads
    BY <1>15, <1>c, <2>1, SetPlain DEF JoinHost, SameThreads
  <2>3. QuietMove(a)
    <3>1. CASE call' = call
      BY <2>1, <3>1 DEF QuietMove, StepsAlone, Making, Queueing, Obj
    <3>2. CASE \E p \in {"j_erase", "j_hostwait"} : Goto(a, p)
      <4>1. PICK p \in {"j_erase", "j_hostwait"} : Goto(a, p)
        BY <3>2
      <4>2. StepsAlone(a) /\ call'[a].pc = p /\ Obj(a)' = Obj(a)
            /\ call'[a].batch = call[a].batch /\ call'[a].keep = call[a].keep
        BY <4>1, <1>c, GotoEffect DEF PcNames, Touching, Obj
      <4>3. (p \in Joining => call[a].pc \in Joining) /\ (p \in Queueing => call[a].pc \in Queueing)
        BY <1>15, <1>c, <2>1, <4>1, <4>2 DEF JoinHost, Goto, Joining, Queueing
      <4> QED
        BY <2>1, <4>2, <4>3 DEF QuietMove, Making
    <3> QED
      BY <1>15, <3>1, <3>2 DEF JoinHost
  <2> QED
    BY <1>15, <2>2, <2>3 DEF JoinHost, Silent, QuietBodies
<1>16. CASE JoinHostWait(a)
  <2>1. call[a].pc = "j_hostwait" /\ Obj(a) \in Threads
    BY <1>16 DEF JoinHostWait, At, NamesInv, UsePlaces
  <2>2. SameThreads
    BY <1>16, <1>c, <2>1, SetPlain DEF JoinHostWait, SameThreads
  <2>3. QuietMove(a)
    <3>1. CASE call' = call
      BY <2>1, <3>1 DEF QuietMove, StepsAlone, Making, Queueing, Obj
    <3>2. CASE \E p \in {"j_erase"} : Goto(a, p)
      <4>1. PICK p \in {"j_erase"} : Goto(a, p)
        BY <3>2
      <4>2. StepsAlone(a) /\ call'[a].pc = p /\ Obj(a)' = Obj(a)
            /\ call'[a].batch = call[a].batch /\ call'[a].keep = call[a].keep
        BY <4>1, <1>c, GotoEffect DEF PcNames, Touching, Obj
      <4>3. (p \in Joining => call[a].pc \in Joining) /\ (p \in Queueing => call[a].pc \in Queueing)
        BY <1>16, <1>c, <2>1, <4>1, <4>2 DEF JoinHostWait, Goto, Joining, Queueing
      <4> QED
        BY <2>1, <4>2, <4>3 DEF QuietMove, Making
    <3> QED
      BY <1>16, <3>1, <3>2 DEF JoinHostWait
  <2> QED
    BY <1>16, <2>2, <2>3 DEF JoinHostWait, Silent, QuietBodies
<1>17. CASE QueueFlag(a)
  <2>1. call[a].pc = "q_flag" /\ Obj(a) \in Threads
    BY <1>17 DEF QueueFlag, At, NamesInv, UsePlaces
  <2>2. SameThreads
    BY <1>17, <1>c, <2>1, SetPlain DEF QueueFlag, SameThreads
  <2>3. QuietMove(a)
    <3>1. CASE call' = call
      BY <2>1, <3>1 DEF QuietMove, StepsAlone, Making, Queueing, Obj
    <3>2. CASE \E p \in {"u_sub", "q_push"} : Goto(a, p)
      <4>1. PICK p \in {"u_sub", "q_push"} : Goto(a, p)
        BY <3>2
      <4>2. StepsAlone(a) /\ call'[a].pc = p /\ Obj(a)' = Obj(a)
            /\ call'[a].batch = call[a].batch /\ call'[a].keep = call[a].keep
        BY <4>1, <1>c, GotoEffect DEF PcNames, Touching, Obj
      <4>3. (p \in Joining => call[a].pc \in Joining) /\ (p \in Queueing => call[a].pc \in Queueing)
        BY <1>17, <1>c, <2>1, <4>1, <4>2 DEF QueueFlag, Goto, Joining, Queueing
      <4> QED
        BY <2>1, <4>2, <4>3 DEF QuietMove, Making
    <3> QED
      BY <1>17, <3>1, <3>2 DEF QueueFlag
  <2> QED
    BY <1>17, <2>2, <2>3 DEF QueueFlag, Silent, QuietBodies
<1>18. CASE ReapDelete(a)
  <2>1. /\ call[a].pc = "r_delete" /\ call[a].victim \in Threads
        /\ StepsAlone(a) /\ call'[a].pc \in {"r_back", "r_visit"}
        /\ call'[a].batch = call[a].batch /\ call'[a].keep = call[a].keep
    BY <1>18, <1>c DEF ReapDelete, At, NamesInv, StepsAlone, CallRec
  <2>2. SameThreads
    BY <1>18, <1>c, <2>1, SetPlain DEF ReapDelete, FinishDelete
  <2>3. QuietMove(a)
    BY <2>1 DEF QuietMove, Making, Joining, Queueing
  <2> QED
    BY <1>18, <2>2, <2>3 DEF ReapDelete, FinishDelete, Silent, QuietBodies
<1> QED
  BY <1>1, <1>2, <1>3, <1>4, <1>5, <1>6, <1>7, <1>8, <1>9, <1>10, <1>11, <1>12, <1>13, <1>14, <1>15, <1>16, <1>17, <1>18 DEF UseEnd

\* Calls that begin without an object, or with a use of a registered one.
LEMMA SilentBegins ==
  ASSUME TypeOK, LifeInv, NEW a \in Actors,
         \/ \E mode \in OpNames : CreateCheck(a, mode)
         \/ At(a, "idle") /\ \E t \in Threads, p \in {"j_self", "d_lock", "g_lock"} :
                               \E mode : UseBegin(a, t, p, mode)
  PROVE  Silent(a)
<1> USE DEF RestUnchanged, threads, registry, session, history
<1>c. call \in [Actors -> CallRec] /\ obj \in [Threads -> ObjRec]
  BY DEF TypeOK
<1>1. ASSUME NEW mode \in OpNames, CreateCheck(a, mode) PROVE Silent(a)
  <2>1. /\ call[a].pc = "idle" /\ StepsAlone(a) /\ call'[a].pc = "c_slot"
        /\ call'[a].batch = {} /\ call'[a].keep = {}
    BY <1>1, <1>c DEF CreateCheck, CanCall, At, StepsAlone, Idle
  <2>2. QuietMove(a)
    BY <2>1 DEF QuietMove, Making, Joining, Queueing
  <2> QED
    BY <1>1, <2>2 DEF CreateCheck, Silent, SameThreads, QuietBodies
<1>2. ASSUME NEW t \in Threads, NEW p \in {"j_self", "d_lock", "g_lock"}, NEW mode,
             At(a, "idle"), UseBegin(a, t, p, mode)
      PROVE  Silent(a)
  <2>1. /\ call[a].pc = "idle" /\ StepsAlone(a) /\ call'[a].pc = p
        /\ call'[a].batch = {} /\ call'[a].keep = {}
    BY <1>2, <1>c DEF UseBegin, At, StepsAlone, Idle
  <2>2. QuietMove(a)
    BY <2>1 DEF QuietMove, Making, Joining, Queueing
  <2>3. Allocated(t)
    BY <1>2 DEF UseBegin, LifeInv, LiveHandlesAreAllocated
  <2>4. SameThreads
    <3>1. PICK n : obj' = [obj EXCEPT ![t].uses = n]
      BY <1>2 DEF UseBegin
    <3> QED
      BY <1>c, <2>3, <3>1, SetPlain
  <2> QED
    BY <1>2, <2>2, <2>4 DEF UseBegin, Silent, QuietBodies
<1> QED
  BY <1>1, <1>2

\* The reaper's queue changes hands: what it held was detached and ended.
LEMMA QueueSteps ==
  ASSUME TypeOK, NamesInv, HandleInv, NEW a \in Actors,
         QueuePush(a) \/ ReapSwap(a) \/ ReapBack(a)
  PROVE  HandleInv' /\ Implements
<1> USE DEF registry, session, history
<1>c. call \in [Actors -> CallRec]
  BY DEF TypeOK
<1> SUFFICES KeepsPlaces /\ SameThreads /\ UNCHANGED <<handles, live>>
  BY SameStory, Unseen
<1>0. SameThreads /\ UNCHANGED <<handles, live, obj, body>>
  BY DEF QueuePush, ReapSwap, ReapBack, SameThreads, threads
<1>1. /\ StepsAlone(a) /\ call'[a].pc \notin Making \cup Joining \cup Queueing
      /\ call[a].pc # "c_insert"
      /\ \A u \in Threads : Queued(u)' => Queued(u)
  <2>1. CASE QueuePush(a)
    <3>1. /\ StepsAlone(a) /\ call[a].pc = "q_push" /\ call'[a].pc = "u_sub" /\ Obj(a)' = Obj(a)
          /\ call'[a].batch = call[a].batch /\ call'[a].keep = call[a].keep
      BY <2>1, <1>c, GotoEffect DEF QueuePush, At, PcNames, Touching, Obj
    <3>2. zombies' \subseteq zombies \cup {Obj(a)} /\ Obj(a) \in Threads
      BY <2>1 DEF QueuePush, At, NamesInv, UsePlaces
    <3> QED
      BY <1>0, <3>1, <3>2 DEF Queued, StepsAlone, Making, Joining, Queueing, Obj
  <2>2. CASE ReapSwap(a)
    <3>1. /\ StepsAlone(a) /\ call[a].pc = "r_swap" /\ call'[a].pc \in {"c_log", "r_visit"}
          /\ call'[a].batch = zombies /\ call'[a].keep = call[a].keep /\ zombies' = {}
      BY <2>2, <1>c DEF ReapSwap, At, StepsAlone, CallRec
    <3> QED
      BY <1>0, <3>1 DEF Queued, StepsAlone, Making, Joining, Queueing, Obj
  <2>3. CASE ReapBack(a)
    <3>1. /\ StepsAlone(a) /\ call[a].pc = "r_back" /\ call'[a].pc = "c_log"
          /\ call'[a].batch = call[a].batch /\ call'[a].keep = {}
          /\ zombies' = zombies \cup call[a].keep
      BY <2>3, <1>c DEF ReapBack, At, StepsAlone, CallRec
    <3> QED
      BY <1>0, <3>1 DEF Queued, StepsAlone, Making, Joining, Queueing, Obj
  <2> QED
    BY <2>1, <2>2, <2>3
<1>2. \A u \in Threads : Fresh(u)' <=> Fresh(u)
  BY <1>0, <1>1 DEF StepsAlone, Fresh, Making, Obj
<1>3. \A b \in Actors :
        /\ call'[b].pc \in Joining => call[b].pc \in Joining /\ Obj(b)' = Obj(b)
        /\ call'[b].pc \in Making => call[b].pc \in Making /\ Obj(b)' = Obj(b)
  BY <1>1 DEF StepsAlone, Obj
<1> QED
  BY <1>0, <1>1, <1>2, <1>3 DEF KeepsPlaces

\* A step with no call: nothing is queued and nothing registered by it.
LEMMA NoCall ==
  ASSUME SameThreads, UNCHANGED call, QuietBodies,
         \A u \in zombies' : u \in zombies \/ body[u] \in {"flag", "push"}
  PROVE  KeepsPlaces
  BY DEF KeepsPlaces, QuietBodies, SameThreads, Queued, Fresh, Obj

\* The body after its return goes to the reaper only if it was detached.
LEMMA BodyEndHandles ==
  ASSUME TypeOK, LifeInv, HandleInv, NEW t \in Threads, BodyEnd(t)
  PROVE  HandleInv' /\ Implements
<1> USE DEF registry, session, history
<1>c. obj \in [Threads -> ObjRec]
  BY DEF TypeOK
<1>1. SameThreads
  <2>1. CASE BodyFlag(t)
    BY <2>1, <1>c, SetPlain DEF BodyFlag
  <2> QED
    BY <2>1 DEF BodyEnd, BodyPush, BodyLast, SameThreads
<1>2. UNCHANGED <<call, handles, live>>
  BY DEF BodyEnd, BodyFlag, BodyPush, BodyLast
<1>3. QuietBodies
  BY DEF TypeOK, QuietBodies, BodyEnd, BodyFlag, BodyPush, BodyLast, BodyAt
<1>4. \A u \in zombies' : u \in zombies \/ body[u] \in {"flag", "push"}
  BY DEF BodyEnd, BodyFlag, BodyPush, BodyLast, BodyAt
<1> QED
  BY <1>1, <1>2, <1>3, <1>4, NoCall, SameStory, Unseen DEF LifeInv

\* A teardown outside its walk through the registry.
LEMMA ResetHandles ==
  ASSUME TypeOK, LifeInv, HandleInv,
         \/ ResetBegin \/ ResetZombies \/ ResetWake \/ ResetGrace
         \/ ResetReclaim \/ ResetClear \/ ResetRelease
  PROVE  HandleInv' /\ Implements
<1> USE DEF threads, registry, session, history, ResetNext
<1>c. obj \in [Threads -> ObjRec] /\ reset \in ResetRec
  BY DEF TypeOK
<1>1. SameThreads
  <2>1. CASE ResetWake \/ ResetReclaim
    <3>1. \/ obj' = obj
          \/ \E e \in reset.todo : /\ Allocated(e[1])
                                   /\ \/ obj' = [obj EXCEPT ![e[1]].sessionDead = TRUE]
                                      \/ obj' = [obj EXCEPT ![e[1]].st = "freed", ![e[1]].dead = TRUE,
                                                            ![e[1]].slot = None]
      BY <2>1 DEF ResetWake, ResetReclaim
    <3>2. \A e \in reset.todo : e[1] \in Threads
      BY <1>c DEF ResetRec
    <3> QED
      BY <1>c, <3>1, <3>2, SetPlain DEF SameThreads
  <2> QED
    BY <2>1 DEF ResetBegin, ResetZombies, ResetGrace, ResetClear, ResetRelease, SameThreads
<1>2. UNCHANGED <<call, handles, live, body>> /\ zombies' \subseteq zombies
  BY DEF ResetBegin, ResetZombies, ResetWake, ResetGrace, ResetReclaim, ResetClear, ResetRelease
<1>3. KeepsPlaces
  BY <1>1, <1>2, NoCall DEF QuietBodies
<1> QED
  BY <1>1, <1>2, <1>3, SameStory, Unseen DEF LifeInv

\* A handle that leaves the registry is consumed: by a Join or by the reaper
\* once its thread has ended, or by a Create that gives up.
LEMMA Removal ==
  ASSUME TypeOK, LifeInv, HandleInv, NEW t \in Threads,
         SameThreads, KeepsPlaces, UNCHANGED handles, live' = live \ {t},
         t \in handles => obj[t].exited /\ (obj[t].joined \/ obj[t].detached)
  PROVE  HandleInv' /\ Implements
<1> DEFINE Ended == {u \in Threads : obj[u].exited}
<1>1. /\ HandleInv' /\ Ended' = Ended /\ ClaimSets' = ClaimSets
      /\ live' = live => HandleStates' = HandleStates
  BY SameStory DEF LifeInv
<1>2. CASE t \notin live
  BY <1>1, <1>2, Unseen
<1>3. CASE t \in live
  <2>1. ~Fresh(t)
    BY <1>3 DEF LifeInv, FreshInv, Listed
  <2>2. HandleStates' = [HandleStates EXCEPT ![t] = "consumed"]
    <3>1. \A u \in Threads : HandleState(u)' = IF u = t THEN "consumed" ELSE HandleState(u)
      BY <2>1 DEF HandleState, SameThreads, KeepsPlaces
    <3> QED
      BY <3>1 DEF HandleStates
  <2>3. HandleStates[t] = HandleState(t)
    BY DEF HandleStates
  <2>4. CASE t \notin handles
    <3>1. HandleStates[t] = "none"
      BY <1>3, <2>3, <2>4 DEF HandleState
    <3>2. Handles!Abandon(t)
      BY <1>1, <2>2, <3>1 DEF Handles!Abandon, HandleStates, ClaimSets
    <3> QED
      BY <1>1, <3>2 DEF Implements, Handles!Next
  <2>5. CASE t \in handles
    <3>1. HandleStates[t] = "valid" /\ t \in Ended
      BY <1>3, <2>3, <2>5 DEF HandleState
    <3>2. ClaimSets[t] # {}
      <4>1. (obj[t].joined => "join" \in ClaimsOn(t)) /\ (obj[t].detached => "detach" \in ClaimsOn(t))
        BY DEF ClaimsOn
      <4> QED
        BY <2>5, <4>1 DEF ClaimSets
    <3>3. Handles!Consume(t)
      BY <1>1, <2>2, <3>1, <3>2 DEF Handles!Consume, HandleStates, ClaimSets
    <3> QED
      BY <1>1, <3>3 DEF Implements, Handles!Next
  <2> QED
    BY <2>4, <2>5
<1> QED
  BY <1>2, <1>3

\* Who erases the handle has joined an ended thread, has the reaper's queue,
\* or has made a handle that nobody knows.
LEMMA RemovalSteps ==
  ASSUME TypeOK, LifeInv, HandleInv, NEW a \in Actors,
         JoinErase(a) \/ ReapVisit(a) \/ CreateUndo(a)
  PROVE  HandleInv' /\ Implements
<1> USE DEF registry, session, history
<1>c. call \in [Actors -> CallRec] /\ obj \in [Threads -> ObjRec]
  BY DEF TypeOK
<1>1. CASE JoinErase(a) \/ CreateUndo(a)
  <2>1. PICK t \in Threads : t = Obj(a)
    BY <1>1 DEF JoinErase, CreateUndo, At, LifeInv, NamesInv, UsePlaces, Creating
  <2>2. UNCHANGED <<obj, body, zombies, handles>> /\ live' = live \ {t}
    BY <1>1, <2>1 DEF JoinErase, CreateUndo, threads
  <2>3. QuietMove(a)
    BY <1>1, <1>c, QuietGoto DEF JoinErase, CreateUndo, At, QuietPlace, PcNames, Touching, Making, Joining, Queueing
  <2>4. SameThreads /\ KeepsPlaces
    BY <2>2, <2>3, QuietMoves DEF SameThreads, QuietBodies
  <2>5. t \in handles => obj[t].exited /\ (obj[t].joined \/ obj[t].detached)
    BY <1>1, <2>1 DEF JoinErase, CreateUndo, At, HandleInv, JoinedInv, UnpublishedInv, Joining, Making
  <2> QED
    BY <2>2, <2>4, <2>5, Removal
<1>2. CASE ReapVisit(a)
  <2>1. PICK t \in Threads :
          /\ t \in call[a].batch
          /\ Allocated(t)
          /\ live' = live \ {t}
          /\ \/ /\ obj' = [obj EXCEPT ![t].dead = TRUE]
                /\ call' = [call EXCEPT ![a].batch = @ \ {t}, ![a].victim = t, ![a].pc = "r_delete"]
             \/ /\ obj' = obj
                /\ call' = [call EXCEPT ![a].batch = @ \ {t}, ![a].keep = @ \cup {t},
                                 ![a].pc = IF call[a].batch = {t} THEN "r_back" ELSE "r_visit"]
    BY <1>2, <1>c DEF ReapVisit, CallRec
  <2>2. call[a].pc = "r_visit" /\ UNCHANGED <<body, zombies, handles>>
    BY <1>2 DEF ReapVisit, At, threads
  <2>3. /\ StepsAlone(a) /\ call'[a].pc \in {"r_delete", "r_back", "r_visit"}
        /\ call'[a].batch \cup call'[a].keep \subseteq call[a].batch \cup call[a].keep
    BY <2>1, <1>c DEF StepsAlone, CallRec
  <2>4. SameThreads
    BY <2>1, <1>c, SetPlain
  <2>5. KeepsPlaces
    BY <2>2, <2>3, <2>4, QuietMoves DEF QuietMove, QuietBodies, Making, Joining, Queueing
  <2>6. obj[t].exited /\ obj[t].detached
    BY <2>1 DEF HandleInv, QueuedInv, Queued
  <2> QED
    BY <2>1, <2>2, <2>4, <2>5, <2>6, Removal
<1> QED
  BY <1>1, <1>2

\* The teardown's walk through the registry consumes every registered handle.
LEMMA TeardownStep ==
  ASSUME TypeOK, LifeInv, HandleInv, ResetLive
  PROVE  HandleInv' /\ Implements
<1> DEFINE Ended == {u \in Threads : obj[u].exited}
<1>1. UNCHANGED <<obj, call, body, zombies, handles>> /\ live' = {}
  BY DEF ResetLive, threads, history
<1>2. SameThreads /\ KeepsPlaces
  BY <1>1, NoCall DEF SameThreads, QuietBodies
<1>3. HandleInv' /\ Ended' = Ended /\ ClaimSets' = ClaimSets
  BY <1>1, <1>2, SameStory DEF LifeInv
<1>4. \A u \in Threads : Fresh(u) => u \notin live
  BY DEF LifeInv, FreshInv, Listed
<1> DEFINE spared == {u \in Threads : Fresh(u)}
<1>5. HandleStates' = [u \in Threads |-> IF u \in spared THEN "none" ELSE "consumed"]
  BY <1>1, <1>2 DEF HandleStates, HandleState, KeepsPlaces
<1>6. spared \in SUBSET {u \in Threads : HandleStates[u] = "none"}
  BY <1>4 DEF HandleStates, HandleState
<1> HIDE DEF spared
<1>7. Handles!Teardown
  BY <1>3, <1>5, <1>6 DEF Handles!Teardown, HandleStates, ClaimSets
<1> QED
  BY <1>3, <1>7 DEF Implements, Handles!Next


\* The end of a thread is recorded, by Exit or by the return of its body.
LEMMA EndStep ==
  ASSUME TypeOK, LifeInv, HandleInv, NEW t \in Threads, Allocated(t),
         obj' = [obj EXCEPT ![t].exited = TRUE],
         UNCHANGED <<handles, live>>,
         \A u \in Threads : Queued(u)' => Queued(u) \/ (u = t /\ obj[t].detached),
         \A u \in Threads : Fresh(u)' <=> Fresh(u),
         \A b \in Actors :
           /\ call'[b].pc \in Joining => call[b].pc \in Joining /\ Obj(b)' = Obj(b)
           /\ call'[b].pc \in Making => call[b].pc \in Making /\ Obj(b)' = Obj(b)
  PROVE  HandleInv' /\ Implements
<1> DEFINE Ended == {u \in Threads : obj[u].exited}
<1>1. \A u \in Threads :
        /\ obj'[u].detached = obj[u].detached /\ obj'[u].joined = obj[u].joined
        /\ obj'[u].st = obj[u].st
        /\ obj'[u].exited = (obj[u].exited \/ u = t)
  <2>1. obj[t] \in ObjRec /\ obj'[t] = [obj[t] EXCEPT !.exited = TRUE]
    BY DEF TypeOK
  <2>2. \A u \in Threads \ {t} : obj'[u] = obj[u]
    BY DEF TypeOK
  <2>3. obj'[t].exited = TRUE /\ obj'[t].detached = obj[t].detached
        /\ obj'[t].joined = obj[t].joined /\ obj'[t].st = obj[t].st
    BY <2>1 DEF ObjRec
  <2>4. \A u \in Threads : obj[u].exited \in BOOLEAN
    BY DEF TypeOK, ObjRec
  <2>5. \A u \in Threads : obj'[u].exited = (obj[u].exited \/ u = t)
    BY <2>2, <2>3, <2>4
  <2> QED
    BY <2>2, <2>3, <2>5
<1>2. JoinedInv'
  <2>1. \A b \in Actors : call'[b].pc \in Joining => Obj(b)' \in Threads /\ obj'[Obj(b)'].joined
    BY <1>1 DEF HandleInv, JoinedInv, LifeInv, NamesInv, Joining, UsePlaces
  <2> QED
    BY <1>1, <2>1 DEF HandleInv, JoinedInv
<1>3. QueuedInv' /\ UnpublishedInv'
  <2>1. QueuedInv'
    <3>1. ASSUME NEW u \in Threads, Queued(u)' PROVE obj'[u].detached /\ obj'[u].exited
      <4>1. CASE Queued(u)
        <5>1. obj[u].detached /\ obj[u].exited
          BY <4>1 DEF HandleInv, QueuedInv
        <5> QED
          BY <1>1, <5>1
      <4>2. CASE u = t /\ obj[t].detached
        BY <1>1, <4>2
      <4> QED
        BY <3>1, <4>1, <4>2
    <3> QED
      BY <3>1 DEF QueuedInv
  <2>2. \A u \in Threads :
          obj'[u].st = "none" => u \notin handles' /\ ~obj'[u].exited /\ ~obj'[u].detached
    <3>1. obj[t].st # "none"
      BY DEF Allocated
    <3> QED
      BY <1>1, <3>1 DEF HandleInv, UnpublishedInv
  <2>3. \A b \in Actors : call'[b].pc \in Making => Obj(b)' \notin handles'
    BY DEF HandleInv, UnpublishedInv
  <2> QED
    BY <2>1, <2>2, <2>3 DEF UnpublishedInv
<1>4. HandleStates' = HandleStates /\ Ended' = Ended \cup {t} /\ ClaimSets' = ClaimSets
  BY <1>1 DEF HandleStates, HandleState, ClaimSets, ClaimsOn
<1>5. Handles!End(t)
  BY <1>4 DEF Handles!End, HandleStates, ClaimSets
<1> QED
  BY <1>2, <1>3, <1>5 DEF HandleInv, Implements, Handles!Next

\* The two places where it is recorded.
LEMMA EndSteps ==
  ASSUME TypeOK, LifeInv, HandleInv,
         (\E a \in Actors : ExitLock(a)) \/ (\E t \in Threads : BodyReturn(t))
  PROVE  HandleInv' /\ Implements
<1> USE DEF RestUnchanged, registry, session, history
<1>c. call \in [Actors -> CallRec]
  BY DEF TypeOK
<1>1. ASSUME NEW a \in Actors, ExitLock(a) PROVE HandleInv' /\ Implements
  <2>1. /\ call[a].pc = "e_lock" /\ Allocated(Obj(a))
        /\ obj' = [obj EXCEPT ![Obj(a)].exited = TRUE]
        /\ UNCHANGED <<handles, live, zombies, body>>
    BY <1>1 DEF ExitLock, At, threads
  <2>2. StepsAlone(a) /\ call'[a].pc = "idle" /\ call'[a].batch = {} /\ call'[a].keep = {}
    BY <1>1, <1>c, ReturnEffect DEF ExitLock
  <2>3. \A u \in Threads : Queued(u)' => Queued(u)
    BY <2>1, <2>2 DEF Queued, StepsAlone, Obj
  <2>4. /\ \A u \in Threads : obj'[u].st = obj[u].st
        /\ \A u \in Threads : Fresh(u)' <=> Fresh(u)
    <3>1. \A u \in Threads : obj'[u].st = obj[u].st
      BY <2>1 DEF TypeOK, ObjRec
    <3> QED
      BY <2>1, <2>2, <3>1 DEF Fresh, StepsAlone, Obj
  <2>5. \A b \in Actors :
           /\ call'[b].pc \in Joining => call[b].pc \in Joining /\ Obj(b)' = Obj(b)
           /\ call'[b].pc \in Making => call[b].pc \in Making /\ Obj(b)' = Obj(b)
    BY <2>2 DEF StepsAlone, Joining, Making, Obj
  <2>6. CASE Obj(a) \in Threads
    BY <2>1, <2>3, <2>4, <2>5, <2>6, EndStep
  <2>7. CASE Obj(a) \notin Threads
    <3>1. obj' = obj
      BY <2>1, <2>7 DEF TypeOK
    <3>2. SameThreads /\ KeepsPlaces
      BY <2>3, <2>4, <2>5, <3>1 DEF SameThreads, KeepsPlaces
    <3> QED
      BY <2>1, <3>2, SameStory, Unseen DEF LifeInv
  <2> QED
    BY <2>6, <2>7
<1>2. ASSUME NEW t \in Threads, BodyReturn(t) PROVE HandleInv' /\ Implements
  <2>1. /\ Allocated(t) /\ obj' = [obj EXCEPT ![t].exited = TRUE]
        /\ UNCHANGED <<call, handles, live, zombies>>
    BY <1>2 DEF BodyReturn
  <2>0. \A u \in Threads : body'[u] \in {"flag", "push"} =>
           body[u] \in {"flag", "push"} \/ (u = t /\ obj[t].detached)
    <3>1. body' = [body EXCEPT ![t] = IF obj[t].detached THEN "flag" ELSE "last"]
      BY <1>2 DEF BodyReturn
    <3>2. \A u \in Threads \ {t} : body'[u] = body[u]
      BY <3>1 DEF TypeOK
    <3>3. ~obj[t].detached => body'[t] = "last"
      BY <3>1 DEF TypeOK
    <3> QED
      BY <3>2, <3>3
  <2>2. \A u \in Threads : Queued(u)' => Queued(u) \/ (u = t /\ obj[t].detached)
    <3>1. \A b \in Actors : Obj(b)' = Obj(b)
      BY <2>1 DEF Obj
    <3> QED
      BY <2>1, <2>0, <3>1 DEF Queued
  <2>3. \A u \in Threads : obj'[u].st = obj[u].st
    BY <2>1 DEF TypeOK, ObjRec
  <2>4. \A u \in Threads : Fresh(u)' <=> Fresh(u)
    BY <2>1, <2>3 DEF Fresh, Obj
  <2> QED
    BY <2>1, <2>2, <2>4, EndStep DEF Obj
<1> QED
  BY <1>1, <1>2

\* A joiner that has been woken takes the handle, and the detacher finds it
\* taken; so a thread is never both joined and detached.
LEMMA WakeStep ==
  ASSUME TypeOK, LifeInv, HandleInv, NEW a \in Actors, JoinWake(a)
  PROVE  HandleInv' /\ Implements
<1> USE DEF RestUnchanged, registry, session, history
<1>c. call \in [Actors -> CallRec] /\ obj \in [Threads -> ObjRec]
  BY DEF TypeOK
<1>0. PICK t \in Threads : t = Obj(a)
  BY DEF JoinWake, At, LifeInv, NamesInv, UsePlaces
<1>1. /\ call[a].pc = "j_wait" /\ Allocated(t) /\ UNCHANGED <<body, handles, live, zombies>>
  BY <1>0 DEF JoinWake, At, threads
<1>2. CASE obj' = [obj EXCEPT ![t].m = a] /\ Goto(a, "u_sub")
  <2>1. SameThreads
    BY <1>c, <1>1, <1>2, SetPlain
  <2>2. QuietMove(a)
    BY <1>c, <1>1, <1>2, QuietGoto DEF QuietPlace, PcNames, Touching, Making, Joining, Queueing
  <2>3. Silent(a)
    BY <1>1, <2>1, <2>2 DEF Silent, QuietBodies
  <2> QED
    BY <2>3, SilentKeeps DEF LifeInv
<1>3. CASE /\ obj[t].exited /\ ~obj[t].detached
           /\ \E x : obj' = [obj EXCEPT ![t].joined = TRUE, ![t].m = x]
           /\ \E p \in {"u_sub", "j_host"} : Goto(a, p)
  <2>1. \A u \in Threads :
          /\ obj'[u].detached = obj[u].detached /\ obj'[u].exited = obj[u].exited
          /\ obj'[u].st = obj[u].st
          /\ obj'[u].joined = (obj[u].joined \/ u = t)
    <3>1. PICK x : obj' = [obj EXCEPT ![t].joined = TRUE, ![t].m = x]
      BY <1>3
    <3> QED
      BY <1>c, <3>1 DEF ObjRec
  <2>2. PICK p \in {"u_sub", "j_host"} : Goto(a, p)
    BY <1>3
  <2>3. /\ StepsAlone(a) /\ call'[a].pc = p /\ Obj(a)' = Obj(a)
        /\ call'[a].batch = call[a].batch /\ call'[a].keep = call[a].keep
    BY <1>c, <2>2, GotoEffect DEF PcNames, Touching, Obj
  <2>4. JoinedInv'
    <3>1. \A b \in Actors : call'[b].pc \in Joining => Obj(b)' \in Threads /\ obj'[Obj(b)'].joined
      <4>1. \A b \in Actors \ {a} : call'[b] = call[b] /\ Obj(b)' = Obj(b)
        BY <2>3 DEF StepsAlone, Obj
      <4>2. \A b \in Actors \ {a} : call[b].pc \in Joining => Obj(b) \in Threads /\ obj[Obj(b)].joined
        BY DEF HandleInv, JoinedInv, LifeInv, NamesInv, Joining, UsePlaces
      <4>3. Obj(a)' \in Threads /\ obj'[Obj(a)'].joined
        BY <1>0, <2>1, <2>3
      <4>4. ASSUME NEW b \in Actors \ {a}, call'[b].pc \in Joining
            PROVE  Obj(b)' \in Threads /\ obj'[Obj(b)'].joined
        <5>1. Obj(b) \in Threads /\ obj[Obj(b)].joined /\ Obj(b)' = Obj(b)
          BY <4>1, <4>2, <4>4
        <5>2. obj'[Obj(b)].joined
          BY <2>1, <5>1
        <5> QED
          BY <5>1, <5>2
      <4> QED
        BY <4>3, <4>4
    <3> QED
      BY <1>3, <2>1, <3>1 DEF HandleInv, JoinedInv
  <2>5. \A u \in Threads : (Queued(u)' => Queued(u)) /\ (Fresh(u)' <=> Fresh(u))
    BY <1>1, <2>1, <2>3 DEF Queued, Fresh, StepsAlone, Obj
  <2>6. \A b \in Actors : call'[b].pc \in Making => call[b].pc \in Making /\ Obj(b)' = Obj(b)
    BY <2>3 DEF StepsAlone, Making, Obj
  <2>7. QueuedInv' /\ UnpublishedInv'
    BY <1>1, <2>1, <2>5, <2>6 DEF HandleInv, QueuedInv, UnpublishedInv
  <2>8. HandleStates' = HandleStates
    BY <1>1, <2>1, <2>5 DEF HandleStates, HandleState
  <2>9. ClaimSets' = [ClaimSets EXCEPT ![t] = @ \cup {"join"}]
    <3>1. \A u \in Threads : ClaimsOn(u)' = IF u = t THEN ClaimsOn(t) \cup {"join"} ELSE ClaimsOn(u)
      BY <2>1 DEF ClaimsOn
    <3> QED
      BY <3>1 DEF ClaimSets
  <2>10. "detach" \notin ClaimSets[t]
    BY <1>3 DEF ClaimSets, ClaimsOn
  <2>11. Handles!Join(t)
    BY <1>3, <2>1, <2>8, <2>9, <2>10 DEF Handles!Join, HandleStates, ClaimSets
  <2> QED
    BY <2>4, <2>7, <2>11 DEF HandleInv, Implements, Handles!Next
<1> QED
  BY <1>0, <1>2, <1>3 DEF JoinWake

\* Detach gives a joinable handle away, unless a Join has taken it.
LEMMA DetachStep ==
  ASSUME TypeOK, LifeInv, HandleInv, NEW a \in Actors, DetachLock(a)
  PROVE  HandleInv' /\ Implements
<1> USE DEF RestUnchanged, registry, session, history
<1>c. call \in [Actors -> CallRec] /\ obj \in [Threads -> ObjRec]
  BY DEF TypeOK
<1>0. PICK t \in Threads : t = Obj(a)
  BY DEF DetachLock, At, LifeInv, NamesInv, UsePlaces
<1>1. /\ call[a].pc = "d_lock" /\ Allocated(t) /\ UNCHANGED <<body, handles, live, zombies>>
  BY <1>0 DEF DetachLock, At, threads
<1>2. CASE obj[t].joined
  <2>1. obj' = [obj EXCEPT ![t].m = a] /\ Goto(a, "u_sub")
    BY <1>0, <1>2 DEF DetachLock
  <2>2. SameThreads
    BY <1>c, <1>1, <2>1, SetPlain
  <2>3. QuietMove(a)
    BY <1>c, <1>1, <2>1, QuietGoto DEF QuietPlace, PcNames, Touching, Making, Joining, Queueing
  <2>4. Silent(a)
    BY <1>1, <2>2, <2>3 DEF Silent, QuietBodies
  <2> QED
    BY <2>4, SilentKeeps DEF LifeInv
<1>3. CASE ~obj[t].joined
  <2> DEFINE Ended == {u \in Threads : obj[u].exited}
  <2>1. \A u \in Threads :
          /\ obj'[u].joined = obj[u].joined /\ obj'[u].exited = obj[u].exited
          /\ obj'[u].st = obj[u].st
          /\ obj'[u].detached = (obj[u].detached \/ u = t)
    <3>1. obj' = [obj EXCEPT ![t].detached = TRUE]
      BY <1>0, <1>3 DEF DetachLock
    <3> QED
      BY <1>c, <3>1 DEF ObjRec
  <2>2. PICK p \in {"u_sub", "q_flag"} : Goto(a, p) /\ (p = "q_flag" => obj[t].exited)
    BY <1>0, <1>3 DEF DetachLock
  <2>3. /\ StepsAlone(a) /\ call'[a].pc = p /\ Obj(a)' = t
        /\ call'[a].batch = call[a].batch /\ call'[a].keep = call[a].keep
    BY <1>c, <1>0, <2>2, GotoEffect DEF PcNames, Touching, Obj
  <2>4. \A b \in Actors :
          /\ call'[b].pc \in Joining => call[b].pc \in Joining /\ Obj(b)' = Obj(b)
          /\ call'[b].pc \in Making => call[b].pc \in Making /\ Obj(b)' = Obj(b)
    BY <2>3 DEF StepsAlone, Making, Joining, Obj
  <2>5. JoinedInv'
    <3>1. \A b \in Actors : call'[b].pc \in Joining => Obj(b)' \in Threads /\ obj'[Obj(b)'].joined
      BY <2>1, <2>4 DEF HandleInv, JoinedInv, LifeInv, NamesInv, Joining, UsePlaces
    <3> QED
      BY <1>3, <2>1, <3>1 DEF HandleInv, JoinedInv
  <2>6. QueuedInv'
    <3>1. /\ \A b \in Actors \ {a} : call'[b] = call[b] /\ Obj(b)' = Obj(b)
          /\ call'[a].pc \in {"q_flag", "q_push"} => obj[t].exited
      BY <2>2, <2>3 DEF StepsAlone, Obj
    <3>2. \A u \in Threads : Queued(u)' => Queued(u) \/ (u = t /\ obj[t].exited)
      BY <1>1, <2>3, <3>1 DEF Queued
    <3> QED
      BY <2>1, <3>2 DEF HandleInv, QueuedInv
  <2>7. UnpublishedInv'
    <3>1. \A u \in Threads :
            obj'[u].st = "none" => u \notin handles' /\ ~obj'[u].exited /\ ~obj'[u].detached
      BY <1>1, <2>1 DEF HandleInv, UnpublishedInv, Allocated
    <3> QED
      BY <1>1, <2>4, <3>1 DEF HandleInv, UnpublishedInv
  <2>8. \A u \in Threads : Fresh(u)' <=> Fresh(u)
    BY <1>1, <2>1, <2>3 DEF Fresh, StepsAlone, Obj
  <2>9. Ended' = Ended
    BY <2>1
  <2>10. HandleStates' = HandleStates
    BY <1>1, <2>1, <2>8 DEF HandleStates, HandleState
  <2>11. ClaimSets' = [ClaimSets EXCEPT ![t] = @ \cup {"detach"}]
    <3>1. \A u \in Threads :
            ClaimsOn(u)' = IF u = t THEN ClaimsOn(t) \cup {"detach"} ELSE ClaimsOn(u)
      BY <2>1 DEF ClaimsOn
    <3> QED
      BY <3>1 DEF ClaimSets
  <2>12. "join" \notin ClaimSets[t]
    BY <1>3 DEF ClaimSets, ClaimsOn
  <2>13. Handles!Detach(t)
    BY <2>9, <2>10, <2>11, <2>12 DEF Handles!Detach, HandleStates, ClaimSets
  <2> QED
    BY <2>5, <2>6, <2>7, <2>13 DEF HandleInv, Implements, Handles!Next
<1> QED
  BY <1>2, <1>3


\* Create registers the object before the guest can name it.
LEMMA InsertHandle ==
  ASSUME TypeOK, LifeInv, HandleInv, NEW a \in Actors, CreateInsert(a)
  PROVE  HandleInv' /\ Implements
<1>c. call \in [Actors -> CallRec]
  BY DEF TypeOK
<1>0. PICK t \in Threads : t = Obj(a)
  BY DEF CreateInsert, At, LifeInv, NamesInv, Creating
<1>1. /\ call[a].pc = "c_insert" /\ live' = live \cup {t} /\ Allocated(t) /\ t \notin handles
      /\ UNCHANGED <<obj, body, zombies, handles>>
  BY <1>0 DEF CreateInsert, At, threads, history, LifeInv, CreatorInv, Creating, HandleInv, UnpublishedInv, Making
<1>2. /\ StepsAlone(a) /\ call'[a].pc = "c_tcb" /\ Obj(a)' = t
      /\ call'[a].batch = call[a].batch /\ call'[a].keep = call[a].keep
  BY <1>c, <1>0, GotoEffect DEF CreateInsert, PcNames, Touching, Obj
<1>3. JoinedInv'
  BY <1>1, <1>2 DEF HandleInv, JoinedInv, StepsAlone, Joining, Obj
<1>4. QueuedInv'
  BY <1>1, <1>2 DEF HandleInv, QueuedInv, Queued, StepsAlone, Obj
<1>5. UnpublishedInv'
  BY <1>1, <1>2 DEF HandleInv, UnpublishedInv, StepsAlone, Obj
<1>6. \A u \in Threads \ {t} : Fresh(u)' <=> Fresh(u)
  BY <1>0, <1>1, <1>2 DEF Fresh, StepsAlone, Obj
<1>7. Fresh(t) /\ t \notin live
  BY <1>0, <1>1 DEF Fresh, LifeInv, FreshInv, Listed
<1>8. \A u \in Threads : HandleState(u)' = HandleState(u)
  BY <1>1, <1>6, <1>7 DEF HandleState
<1>9. ClaimSets' = ClaimSets
  BY <1>1 DEF ClaimSets, ClaimsOn
<1> QED
  BY <1>1, <1>3, <1>4, <1>5, <1>8, <1>9, Unseen DEF HandleInv, HandleStates

\* Create writes the handle for the guest, or fails to.
LEMMA TcbStep ==
  ASSUME TypeOK, LifeInv, HandleInv, NEW a \in Actors, CreateTcb(a)
  PROVE  HandleInv' /\ Implements
<1> DEFINE Ended == {u \in Threads : obj[u].exited}
<1>c. call \in [Actors -> CallRec]
  BY DEF TypeOK
<1>0. PICK t \in Threads : t = Obj(a)
  BY DEF CreateTcb, At, LifeInv, NamesInv, Creating
<1>1. /\ call[a].pc = "c_tcb" /\ Allocated(t) /\ t \notin handles
      /\ UNCHANGED <<obj, body, zombies, live>>
  BY <1>0 DEF CreateTcb, At, threads, registry, HandleInv, UnpublishedInv, Making
<1>2. \A b \in Actors \ {a} : call[b].pc \in Making => Obj(b) # t
  BY <1>0, <1>1 DEF LifeInv, CreatorInv, Creating, Making
<1>3. PICK p \in {"c_undo", "c_start"} :
        /\ Goto(a, p)
        /\ handles' = IF p = "c_start" THEN handles \cup {t} ELSE handles
  BY <1>0 DEF CreateTcb
<1>4. /\ StepsAlone(a) /\ call'[a].pc = p /\ Obj(a)' = t
      /\ call'[a].batch = call[a].batch /\ call'[a].keep = call[a].keep
  BY <1>c, <1>0, <1>3, GotoEffect DEF PcNames, Touching, Obj
<1>5. JoinedInv'
  BY <1>1, <1>4 DEF HandleInv, JoinedInv, StepsAlone, Joining, Obj
<1>6. QueuedInv'
  BY <1>1, <1>4 DEF HandleInv, QueuedInv, Queued, StepsAlone, Obj
<1>7. UnpublishedInv'
  <2>1. \A u \in Threads :
          obj'[u].st = "none" => u \notin handles' /\ ~obj'[u].exited /\ ~obj'[u].detached
    BY <1>1, <1>3 DEF HandleInv, UnpublishedInv, Allocated
  <2>2. ASSUME NEW b \in Actors, call'[b].pc \in Making PROVE Obj(b)' \notin handles'
    <3>1. CASE b = a
      BY <1>1, <1>3, <1>4, <2>2, <3>1 DEF Making
    <3>2. CASE b # a
      BY <1>2, <1>3, <1>4, <2>2, <3>2 DEF StepsAlone, HandleInv, UnpublishedInv, Obj
    <3> QED
      BY <3>1, <3>2
  <2> QED
    BY <2>1, <2>2 DEF UnpublishedInv
<1>8. \A u \in Threads : Fresh(u)' <=> Fresh(u)
  BY <1>1, <1>4 DEF Fresh, StepsAlone, Obj
<1>9. ~Fresh(t)
  BY <1>1, <1>2 DEF Fresh, Allocated, Making
<1>10. Ended' = Ended /\ ClaimSets' = ClaimSets
  BY <1>1 DEF ClaimSets, ClaimsOn
<1>11. CASE t \in live /\ p = "c_start"
  <2>1. HandleStates[t] = "none"
    BY <1>1, <1>11 DEF HandleStates, HandleState
  <2>2. \A u \in Threads : HandleState(u)' =
          IF u = t THEN "valid" ELSE HandleState(u)
    BY <1>1, <1>3, <1>8, <1>11 DEF HandleState
  <2>3. HandleStates' = [HandleStates EXCEPT ![t] = "valid"]
    BY <2>2 DEF HandleStates
  <2>4. Handles!Publish(t)
    BY <1>10, <2>1, <2>3 DEF Handles!Publish, HandleStates, ClaimSets
  <2> QED
    BY <1>5, <1>6, <1>7, <2>4 DEF HandleInv, Implements, Handles!Next
<1>12. CASE t \notin live \/ p # "c_start"
  <2>1. \A u \in Threads : HandleState(u)' = HandleState(u)
    BY <1>1, <1>3, <1>8, <1>12 DEF HandleState
  <2> QED
    BY <1>5, <1>6, <1>7, <1>10, <2>1, Unseen DEF HandleInv, HandleStates
<1> QED
  BY <1>11, <1>12

\* What `new GuestThread()' does to the objects: the new one has not ended,
\* and only it is changed.
LEMMA NewObject ==
  ASSUME obj \in [Threads -> ObjRec], NEW t \in Threads, NEW s, NEW d,
         obj' = [obj EXCEPT ![t] = NewThread(s, d)]
  PROVE  /\ obj'[t].st = "alloc" /\ ~obj'[t].exited /\ ~obj'[t].joined /\ obj'[t].detached = d
         /\ \A u \in Threads \ {t} : obj'[u] = obj[u]
<1>1. obj'[t] = NewThread(s, d)
  OBVIOUS
<1>2. /\ NewThread(s, d).st = "alloc" /\ NewThread(s, d).detached = d
      /\ ~NewThread(s, d).exited /\ ~NewThread(s, d).joined
  BY DEF NewThread, Unallocated
<1> QED
  BY <1>1, <1>2

\* Create allocates an object that is in nobody's hands.
LEMMA SlotStep ==
  ASSUME TypeOK, LifeInv, HandleInv, NEW a \in Actors, CreateSlot(a)
  PROVE  HandleInv' /\ Implements
<1> USE DEF threads, registry, session, history
<1>c. call \in [Actors -> CallRec] /\ obj \in [Threads -> ObjRec]
  BY DEF TypeOK
<1>0. call[a].pc = "c_slot" /\ UNCHANGED <<body, live, zombies, handles>>
  BY DEF CreateSlot, At
<1>1. CASE Return(a) /\ obj' = obj
  <2>1. QuietMove(a)
    BY <1>c, <1>0, <1>1, QuietGoto
  <2>2. Silent(a)
    BY <1>0, <1>1, <2>1 DEF Silent, SameThreads, QuietBodies
  <2> QED
    BY <2>2, SilentKeeps DEF LifeInv
<1>2. CASE \E s \in FreeSlots, t \in Threads :
             /\ obj[t].st = "none"
             /\ obj' = [obj EXCEPT ![t] = NewThread(s, call[a].mode = "createDetached")]
             /\ call' = [call EXCEPT ![a].pc = "c_insert", ![a].t = t]
  <2>1. PICK s \in FreeSlots, t \in Threads :
             /\ obj[t].st = "none"
             /\ obj' = [obj EXCEPT ![t] = NewThread(s, call[a].mode = "createDetached")]
             /\ call' = [call EXCEPT ![a].pc = "c_insert", ![a].t = t]
    BY <1>2
  <2>2. /\ StepsAlone(a) /\ call'[a].pc = "c_insert" /\ Obj(a)' = t
        /\ call'[a].batch = call[a].batch /\ call'[a].keep = call[a].keep
    BY <1>c, <2>1 DEF StepsAlone, CallRec, Obj
  <2>3. /\ obj'[t].st = "alloc" /\ ~obj'[t].exited /\ ~obj'[t].joined
        /\ obj'[t].detached = (call[a].mode = "createDetached")
        /\ \A u \in Threads \ {t} : obj'[u] = obj[u]
    <3> DEFINE det == call[a].mode = "createDetached"
    <3>1. obj' = [obj EXCEPT ![t] = NewThread(s, det)]
      BY <2>1
    <3> HIDE DEF det
    <3>2. /\ obj'[t].st = "alloc" /\ ~obj'[t].exited /\ ~obj'[t].joined /\ obj'[t].detached = det
          /\ \A u \in Threads \ {t} : obj'[u] = obj[u]
      BY <1>c, <3>1, NewObject
    <3> QED
      BY <3>2 DEF det
  <2>4. /\ Fresh(t) /\ ~Listed(t) /\ body[t] = "none"
        /\ \A b \in Actors : call[b].pc \in UsePlaces => Obj(b) # t
    BY <2>1 DEF Fresh, LifeInv, FreshInv
  <2>5. t \notin handles /\ ~obj[t].exited /\ ~obj[t].detached /\ ~obj[t].joined
    BY <2>1 DEF HandleInv, UnpublishedInv, JoinedInv
  <2>6. JoinedInv'
    <3>1. ASSUME NEW b \in Actors, call'[b].pc \in Joining PROVE obj'[Obj(b)'].joined
      <4>1. b # a /\ call'[b] = call[b] /\ Obj(b)' = Obj(b)
        BY <2>2, <3>1 DEF StepsAlone, Joining, Obj
      <4>2. obj[Obj(b)].joined /\ Obj(b) \in Threads /\ Obj(b) # t
        BY <2>4, <3>1, <4>1 DEF HandleInv, JoinedInv, LifeInv, NamesInv, Joining, UsePlaces
      <4> QED
        BY <2>3, <4>1, <4>2
    <3>2. \A u \in Threads : obj'[u].joined => obj'[u].exited /\ ~obj'[u].detached
      BY <2>3 DEF HandleInv, JoinedInv
    <3> QED
      BY <3>1, <3>2 DEF JoinedInv
  <2>7. QueuedInv'
    <3>1. ~Queued(t)
      BY <2>4 DEF Queued, Listed, UsePlaces
    <3>2. \A u \in Threads : Queued(u)' => Queued(u)
      BY <1>0, <2>2 DEF Queued, StepsAlone, Obj
    <3> QED
      BY <2>3, <3>1, <3>2 DEF HandleInv, QueuedInv
  <2>8. UnpublishedInv'
    <3>1. \A u \in Threads :
            obj'[u].st = "none" => u \notin handles' /\ ~obj'[u].exited /\ ~obj'[u].detached
      BY <1>0, <2>3 DEF HandleInv, UnpublishedInv
    <3>2. \A b \in Actors : call'[b].pc \in Making => Obj(b)' \notin handles'
      BY <1>0, <2>2, <2>5 DEF HandleInv, UnpublishedInv, StepsAlone, Obj
    <3> QED
      BY <3>1, <3>2 DEF UnpublishedInv
  <2>9. \A u \in Threads : Fresh(u)' <=> Fresh(u)
    <3>1. Fresh(t)'
      BY <2>2 DEF Fresh
    <3>2. \A u \in Threads \ {t} : Fresh(u)' <=> Fresh(u)
      BY <1>0, <2>2, <2>3 DEF Fresh, StepsAlone, Obj
    <3> QED
      BY <2>4, <3>1, <3>2
  <2>10. t \notin live
    BY <2>4 DEF Listed
  <2>11. \A u \in Threads : HandleState(u)' = HandleState(u)
    BY <1>0, <2>3, <2>9, <2>10 DEF HandleState
  <2>12. \A u \in Threads : obj'[u].exited <=> obj[u].exited
    BY <2>3, <2>5
  <2>13. HandleStates' = HandleStates
    BY <2>11 DEF HandleStates
  <2>14. CASE call[a].mode # "createDetached"
    <3>1. ClaimSets' = ClaimSets
      BY <2>3, <2>5, <2>14 DEF ClaimSets, ClaimsOn
    <3> QED
      BY <2>6, <2>7, <2>8, <2>12, <2>13, <3>1, Unseen DEF HandleInv
  <2>15. CASE call[a].mode = "createDetached"
    <3>1. ClaimSets' = [ClaimSets EXCEPT ![t] = @ \cup {"detach"}]
      <4>1. \A u \in Threads :
              ClaimsOn(u)' = IF u = t THEN ClaimsOn(t) \cup {"detach"} ELSE ClaimsOn(u)
        BY <2>3, <2>5, <2>15 DEF ClaimsOn
      <4> QED
        BY <4>1 DEF ClaimSets
    <3>2. "join" \notin ClaimSets[t]
      BY <2>5 DEF ClaimSets, ClaimsOn
    <3>3. Handles!Detach(t)
      BY <2>12, <2>13, <3>1, <3>2 DEF Handles!Detach, HandleStates, ClaimSets
    <3> QED
      BY <2>6, <2>7, <2>8, <3>3 DEF HandleInv, Implements, Handles!Next
  <2> QED
    BY <2>14, <2>15
<1> QED
  BY <1>1, <1>2 DEF CreateSlot

\* Giving a handle to the guest publishes it while it is registered, and
\* tells him nothing new otherwise.
LEMMA Publishing ==
  ASSUME TypeOK, LifeInv, HandleInv, NEW t \in Threads, ~Fresh(t),
         \A b \in Actors : call[b].pc \in Making => Obj(b) # t,
         UNCHANGED <<obj, call, body, live, zombies>>, handles' = handles \cup {t}
  PROVE  HandleInv' /\ Implements
<1>1. JoinedInv' /\ QueuedInv'
  BY DEF HandleInv, JoinedInv, QueuedInv, Queued, Obj
<1>2. UnpublishedInv'
  BY DEF HandleInv, UnpublishedInv, Fresh, Obj
<1>3. \A u \in Threads : Fresh(u)' <=> Fresh(u)
  BY DEF Fresh, Obj
<1>6. ClaimSets' = ClaimSets
  BY DEF ClaimSets, ClaimsOn
<1>4. CASE t \in live /\ t \notin handles
  <2>1. HandleStates[t] = "none"
    BY <1>4 DEF HandleStates, HandleState
  <2>2. \A u \in Threads : HandleState(u)' =
          IF u = t THEN "valid" ELSE HandleState(u)
    BY <1>3, <1>4 DEF HandleState
  <2>3. HandleStates' = [HandleStates EXCEPT ![t] = "valid"]
    BY <2>2 DEF HandleStates
  <2>4. Handles!Publish(t)
    BY <1>6, <2>1, <2>3 DEF Handles!Publish, HandleStates, ClaimSets
  <2> QED
    BY <1>1, <1>2, <2>4 DEF HandleInv, Implements, Handles!Next
<1>5. CASE t \notin live \/ t \in handles
  <2>1. \A u \in Threads : HandleState(u)' = HandleState(u)
    BY <1>3, <1>5 DEF HandleState
  <2> QED
    BY <1>1, <1>2, <1>6, <2>1, Unseen DEF HandleInv, HandleStates
<1> QED
  BY <1>4, <1>5

\* The main thread's object appears registered; Self publishes it at once,
\* Join and Exit do not.
LEMMA NewMain ==
  ASSUME TypeOK, LifeInv, HandleInv, NEW a \in Actors, NEW t \in Threads, obj[t].st = "none",
         obj' = [obj EXCEPT ![t] = NewThread(None, FALSE)], live' = live \cup {t},
         QuietMove(a), UNCHANGED <<body, zombies>>,
         handles' = handles \/ handles' = handles \cup {t}
  PROVE  HandleInv' /\ Implements
<1> DEFINE Ended == {u \in Threads : obj[u].exited}
<1>1. /\ obj'[t].st = "alloc" /\ ~obj'[t].exited /\ ~obj'[t].joined /\ ~obj'[t].detached
      /\ \A u \in Threads \ {t} : obj'[u] = obj[u]
  BY NewObject DEF TypeOK
<1>2. /\ Fresh(t) /\ ~Listed(t) /\ body[t] = "none"
      /\ \A b \in Actors : call[b].pc \in UsePlaces => Obj(b) # t
  BY DEF Fresh, LifeInv, FreshInv
<1>3. \A b \in Actors : call[b].pc \in Creating => Obj(b) # t
  BY DEF LifeInv, CreatorInv, Allocated
<1>4. t \notin handles /\ ~obj[t].exited /\ ~obj[t].detached /\ ~obj[t].joined
  BY DEF HandleInv, UnpublishedInv, JoinedInv
<1>5. \A b \in Actors :
        /\ call'[b].pc \in Joining => call[b].pc \in Joining /\ Obj(b)' = Obj(b)
        /\ call'[b].pc \in Making => call[b].pc \in Making /\ Obj(b)' = Obj(b)
        /\ call'[b].pc \in Queueing => call[b].pc \in Queueing /\ Obj(b)' = Obj(b)
        /\ call'[b].batch \cup call'[b].keep \subseteq call[b].batch \cup call[b].keep
  BY DEF QuietMove, StepsAlone, Obj
<1>6. JoinedInv'
  <2>1. ASSUME NEW b \in Actors, call'[b].pc \in Joining PROVE obj'[Obj(b)'].joined
    <3>1. /\ call[b].pc \in Joining /\ Obj(b)' = Obj(b) /\ obj[Obj(b)].joined
          /\ Obj(b) \in Threads /\ Obj(b) # t
      BY <1>2, <1>5, <2>1 DEF HandleInv, JoinedInv, LifeInv, NamesInv, Joining, UsePlaces
    <3> QED
      BY <1>1, <3>1
  <2>2. \A u \in Threads : obj'[u].joined => obj'[u].exited /\ ~obj'[u].detached
    BY <1>1 DEF HandleInv, JoinedInv
  <2> QED
    BY <2>1, <2>2 DEF JoinedInv
<1>7. QueuedInv'
  <2>1. ~Queued(t)
    BY <1>2 DEF Queued, Listed, UsePlaces
  <2>2. \A u \in Threads : Queued(u)' => Queued(u)
    BY <1>5 DEF Queued, Queueing
  <2> QED
    BY <1>1, <2>1, <2>2 DEF HandleInv, QueuedInv
<1>8. UnpublishedInv'
  <2>1. \A u \in Threads :
          obj'[u].st = "none" => u \notin handles' /\ ~obj'[u].exited /\ ~obj'[u].detached
    <3>1. \A u \in Threads : obj'[u].st = "none" => u # t /\ obj'[u] = obj[u]
      BY <1>1
    <3>2. \A u \in Threads : u # t /\ u \in handles' => u \in handles
      OBVIOUS
    <3> QED
      BY <3>1, <3>2 DEF HandleInv, UnpublishedInv
  <2>2. \A b \in Actors : call'[b].pc \in Making => Obj(b)' \notin handles'
    BY <1>3, <1>5 DEF HandleInv, UnpublishedInv, Making, Creating
  <2> QED
    BY <2>1, <2>2 DEF UnpublishedInv
<1>9. \A u \in Threads \ {t} : Fresh(u)' <=> Fresh(u)
  BY <1>1 DEF Fresh, QuietMove, StepsAlone, Obj
<1>10. t \notin live
  BY <1>2 DEF Listed
<1>11. Ended' = Ended /\ ClaimSets' = ClaimSets
  <2>1. Ended' = Ended
    BY <1>1, <1>4
  <2>2. ClaimSets' = ClaimSets
    BY <1>1, <1>4 DEF ClaimSets, ClaimsOn
  <2> QED
    BY <2>1, <2>2
<1>12. HandleStates[t] = "none"
  BY <1>2, <1>10 DEF HandleStates, HandleState
<1>13. CASE handles' = handles
  <2>1. \A u \in Threads : HandleState(u)' = HandleState(u)
    BY <1>2, <1>4, <1>1, <1>9, <1>10, <1>13 DEF HandleState
  <2> QED
    BY <1>6, <1>7, <1>8, <1>11, <2>1, Unseen DEF HandleInv, HandleStates
<1>14. CASE handles' = handles \cup {t}
  <2>1. \A u \in Threads \ {t} : HandleState(u)' = HandleState(u)
    BY <1>1, <1>9, <1>14 DEF HandleState
  <2>2. HandleState(t)' = "valid"
    BY <1>14 DEF HandleState
  <2>3. HandleStates' = [HandleStates EXCEPT ![t] = "valid"]
    BY <2>1, <2>2 DEF HandleStates
  <2>4. Handles!Publish(t)
    BY <1>11, <1>12, <2>3 DEF Handles!Publish, HandleStates, ClaimSets
  <2> QED
    BY <1>6, <1>7, <1>8, <2>4 DEF HandleInv, Implements, Handles!Next
<1> QED
  BY <1>13, <1>14

\* The places that ask for the caller's own object.
LEMMA SelfSteps ==
  ASSUME TypeOK, LifeInv, HandleInv, NEW a \in Actors,
         SelfCall(a) \/ JoinSelf(a) \/ ExitBegin(a)
  PROVE  HandleInv' /\ Implements
<1> USE DEF threads, registry, session, history
<1>c. call \in [Actors -> CallRec]
  BY DEF TypeOK
<1>1. /\ MaterializeMain(a) /\ UNCHANGED <<body, zombies>>
      /\ handles' = handles \/ handles' = handles \cup {Self(a)'}
  BY DEF SelfCall, JoinSelf, ExitBegin
<1>2. QuietMove(a)
  <2>1. CASE SelfCall(a)
    BY <2>1 DEF SelfCall, CanCall, At, QuietMove, StepsAlone, Making, Joining, Queueing
  <2>2. CASE JoinSelf(a)
    BY <2>2, <1>c, QuietGoto DEF JoinSelf, At, QuietPlace, PcNames, Touching, Making, Joining, Queueing
  <2>3. CASE ExitBegin(a)
    <3>1. /\ call[a].pc = "idle" /\ StepsAlone(a) /\ call'[a].pc = "e_lock"
          /\ call'[a].batch = {} /\ call'[a].keep = {}
      BY <2>3, <1>c DEF ExitBegin, CanCall, At, StepsAlone, Idle
    <3> QED
      BY <3>1 DEF QuietMove, Making, Joining, Queueing
  <2> QED
    BY <2>1, <2>2, <2>3
<1>3. CASE a = Main /\ mainThread = None
  <2>1. PICK t \in Threads :
          /\ obj[t].st = "none" /\ obj' = [obj EXCEPT ![t] = NewThread(None, FALSE)]
          /\ live' = live \cup {t} /\ mainThread' = t
    BY <1>1, <1>3 DEF MaterializeMain
  <2>2. Self(a)' = t
    BY <1>3, <2>1 DEF Self
  <2> QED
    BY <1>1, <1>2, <2>1, <2>2, NewMain
<1>4. CASE ~(a = Main /\ mainThread = None)
  <2>1. UNCHANGED <<obj, live, mainThread>>
    BY <1>1, <1>4 DEF MaterializeMain
  <2>2. CASE handles' = handles
    BY <1>1, <1>2, <2>1, <2>2, SilentKeeps DEF Silent, SameThreads, QuietBodies, LifeInv
  <2>3. CASE SelfCall(a) /\ handles' = handles \cup {Self(a)'}
    <3>1. PICK t \in Threads : t = Self(a) /\ Self(a)' = t
      BY <1>4, <2>1 DEF Self, TypeOK, Actors
    <3>2. ~Fresh(t) /\ \A b \in Actors : call[b].pc \in Making => Obj(b) # t
      <4>1. CASE t = mainThread
        BY <4>1 DEF LifeInv, FreshInv, CreatorInv, Listed, Making, Creating
      <4>2. CASE t = a /\ body[t] = "guest"
        BY <4>2 DEF LifeInv, FreshInv, CreatorInv, Making, Creating
      <4> QED
        BY <2>3, <3>1, <4>1, <4>2 DEF SelfCall, CanCall, Self
    <3>3. call' = call
      BY <2>3 DEF SelfCall
    <3> QED
      BY <1>1, <2>1, <2>3, <3>1, <3>2, <3>3, Publishing
  <2> QED
    BY <1>1, <2>2, <2>3 DEF SelfCall, JoinSelf, ExitBegin
<1> QED
  BY <1>3, <1>4

\* The invariant of handles holds initially, where no handle is.
LEMMA HandleInit ==
  ASSUME Init
  PROVE  HandleInv /\ Handles!Init
<1>1. \A u \in Threads : obj[u] = Unallocated /\ body[u] = "none"
  BY DEF Init
<1>2. \A b \in Actors : call[b].pc = "idle" /\ call[b].batch = {} /\ call[b].keep = {}
  BY DEF Init, Idle
<1>3. HandleInv
  BY <1>1, <1>2 DEF Init, HandleInv, JoinedInv, QueuedInv, UnpublishedInv, Queued, Joining, Making, Unallocated
<1>4. \A u \in Threads : HandleState(u) = "none" /\ ClaimsOn(u) = {} /\ ~obj[u].exited
  BY <1>1 DEF Init, HandleState, ClaimsOn, Fresh, Unallocated
<1> QED
  BY <1>3, <1>4 DEF Handles!Init

\* Every step keeps it, and is a step of ThreadHandles or not seen there.
LEMMA HandleStep ==
  ASSUME IInv, HandleInv, [Next]_vars
  PROVE  HandleInv' /\ Implements
<1> USE DEF IInv
<1>n. TypeOK /\ LifeInv /\ NamesInv
  BY DEF LifeInv
<1>1. ASSUME NEW a \in Actors, Begin(a)
      PROVE  HandleInv' /\ Implements
  <2>1. CASE SelfCall(a) \/ ExitBegin(a)
    BY <2>1, SelfSteps
  <2>2. CASE CreateBegin(a)
    <3>1. Silent(a)
      BY <2>2, SilentBegins DEF CreateBegin, OpNames
    <3> QED
      BY <1>n, <3>1, SilentKeeps
  <2>3. CASE JoinBegin(a) \/ DetachBegin(a) \/ AttrGetBegin(a)
    <3>1. Known(a) \subseteq Threads
      BY DEF Known, TypeOK
    <3>2. Silent(a)
      BY <2>3, <3>1, SilentBegins DEF JoinBegin, DetachBegin, AttrGetBegin, CanCall
    <3> QED
      BY <1>n, <3>2, SilentKeeps
  <2> QED
    BY <1>1, <2>1, <2>2, <2>3 DEF Begin
<1>2. ASSUME NEW a \in Actors, Continue(a)
      PROVE  HandleInv' /\ Implements
  <2>1. CASE \/ UseEnd(a) \/ CreateFree(a) \/ CreateAssign(a) \/ CreateLog(a) \/ CreateStart(a)
             \/ JoinLock(a) \/ JoinHost(a) \/ JoinHostWait(a) \/ JoinLog(a)
             \/ QueueFlag(a) \/ AttrGetLock(a) \/ ReapDelete(a)
    BY <1>n, <2>1, SilentSteps, SilentKeeps
  <2>2. CASE QueuePush(a) \/ ReapSwap(a) \/ ReapBack(a)
    BY <1>n, <2>2, QueueSteps
  <2>3. CASE JoinErase(a) \/ ReapVisit(a) \/ CreateUndo(a)
    BY <2>3, RemovalSteps
  <2>4. CASE CreateSlot(a) \/ CreateInsert(a) \/ CreateTcb(a)
    BY <2>4, SlotStep, InsertHandle, TcbStep
  <2>5. CASE JoinWake(a) \/ DetachLock(a) \/ ExitLock(a) \/ JoinSelf(a)
    BY <2>5, WakeStep, DetachStep, EndSteps, SelfSteps
  <2> QED
    BY <1>2, <2>1, <2>2, <2>3, <2>4, <2>5
    DEF Continue, CreateContinue, Reap, JoinContinue, DetachContinue
<1>3. CASE UseAfterFree \/ SlotRace \/ UNCHANGED vars
  <2>1. UNCHANGED <<obj, call, body, live, zombies, handles>>
    BY <1>3 DEF UseAfterFree, SlotRace, vars, threads, registry, history
  <2>2. SameThreads /\ KeepsPlaces
    BY <2>1, NoCall DEF SameThreads, QuietBodies
  <2> QED
    BY <1>n, <2>1, <2>2, SameStory, Unseen
<1>4. ASSUME NEW t \in Threads, BodyReturn(t) \/ BodyEnd(t)
      PROVE  HandleInv' /\ Implements
  BY <1>4, EndSteps, BodyEndHandles
<1>5. CASE ResetBegin \/ ResetContinue
  BY <1>5, ResetHandles, TeardownStep DEF ResetContinue
<1> QED
  BY <1>1, <1>2, <1>3, <1>4, <1>5 DEF Next

\* Whatever calls the guest makes and whenever a session ends, Join and Detach
\* of one thread never both succeed, a Join succeeds after the thread's end
\* only, and what has been consumed stays so: the surface implements its contract.
THEOREM HandlesKeepTheirPromise == Spec => ImplementsHandles
<1>1. Init => IInv /\ HandleInv /\ Handles!Init
  BY IInvInit, HandleInit
<1>2. IInv /\ HandleInv /\ [Next]_vars => IInv' /\ HandleInv' /\ [Handles!Next]_(Handles!vars)
  <2> SUFFICES ASSUME IInv, HandleInv, [Next]_vars
               PROVE  IInv' /\ HandleInv' /\ [Handles!Next]_(Handles!vars)
    OBVIOUS
  <2>1. IInv' /\ HandleInv' /\ Implements
    BY IInvStep, HandleStep
  <2> QED
    BY <2>1 DEF Implements
<1> QED
  BY <1>1, <1>2, PTL DEF Spec, ImplementsHandles, Handles!Spec

-----------------------------------------------------------------------------
(* Slots and zombies while there is no teardown.                           *)

\* Nobody has asked for a teardown.
NoTeardown == reset.phase = "idle" /\ ~resetting

\* Objects that exist have different slots, and who has a body has a slot.
SlotInv ==
  /\ SlotsAccounted
  /\ \A t, u \in Threads :
       Allocated(t) /\ Allocated(u) /\ t # u /\ obj[t].slot # None => obj[t].slot # obj[u].slot
  /\ \A a \in Actors : call[a].pc \in Creating => obj[Obj(a)].slot # None
  /\ \A t \in Threads : Allocated(t) /\ body[t] # "none" => obj[t].slot # None

\* The places where a reaper has something in its hands.
Reaping == {"r_visit", "r_delete", "r_back"}

\* Who has a queued object, before somebody has claimed it.
Owned(t) ==
  \/ t \in zombies \/ obj[t].dead \/ AboutToPush(t)
  \/ \E a \in Actors : t \in call[a].batch \cup call[a].keep

\* A queued object has an owner, and a reaper lets go of nothing.
ZombieInv ==
  /\ \A t \in Threads : obj[t].zombieQueued /\ Allocated(t) => Owned(t)
  /\ \A a \in Actors : call[a].pc \notin Reaping => call[a].batch = {} /\ call[a].keep = {}
  /\ \A a \in Actors : call[a].pc = "r_back" => call[a].batch = {}

StockInv == NoTeardown /\ SlotInv /\ ZombieInv

\* A step that neither makes nor deletes objects.
SameStock ==
  /\ \A u \in Threads :
       /\ obj'[u].st = obj[u].st /\ obj'[u].slot = obj[u].slot
       /\ Allocated(u) /\ body'[u] # "none" => body[u] # "none" \/ obj[u].slot # None
  /\ \A b \in Actors : call'[b].pc \in Creating => call[b].pc \in Creating /\ Obj(b)' = Obj(b)
  /\ slotInUse' = slotInUse

\* A step of one call that has nothing to do with the reaper.
NoReaping(a) ==
  /\ StepsAlone(a)
  /\ call[a].pc \notin Reaping \cup {"q_push"}
  /\ call'[a].pc \notin Reaping /\ call'[a].batch = {} /\ call'[a].keep = {}
  /\ zombies' = zombies
  /\ \A u \in Threads :
       /\ Allocated(u) /\ obj[u].dead => obj'[u].dead
       /\ body[u] = "push" => body'[u] = "push"

\* Slots stay accounted for.
LEMMA SameSlots ==
  ASSUME TypeOK, LifeInv, SlotInv, SameStock
  PROVE  SlotInv'
<1>1. \A u \in Threads : (Allocated(u)' <=> Allocated(u)) /\ obj'[u].slot = obj[u].slot
  BY DEF SameStock, Allocated
<1>2. SlotsAccounted'
  BY <1>1 DEF SlotInv, SlotsAccounted, SameStock
<1>3. \A t, u \in Threads :
       Allocated(t)' /\ Allocated(u)' /\ t # u /\ obj'[t].slot # None => obj'[t].slot # obj'[u].slot
  BY <1>1 DEF SlotInv
<1>4. \A a \in Actors : call'[a].pc \in Creating => obj'[Obj(a)'].slot # None
  BY <1>1 DEF SlotInv, SameStock, LifeInv, NamesInv
<1>5. \A t \in Threads : Allocated(t)' /\ body'[t] # "none" => obj'[t].slot # None
  BY <1>1 DEF SlotInv, SameStock
<1> QED
  BY <1>2, <1>3, <1>4, <1>5 DEF SlotInv

\* Queued objects keep their owner.
LEMMA SameOwners ==
  ASSUME TypeOK, ZombieInv, NEW a \in Actors, NoReaping(a),
         \A u \in Threads :
           obj'[u].zombieQueued /\ Allocated(u)' => obj[u].zombieQueued /\ Allocated(u)
  PROVE  ZombieInv'
<1>1. \A b \in Actors : b # a => call'[b] = call[b] /\ Obj(b)' = Obj(b)
  BY DEF NoReaping, StepsAlone, Obj
<1>2. call[a].batch = {} /\ call[a].keep = {}
  BY DEF NoReaping, ZombieInv
<1>3. \A u \in Threads : Allocated(u) /\ Owned(u) => Owned(u)'
  BY <1>1, <1>2 DEF NoReaping, Owned, AboutToPush
<1>4. \A b \in Actors :
        /\ call'[b].pc \notin Reaping => call'[b].batch = {} /\ call'[b].keep = {}
        /\ call'[b].pc = "r_back" => call'[b].batch = {}
  BY <1>1 DEF NoReaping, ZombieInv
<1> QED
  BY <1>3, <1>4 DEF ZombieInv

\* The assignments that neither make, delete nor queue an object.
LEMMA StockEffect ==
  ASSUME NEW r \in ObjRec, NEW q, NEW n, NEW x,
         \/ q = r
         \/ q = [r EXCEPT !.uses = n]
         \/ q = [r EXCEPT !.dead = TRUE]
         \/ q = [r EXCEPT !.m = x]
         \/ q = [r EXCEPT !.joined = TRUE, !.m = x]
         \/ q = [r EXCEPT !.detached = TRUE]
         \/ q = [r EXCEPT !.exited = TRUE]
  PROVE  /\ q.st = r.st /\ q.slot = r.slot /\ q.zombieQueued = r.zombieQueued
         /\ r.dead => q.dead
  BY DEF ObjRec

\* The same for an object in its place.
LEMMA SetStock ==
  ASSUME obj \in [Threads -> ObjRec], NEW t, NEW n, NEW x,
         \/ obj' = obj
         \/ obj' = [obj EXCEPT ![t].uses = n]
         \/ obj' = [obj EXCEPT ![t].dead = TRUE]
         \/ obj' = [obj EXCEPT ![t].m = x]
         \/ obj' = [obj EXCEPT ![t].joined = TRUE, ![t].m = x]
         \/ obj' = [obj EXCEPT ![t].detached = TRUE]
         \/ obj' = [obj EXCEPT ![t].exited = TRUE]
  PROVE  \A u \in Threads :
           /\ obj'[u].st = obj[u].st /\ obj'[u].slot = obj[u].slot
           /\ obj'[u].zombieQueued = obj[u].zombieQueued
           /\ obj[u].dead => obj'[u].dead
<1> SUFFICES ASSUME NEW u \in Threads
             PROVE  /\ obj'[u].st = obj[u].st /\ obj'[u].slot = obj[u].slot
                    /\ obj'[u].zombieQueued = obj[u].zombieQueued
                    /\ obj[u].dead => obj'[u].dead
  OBVIOUS
<1>1. CASE u # t
  BY <1>1
<1>2. CASE u = t
  <2> DEFINE r == obj[u]
  <2> DEFINE q == obj'[u]
  <2>1. r \in ObjRec
    OBVIOUS
  <2>2. \/ q = r
        \/ q = [r EXCEPT !.uses = n]
        \/ q = [r EXCEPT !.dead = TRUE]
        \/ q = [r EXCEPT !.m = x]
        \/ q = [r EXCEPT !.joined = TRUE, !.m = x]
        \/ q = [r EXCEPT !.detached = TRUE]
        \/ q = [r EXCEPT !.exited = TRUE]
    BY <1>2
  <2> HIDE DEF r, q
  <2>3. /\ q.st = r.st /\ q.slot = r.slot /\ q.zombieQueued = r.zombieQueued
        /\ r.dead => q.dead
    BY <2>1, <2>2, StockEffect
  <2> QED
    BY <2>3 DEF r, q
<1> QED
  BY <1>1, <1>2

\* A call that moves on, outside the reaper.
LEMMA StockMove ==
  ASSUME call \in [Actors -> CallRec], ZombieInv, NEW a \in Actors, call[a].pc \notin Reaping,
         \/ Return(a) \/ Leave(a)
         \/ \E p \in PcNames \ Reaping : Goto(a, p) /\ (p \in Creating => call[a].pc \in Creating)
  PROVE  /\ StepsAlone(a)
         /\ call'[a].pc \notin Reaping /\ call'[a].batch = {} /\ call'[a].keep = {}
         /\ call'[a].pc \in Creating => call[a].pc \in Creating /\ Obj(a)' = Obj(a)
<1>1. call[a].batch = {} /\ call[a].keep = {}
  BY DEF ZombieInv
<1>2. CASE \E p \in PcNames \ Reaping : Goto(a, p) /\ (p \in Creating => call[a].pc \in Creating)
  BY <1>1, <1>2, GotoEffect DEF Obj
<1>3. CASE Return(a) \/ Leave(a)
  BY <1>1, <1>3, ReturnEffect, LeaveEffect DEF Reaping, Creating
<1> QED
  BY <1>2, <1>3

\* What the move of one call needs besides.
LEMMA StockKeeps ==
  ASSUME TypeOK, LifeInv, SlotInv, ZombieInv, NEW a \in Actors,
         StepsAlone(a), call[a].pc \notin Reaping \cup {"q_push"},
         call'[a].pc \notin Reaping, call'[a].batch = {}, call'[a].keep = {},
         call'[a].pc \in Creating => call[a].pc \in Creating /\ Obj(a)' = Obj(a),
         UNCHANGED <<body, zombies, slotInUse>>,
         \A u \in Threads :
           /\ obj'[u].st = obj[u].st /\ obj'[u].slot = obj[u].slot
           /\ obj'[u].zombieQueued = obj[u].zombieQueued
           /\ obj[u].dead => obj'[u].dead
  PROVE  SlotInv' /\ ZombieInv'
<1>1. SameStock
  BY DEF SameStock, StepsAlone, Obj
<1>2. NoReaping(a)
  BY DEF NoReaping
<1> QED
  BY <1>1, <1>2, SameSlots, SameOwners DEF Allocated

\* The steps of a call that neither make, delete nor queue an object.
LEMMA StockSteps ==
  ASSUME TypeOK, LifeInv, SlotInv, ZombieInv, NEW a \in Actors,
         \/ UseSub(a) \/ UseZombie(a) \/ UseDone(a) \/ UseLive(a) \/ UseDead(a) \/ Unlock(a)
         \/ CreateInsert(a) \/ CreateTcb(a) \/ CreateUndo(a) \/ CreateLog(a)
         \/ JoinLock(a) \/ JoinWake(a) \/ JoinHost(a) \/ JoinHostWait(a) \/ JoinErase(a)
         \/ JoinLog(a) \/ DetachLock(a) \/ AttrGetLock(a) \/ ExitLock(a) \/ CreateAssign(a)
  PROVE  SlotInv' /\ ZombieInv'
<1> USE DEF RestUnchanged, threads, registry, session, history
<1>c. call \in [Actors -> CallRec] /\ obj \in [Threads -> ObjRec]
  BY DEF TypeOK
<1>1. CASE UseSub(a)
  <2>1. call[a].pc = "u_sub" /\ UNCHANGED <<body, zombies, slotInUse>>
    BY <1>1 DEF UseSub, At
  <2>2. \A u \in Threads :
           /\ obj'[u].st = obj[u].st /\ obj'[u].slot = obj[u].slot
           /\ obj'[u].zombieQueued = obj[u].zombieQueued
           /\ obj[u].dead => obj'[u].dead
    BY <1>1, <1>c, SetStock DEF UseSub
  <2>3. /\ StepsAlone(a)
        /\ call'[a].pc \notin Reaping /\ call'[a].batch = {} /\ call'[a].keep = {}
        /\ call'[a].pc \in Creating => call[a].pc \in Creating /\ Obj(a)' = Obj(a)
    BY <1>1, <1>c, <2>1, StockMove DEF UseSub, PcNames, Touching, Reaping, Creating
  <2> QED
    BY <2>1, <2>2, <2>3, StockKeeps DEF Reaping
<1>2. CASE UseZombie(a)
  <2>1. call[a].pc = "u_zombie" /\ UNCHANGED <<body, zombies, slotInUse>>
    BY <1>2 DEF UseZombie, At
  <2>2. \A u \in Threads :
           /\ obj'[u].st = obj[u].st /\ obj'[u].slot = obj[u].slot
           /\ obj'[u].zombieQueued = obj[u].zombieQueued
           /\ obj[u].dead => obj'[u].dead
    BY <1>2, <1>c, SetStock DEF UseZombie
  <2>3. /\ StepsAlone(a)
        /\ call'[a].pc \notin Reaping /\ call'[a].batch = {} /\ call'[a].keep = {}
        /\ call'[a].pc \in Creating => call[a].pc \in Creating /\ Obj(a)' = Obj(a)
    BY <1>2, <1>c, <2>1, StockMove DEF UseZombie, PcNames, Touching, Reaping, Creating
  <2> QED
    BY <2>1, <2>2, <2>3, StockKeeps DEF Reaping
<1>3. CASE UseDone(a)
  <2>1. call[a].pc = "u_done" /\ UNCHANGED <<body, zombies, slotInUse>>
    BY <1>3 DEF UseDone, At
  <2>2. \A u \in Threads :
           /\ obj'[u].st = obj[u].st /\ obj'[u].slot = obj[u].slot
           /\ obj'[u].zombieQueued = obj[u].zombieQueued
           /\ obj[u].dead => obj'[u].dead
    BY <1>3, <1>c, SetStock DEF UseDone
  <2>3. /\ StepsAlone(a)
        /\ call'[a].pc \notin Reaping /\ call'[a].batch = {} /\ call'[a].keep = {}
        /\ call'[a].pc \in Creating => call[a].pc \in Creating /\ Obj(a)' = Obj(a)
    BY <1>3, <1>c, <2>1, StockMove DEF UseDone, PcNames, Touching, Reaping, Creating
  <2> QED
    BY <2>1, <2>2, <2>3, StockKeeps DEF Reaping
<1>4. CASE UseLive(a)
  <2>1. call[a].pc = "u_live" /\ UNCHANGED <<body, zombies, slotInUse>>
    BY <1>4 DEF UseLive, At
  <2>2. \A u \in Threads :
           /\ obj'[u].st = obj[u].st /\ obj'[u].slot = obj[u].slot
           /\ obj'[u].zombieQueued = obj[u].zombieQueued
           /\ obj[u].dead => obj'[u].dead
    BY <1>4, <1>c, SetStock DEF UseLive
  <2>3. /\ StepsAlone(a)
        /\ call'[a].pc \notin Reaping /\ call'[a].batch = {} /\ call'[a].keep = {}
        /\ call'[a].pc \in Creating => call[a].pc \in Creating /\ Obj(a)' = Obj(a)
    BY <1>4, <1>c, <2>1, StockMove DEF UseLive, PcNames, Touching, Reaping, Creating
  <2> QED
    BY <2>1, <2>2, <2>3, StockKeeps DEF Reaping
<1>5. CASE UseDead(a)
  <2>1. call[a].pc = "u_dead" /\ UNCHANGED <<body, zombies, slotInUse>>
    BY <1>5 DEF UseDead, At
  <2>2. \A u \in Threads :
           /\ obj'[u].st = obj[u].st /\ obj'[u].slot = obj[u].slot
           /\ obj'[u].zombieQueued = obj[u].zombieQueued
           /\ obj[u].dead => obj'[u].dead
    BY <1>5, <1>c, SetStock DEF UseDead
  <2>3. /\ StepsAlone(a)
        /\ call'[a].pc \notin Reaping /\ call'[a].batch = {} /\ call'[a].keep = {}
        /\ call'[a].pc \in Creating => call[a].pc \in Creating /\ Obj(a)' = Obj(a)
    BY <1>5, <1>c, <2>1, StockMove DEF UseDead, PcNames, Touching, Reaping, Creating
  <2> QED
    BY <2>1, <2>2, <2>3, StockKeeps DEF Reaping
<1>6. CASE Unlock(a)
  <2>1. call[a].pc = "unlock" /\ UNCHANGED <<body, zombies, slotInUse>>
    BY <1>6 DEF Unlock, At
  <2>2. \A u \in Threads :
           /\ obj'[u].st = obj[u].st /\ obj'[u].slot = obj[u].slot
           /\ obj'[u].zombieQueued = obj[u].zombieQueued
           /\ obj[u].dead => obj'[u].dead
    BY <1>6, <1>c, SetStock DEF Unlock
  <2>3. /\ StepsAlone(a)
        /\ call'[a].pc \notin Reaping /\ call'[a].batch = {} /\ call'[a].keep = {}
        /\ call'[a].pc \in Creating => call[a].pc \in Creating /\ Obj(a)' = Obj(a)
    BY <1>6, <1>c, <2>1, StockMove DEF Unlock, PcNames, Touching, Reaping, Creating
  <2> QED
    BY <2>1, <2>2, <2>3, StockKeeps DEF Reaping
<1>7. CASE CreateInsert(a)
  <2>1. call[a].pc = "c_insert" /\ UNCHANGED <<body, zombies, slotInUse>>
    BY <1>7 DEF CreateInsert, At
  <2>2. \A u \in Threads :
           /\ obj'[u].st = obj[u].st /\ obj'[u].slot = obj[u].slot
           /\ obj'[u].zombieQueued = obj[u].zombieQueued
           /\ obj[u].dead => obj'[u].dead
    BY <1>7, <1>c, SetStock DEF CreateInsert
  <2>3. /\ StepsAlone(a)
        /\ call'[a].pc \notin Reaping /\ call'[a].batch = {} /\ call'[a].keep = {}
        /\ call'[a].pc \in Creating => call[a].pc \in Creating /\ Obj(a)' = Obj(a)
    BY <1>7, <1>c, <2>1, StockMove DEF CreateInsert, PcNames, Touching, Reaping, Creating
  <2> QED
    BY <2>1, <2>2, <2>3, StockKeeps DEF Reaping
<1>8. CASE CreateTcb(a)
  <2>1. call[a].pc = "c_tcb" /\ UNCHANGED <<body, zombies, slotInUse>>
    BY <1>8 DEF CreateTcb, At
  <2>2. \A u \in Threads :
           /\ obj'[u].st = obj[u].st /\ obj'[u].slot = obj[u].slot
           /\ obj'[u].zombieQueued = obj[u].zombieQueued
           /\ obj[u].dead => obj'[u].dead
    BY <1>8, <1>c, SetStock DEF CreateTcb
  <2>3. /\ StepsAlone(a)
        /\ call'[a].pc \notin Reaping /\ call'[a].batch = {} /\ call'[a].keep = {}
        /\ call'[a].pc \in Creating => call[a].pc \in Creating /\ Obj(a)' = Obj(a)
    BY <1>8, <1>c, <2>1, StockMove DEF CreateTcb, PcNames, Touching, Reaping, Creating
  <2> QED
    BY <2>1, <2>2, <2>3, StockKeeps DEF Reaping
<1>9. CASE CreateUndo(a)
  <2>1. call[a].pc = "c_undo" /\ UNCHANGED <<body, zombies, slotInUse>>
    BY <1>9 DEF CreateUndo, At
  <2>2. \A u \in Threads :
           /\ obj'[u].st = obj[u].st /\ obj'[u].slot = obj[u].slot
           /\ obj'[u].zombieQueued = obj[u].zombieQueued
           /\ obj[u].dead => obj'[u].dead
    BY <1>9, <1>c, SetStock DEF CreateUndo
  <2>3. /\ StepsAlone(a)
        /\ call'[a].pc \notin Reaping /\ call'[a].batch = {} /\ call'[a].keep = {}
        /\ call'[a].pc \in Creating => call[a].pc \in Creating /\ Obj(a)' = Obj(a)
    BY <1>9, <1>c, <2>1, StockMove DEF CreateUndo, PcNames, Touching, Reaping, Creating
  <2> QED
    BY <2>1, <2>2, <2>3, StockKeeps DEF Reaping
<1>10. CASE CreateLog(a)
  <2>1. call[a].pc = "c_log" /\ UNCHANGED <<body, zombies, slotInUse>>
    BY <1>10 DEF CreateLog, At
  <2>2. \A u \in Threads :
           /\ obj'[u].st = obj[u].st /\ obj'[u].slot = obj[u].slot
           /\ obj'[u].zombieQueued = obj[u].zombieQueued
           /\ obj[u].dead => obj'[u].dead
    BY <1>10, <1>c, SetStock DEF CreateLog
  <2>3. /\ StepsAlone(a)
        /\ call'[a].pc \notin Reaping /\ call'[a].batch = {} /\ call'[a].keep = {}
        /\ call'[a].pc \in Creating => call[a].pc \in Creating /\ Obj(a)' = Obj(a)
    BY <1>10, <1>c, <2>1, StockMove DEF CreateLog, PcNames, Touching, Reaping, Creating
  <2> QED
    BY <2>1, <2>2, <2>3, StockKeeps DEF Reaping
<1>11. CASE JoinLock(a)
  <2>1. call[a].pc = "j_lock" /\ UNCHANGED <<body, zombies, slotInUse>>
    BY <1>11 DEF JoinLock, At
  <2>2. \A u \in Threads :
           /\ obj'[u].st = obj[u].st /\ obj'[u].slot = obj[u].slot
           /\ obj'[u].zombieQueued = obj[u].zombieQueued
           /\ obj[u].dead => obj'[u].dead
    BY <1>11, <1>c, SetStock DEF JoinLock
  <2>3. /\ StepsAlone(a)
        /\ call'[a].pc \notin Reaping /\ call'[a].batch = {} /\ call'[a].keep = {}
        /\ call'[a].pc \in Creating => call[a].pc \in Creating /\ Obj(a)' = Obj(a)
    BY <1>11, <1>c, <2>1, StockMove DEF JoinLock, PcNames, Touching, Reaping, Creating
  <2> QED
    BY <2>1, <2>2, <2>3, StockKeeps DEF Reaping
<1>12. CASE JoinWake(a)
  <2>1. call[a].pc = "j_wait" /\ UNCHANGED <<body, zombies, slotInUse>>
    BY <1>12 DEF JoinWake, At
  <2>2. \A u \in Threads :
           /\ obj'[u].st = obj[u].st /\ obj'[u].slot = obj[u].slot
           /\ obj'[u].zombieQueued = obj[u].zombieQueued
           /\ obj[u].dead => obj'[u].dead
    BY <1>12, <1>c, SetStock DEF JoinWake
  <2>3. /\ StepsAlone(a)
        /\ call'[a].pc \notin Reaping /\ call'[a].batch = {} /\ call'[a].keep = {}
        /\ call'[a].pc \in Creating => call[a].pc \in Creating /\ Obj(a)' = Obj(a)
    <3>1. PICK p \in {"u_sub", "j_host"} : Goto(a, p)
      BY <1>12 DEF JoinWake
    <3> QED
      BY <1>c, <2>1, <3>1, StockMove DEF PcNames, Touching, Reaping, Creating
  <2> QED
    BY <2>1, <2>2, <2>3, StockKeeps DEF Reaping
<1>13. CASE JoinHost(a)
  <2>1. call[a].pc = "j_host" /\ UNCHANGED <<body, zombies, slotInUse>>
    BY <1>13 DEF JoinHost, At
  <2>2. \A u \in Threads :
           /\ obj'[u].st = obj[u].st /\ obj'[u].slot = obj[u].slot
           /\ obj'[u].zombieQueued = obj[u].zombieQueued
           /\ obj[u].dead => obj'[u].dead
    BY <1>13, <1>c, SetStock DEF JoinHost
  <2>3. /\ StepsAlone(a)
        /\ call'[a].pc \notin Reaping /\ call'[a].batch = {} /\ call'[a].keep = {}
        /\ call'[a].pc \in Creating => call[a].pc \in Creating /\ Obj(a)' = Obj(a)
    <3>1. CASE call' = call
      BY <2>1, <3>1 DEF StepsAlone, ZombieInv, Reaping, Creating
    <3>2. CASE call' # call
      BY <1>13, <1>c, <2>1, <3>2, StockMove DEF JoinHost, PcNames, Touching, Reaping, Creating
    <3> QED
      BY <3>1, <3>2
  <2> QED
    BY <2>1, <2>2, <2>3, StockKeeps DEF Reaping
<1>14. CASE JoinHostWait(a)
  <2>1. call[a].pc = "j_hostwait" /\ UNCHANGED <<body, zombies, slotInUse>>
    BY <1>14 DEF JoinHostWait, At
  <2>2. \A u \in Threads :
           /\ obj'[u].st = obj[u].st /\ obj'[u].slot = obj[u].slot
           /\ obj'[u].zombieQueued = obj[u].zombieQueued
           /\ obj[u].dead => obj'[u].dead
    BY <1>14, <1>c, SetStock DEF JoinHostWait
  <2>3. /\ StepsAlone(a)
        /\ call'[a].pc \notin Reaping /\ call'[a].batch = {} /\ call'[a].keep = {}
        /\ call'[a].pc \in Creating => call[a].pc \in Creating /\ Obj(a)' = Obj(a)
    BY <1>14, <1>c, <2>1, StockMove DEF JoinHostWait, PcNames, Touching, Reaping, Creating
  <2> QED
    BY <2>1, <2>2, <2>3, StockKeeps DEF Reaping
<1>15. CASE JoinErase(a)
  <2>1. call[a].pc = "j_erase" /\ UNCHANGED <<body, zombies, slotInUse>>
    BY <1>15 DEF JoinErase, At
  <2>2. \A u \in Threads :
           /\ obj'[u].st = obj[u].st /\ obj'[u].slot = obj[u].slot
           /\ obj'[u].zombieQueued = obj[u].zombieQueued
           /\ obj[u].dead => obj'[u].dead
    BY <1>15, <1>c, SetStock DEF JoinErase
  <2>3. /\ StepsAlone(a)
        /\ call'[a].pc \notin Reaping /\ call'[a].batch = {} /\ call'[a].keep = {}
        /\ call'[a].pc \in Creating => call[a].pc \in Creating /\ Obj(a)' = Obj(a)
    BY <1>15, <1>c, <2>1, StockMove DEF JoinErase, PcNames, Touching, Reaping, Creating
  <2> QED
    BY <2>1, <2>2, <2>3, StockKeeps DEF Reaping
<1>16. CASE JoinLog(a)
  <2>1. call[a].pc = "j_log" /\ UNCHANGED <<body, zombies, slotInUse>>
    BY <1>16 DEF JoinLog, At
  <2>2. \A u \in Threads :
           /\ obj'[u].st = obj[u].st /\ obj'[u].slot = obj[u].slot
           /\ obj'[u].zombieQueued = obj[u].zombieQueued
           /\ obj[u].dead => obj'[u].dead
    BY <1>16, <1>c, SetStock DEF JoinLog
  <2>3. /\ StepsAlone(a)
        /\ call'[a].pc \notin Reaping /\ call'[a].batch = {} /\ call'[a].keep = {}
        /\ call'[a].pc \in Creating => call[a].pc \in Creating /\ Obj(a)' = Obj(a)
    BY <1>16, <1>c, <2>1, StockMove DEF JoinLog, PcNames, Touching, Reaping, Creating
  <2> QED
    BY <2>1, <2>2, <2>3, StockKeeps DEF Reaping
<1>17. CASE DetachLock(a)
  <2>1. call[a].pc = "d_lock" /\ UNCHANGED <<body, zombies, slotInUse>>
    BY <1>17 DEF DetachLock, At
  <2>2. \A u \in Threads :
           /\ obj'[u].st = obj[u].st /\ obj'[u].slot = obj[u].slot
           /\ obj'[u].zombieQueued = obj[u].zombieQueued
           /\ obj[u].dead => obj'[u].dead
    BY <1>17, <1>c, SetStock DEF DetachLock
  <2>3. /\ StepsAlone(a)
        /\ call'[a].pc \notin Reaping /\ call'[a].batch = {} /\ call'[a].keep = {}
        /\ call'[a].pc \in Creating => call[a].pc \in Creating /\ Obj(a)' = Obj(a)
    <3>1. PICK p \in {"u_sub", "q_flag"} : Goto(a, p)
      BY <1>17 DEF DetachLock
    <3> QED
      BY <1>c, <2>1, <3>1, StockMove DEF PcNames, Touching, Reaping, Creating
  <2> QED
    BY <2>1, <2>2, <2>3, StockKeeps DEF Reaping
<1>18. CASE AttrGetLock(a)
  <2>1. call[a].pc = "g_lock" /\ UNCHANGED <<body, zombies, slotInUse>>
    BY <1>18 DEF AttrGetLock, At
  <2>2. \A u \in Threads :
           /\ obj'[u].st = obj[u].st /\ obj'[u].slot = obj[u].slot
           /\ obj'[u].zombieQueued = obj[u].zombieQueued
           /\ obj[u].dead => obj'[u].dead
    BY <1>18, <1>c, SetStock DEF AttrGetLock
  <2>3. /\ StepsAlone(a)
        /\ call'[a].pc \notin Reaping /\ call'[a].batch = {} /\ call'[a].keep = {}
        /\ call'[a].pc \in Creating => call[a].pc \in Creating /\ Obj(a)' = Obj(a)
    BY <1>18, <1>c, <2>1, StockMove DEF AttrGetLock, PcNames, Touching, Reaping, Creating
  <2> QED
    BY <2>1, <2>2, <2>3, StockKeeps DEF Reaping
<1>19. CASE ExitLock(a)
  <2>1. call[a].pc = "e_lock" /\ UNCHANGED <<body, zombies, slotInUse>>
    BY <1>19 DEF ExitLock, At
  <2>2. \A u \in Threads :
           /\ obj'[u].st = obj[u].st /\ obj'[u].slot = obj[u].slot
           /\ obj'[u].zombieQueued = obj[u].zombieQueued
           /\ obj[u].dead => obj'[u].dead
    BY <1>19, <1>c, SetStock DEF ExitLock
  <2>3. /\ StepsAlone(a)
        /\ call'[a].pc \notin Reaping /\ call'[a].batch = {} /\ call'[a].keep = {}
        /\ call'[a].pc \in Creating => call[a].pc \in Creating /\ Obj(a)' = Obj(a)
    BY <1>19, <1>c, <2>1, StockMove DEF ExitLock, PcNames, Touching, Reaping, Creating
  <2> QED
    BY <2>1, <2>2, <2>3, StockKeeps DEF Reaping
<1>20. CASE CreateAssign(a)
  <2>1. call[a].pc = "c_assign" /\ UNCHANGED <<body, zombies, slotInUse>>
    BY <1>20 DEF CreateAssign, At
  <2>2. \A u \in Threads :
           /\ obj'[u].st = obj[u].st /\ obj'[u].slot = obj[u].slot
           /\ obj'[u].zombieQueued = obj[u].zombieQueued
           /\ obj[u].dead => obj'[u].dead
    BY <1>20, <1>c, SetStock DEF CreateAssign
  <2>3. /\ StepsAlone(a)
        /\ call'[a].pc \notin Reaping /\ call'[a].batch = {} /\ call'[a].keep = {}
        /\ call'[a].pc \in Creating => call[a].pc \in Creating /\ Obj(a)' = Obj(a)
    BY <1>20, <1>c, <2>1, StockMove DEF CreateAssign, PcNames, Touching, Reaping, Creating
  <2> QED
    BY <2>1, <2>2, <2>3, StockKeeps DEF Reaping
<1> QED
  BY <1>1, <1>2, <1>3, <1>4, <1>5, <1>6, <1>7, <1>8, <1>9, <1>10, <1>11, <1>12, <1>13, <1>14, <1>15, <1>16, <1>17, <1>18, <1>19, <1>20

\* Calls that begin.
LEMMA StockBegins ==
  ASSUME TypeOK, LifeInv, SlotInv, ZombieInv, NEW a \in Actors,
         \/ \E mode \in OpNames : CreateCheck(a, mode)
         \/ At(a, "idle") /\ \E t \in Threads, p \in {"j_self", "d_lock", "g_lock"} :
                               \E mode : UseBegin(a, t, p, mode)
  PROVE  SlotInv' /\ ZombieInv'
<1> USE DEF RestUnchanged, threads, registry, session, history
<1>c. call \in [Actors -> CallRec] /\ obj \in [Threads -> ObjRec]
  BY DEF TypeOK
<1>1. /\ call[a].pc = "idle" /\ StepsAlone(a)
      /\ call'[a].pc \in {"c_slot", "j_self", "d_lock", "g_lock"}
      /\ call'[a].batch = {} /\ call'[a].keep = {}
      /\ UNCHANGED <<body, zombies, slotInUse>>
  <2>1. CASE \E mode \in OpNames : CreateCheck(a, mode)
    <3>1. PICK mode \in OpNames : CreateCheck(a, mode)
      BY <2>1
    <3>2. call' = [call EXCEPT ![a] = [Idle EXCEPT !.pc = "c_slot", !.mode = mode]]
      BY <3>1 DEF CreateCheck
    <3> QED
      BY <1>c, <3>1, <3>2 DEF CreateCheck, CanCall, At, StepsAlone, Idle
  <2>2. CASE At(a, "idle") /\ \E t \in Threads, p \in {"j_self", "d_lock", "g_lock"} :
                               \E mode : UseBegin(a, t, p, mode)
    <3>1. PICK t \in Threads, p \in {"j_self", "d_lock", "g_lock"} : \E mode : UseBegin(a, t, p, mode)
      BY <2>2
    <3>2. PICK mode : UseBegin(a, t, p, mode)
      BY <3>1
    <3>3. call' = [call EXCEPT ![a] = [Idle EXCEPT !.pc = p, !.t = t, !.mode = mode]]
      BY <3>2 DEF UseBegin
    <3>4. StepsAlone(a) /\ call'[a].pc = p /\ call'[a].batch = {} /\ call'[a].keep = {}
      BY <1>c, <3>3 DEF StepsAlone, Idle
    <3>5. UNCHANGED <<body, zombies, slotInUse>>
      BY <3>2 DEF UseBegin
    <3> QED
      BY <2>2, <3>4, <3>5 DEF At
  <2> QED
    BY <2>1, <2>2
<1>2. \A u \in Threads :
        /\ obj'[u].st = obj[u].st /\ obj'[u].slot = obj[u].slot
        /\ obj'[u].zombieQueued = obj[u].zombieQueued
        /\ obj[u].dead => obj'[u].dead
  <2>1. obj' = obj \/ \E t \in Threads : obj' = [obj EXCEPT ![t].uses = @ + 1]
    BY DEF CreateCheck, UseBegin
  <2>2. obj' = obj \/ \E t \in Threads, n \in {obj[t].uses + 1 : t \in Threads} :
                        obj' = [obj EXCEPT ![t].uses = n]
    BY <2>1, <1>c
  <2> QED
    BY <1>c, <2>2, SetStock
<1> QED
  BY <1>1, <1>2, StockKeeps DEF Reaping, Creating

\* The body starts with the slot its Create has found for it.
LEMMA StartStock ==
  ASSUME TypeOK, LifeInv, SlotInv, ZombieInv, NEW a \in Actors, CreateStart(a)
  PROVE  SlotInv' /\ ZombieInv'
<1> USE DEF registry, session, history
<1>c. call \in [Actors -> CallRec] /\ body \in [Threads -> {"none", "guest", "flag", "push", "last", "done"}]
  BY DEF TypeOK
<1>0. PICK t \in Threads : t = Obj(a)
  BY DEF CreateStart, At, LifeInv, NamesInv, Creating
<1>1. /\ call[a].pc = "c_start" /\ body[t] = "none" /\ obj[t].slot # None
      /\ UNCHANGED <<obj, zombies, slotInUse>>
  BY <1>0 DEF CreateStart, At, LifeInv, CreatorInv, SlotInv, Creating
<1>2. /\ StepsAlone(a) /\ call'[a].pc = "c_assign"
      /\ call'[a].batch = {} /\ call'[a].keep = {}
  BY <1>c, <1>1, GotoEffect DEF CreateStart, PcNames, Touching, ZombieInv, Reaping
<1>3. \A u \in Threads \ {t} : body'[u] = body[u]
  BY <1>0, <1>c DEF CreateStart
<1>4. SameStock
  BY <1>1, <1>2, <1>3 DEF SameStock, StepsAlone, Creating, Obj
<1>5. NoReaping(a)
  <2>1. \A u \in Threads : body[u] = "push" => body'[u] = "push"
    BY <1>1, <1>3
  <2> QED
    BY <1>1, <1>2, <2>1 DEF NoReaping, Reaping
<1> QED
  BY <1>1, <1>4, <1>5, SameSlots, SameOwners DEF Allocated

\* A deletion gives the slot back with the object.
LEMMA FreedSlots ==
  ASSUME TypeOK, LifeInv, SlotInv, NEW t \in Threads, Allocated(t),
         \A u \in Threads \ {t} : obj'[u] = obj[u],
         obj'[t].st = "freed", slotInUse' = slotInUse \ {obj[t].slot},
         UNCHANGED body,
         \A b \in Actors : call'[b].pc \in Creating =>
           call[b].pc \in Creating /\ Obj(b)' = Obj(b) /\ Obj(b) # t
  PROVE  SlotInv'
<1>1. /\ ~Allocated(t)'
      /\ \A u \in Threads \ {t} : (Allocated(u)' <=> Allocated(u)) /\ obj'[u].slot = obj[u].slot
  BY DEF Allocated
<1>2. SlotsAccounted'
  <2> DEFINE S == {u \in Threads : Allocated(u)}
  <2>1. S' = S \ {t} /\ t \in S
    BY <1>1
  <2>2. {obj'[u].slot : u \in S'} \ {None} = ({obj[u].slot : u \in S} \ {None}) \ {obj[t].slot}
    <3>1. \A u \in S \ {t} : obj'[u].slot = obj[u].slot /\ (obj[u].slot # None => obj[u].slot # obj[t].slot)
      BY <1>1, <2>1 DEF SlotInv
    <3> HIDE DEF S
    <3> QED
      BY <2>1, <3>1
  <2>3. slotInUse = {obj[u].slot : u \in S} \ {None}
    BY DEF SlotInv, SlotsAccounted
  <2>4. slotInUse' = {obj'[u].slot : u \in S'} \ {None}
    BY <2>2, <2>3
  <2> QED
    BY <2>4 DEF SlotsAccounted
<1>3. \A v, u \in Threads :
       Allocated(v)' /\ Allocated(u)' /\ v # u /\ obj'[v].slot # None => obj'[v].slot # obj'[u].slot
  BY <1>1 DEF SlotInv
<1>4. \A a \in Actors : call'[a].pc \in Creating => obj'[Obj(a)'].slot # None
  BY <1>1 DEF SlotInv, LifeInv, NamesInv
<1>5. \A u \in Threads : Allocated(u)' /\ body'[u] # "none" => obj'[u].slot # None
  BY <1>1 DEF SlotInv
<1> QED
  BY <1>2, <1>3, <1>4, <1>5 DEF SlotInv

\* A deleted object has nothing left to be asked for.
LEMMA FreedEffect ==
  ASSUME obj \in [Threads -> ObjRec], NEW t \in Threads,
         \/ obj' = [obj EXCEPT ![t].st = "freed", ![t].slot = None]
         \/ obj' = [obj EXCEPT ![t].st = "freed", ![t].slot = None, ![t].dead = TRUE]
  PROVE  /\ obj'[t].st = "freed" /\ \A u \in Threads \ {t} : obj'[u] = obj[u]
         /\ \A u \in Threads : obj[u].dead => obj'[u].dead
<1>1. \A u \in Threads \ {t} : obj'[u] = obj[u]
  OBVIOUS
<1>2. \/ obj'[t] = [obj[t] EXCEPT !.st = "freed", !.slot = None]
      \/ obj'[t] = [obj[t] EXCEPT !.st = "freed", !.slot = None, !.dead = TRUE]
  OBVIOUS
<1>3. obj[t] \in ObjRec
  OBVIOUS
<1>4. FreedFrom(obj'[t], obj[t])
  BY <1>2 DEF FreedFrom
<1>5. obj'[t].st = "freed" /\ (obj[t].dead => obj'[t].dead)
  BY <1>3, <1>4, FreeEffect, Zenon
<1> QED
  BY <1>1, <1>5

\* The three deletions outside a teardown.
LEMMA FreeSteps ==
  ASSUME TypeOK, LifeInv, SlotInv, ZombieInv, NEW a \in Actors,
         UseDelete(a) \/ CreateFree(a) \/ ReapDelete(a)
  PROVE  SlotInv' /\ ZombieInv'
<1> USE DEF threads, registry, session, history
<1>c. call \in [Actors -> CallRec] /\ obj \in [Threads -> ObjRec]
  BY DEF TypeOK
<1>1. CASE UseDelete(a) \/ CreateFree(a)
  <2>0. PICK t \in Threads : t = Obj(a)
    BY <1>1 DEF UseDelete, CreateFree, At, LifeInv, NamesInv, Ending, Creating
  <2>1. /\ call[a].pc \in {"u_delete", "c_free"} /\ Allocated(t)
        /\ slotInUse' = slotInUse \ {obj[t].slot} /\ UNCHANGED <<body, zombies>>
    BY <1>1, <2>0 DEF UseDelete, CreateFree, FinishDelete, At
  <2>2. obj'[t].st = "freed" /\ \A u \in Threads \ {t} : obj'[u] = obj[u]
    BY <1>1, <2>0, <1>c, FreedEffect DEF UseDelete, CreateFree, FinishDelete
  <2>3. Return(a) \/ Leave(a)
    BY <1>1 DEF UseDelete, CreateFree
  <2>4. /\ StepsAlone(a) /\ call'[a].pc \in {"idle", "unlock"}
        /\ call'[a].batch = {} /\ call'[a].keep = {}
    <3>1. call[a].batch = {} /\ call[a].keep = {}
      BY <2>1 DEF ZombieInv, Reaping
    <3> QED
      BY <1>c, <2>3, <3>1, ReturnEffect, LeaveEffect
  <2>5. \A b \in Actors : call'[b].pc \in Creating =>
           call[b].pc \in Creating /\ Obj(b)' = Obj(b) /\ Obj(b) # t
    <3>1. ASSUME NEW b \in Actors, call'[b].pc \in Creating
          PROVE  call[b].pc \in Creating /\ Obj(b)' = Obj(b) /\ Obj(b) # t
      <4>1. b # a /\ call'[b] = call[b]
        BY <2>4, <3>1 DEF StepsAlone, Creating
      <4>2. Obj(b) # t
        <5>1. CASE call[a].pc = "c_free"
          BY <2>0, <3>1, <4>1, <5>1 DEF LifeInv, CreatorInv, Creating
        <5>2. CASE call[a].pc = "u_delete"
          BY <2>0, <3>1, <4>1, <5>2 DEF LifeInv, CreatorInv, CondemnedInv, BodyDone
        <5> QED
          BY <2>1, <5>1, <5>2
      <4> QED
        BY <3>1, <4>1, <4>2 DEF Obj
    <3> QED
      BY <3>1
  <2>6. SlotInv'
    BY <2>1, <2>2, <2>5, FreedSlots
  <2>7. NoReaping(a)
    <3>1. \A u \in Threads : obj[u].dead => obj'[u].dead
      BY <1>c, <1>1, <2>0, FreedEffect DEF UseDelete, CreateFree, FinishDelete
    <3> QED
      BY <2>1, <2>4, <3>1 DEF NoReaping, Reaping
  <2>8. ZombieInv'
    BY <2>2, <2>7, SameOwners DEF Allocated
  <2> QED
    BY <2>6, <2>8
<1>2. CASE ReapDelete(a)
  <2>0. PICK t \in Threads : t = call[a].victim
    BY <1>2 DEF ReapDelete, At, LifeInv, NamesInv
  <2>1. /\ call[a].pc = "r_delete" /\ Allocated(t)
        /\ slotInUse' = slotInUse \ {obj[t].slot} /\ UNCHANGED <<body, zombies>>
    BY <1>2, <2>0 DEF ReapDelete, FinishDelete, At
  <2>2. obj'[t].st = "freed" /\ \A u \in Threads \ {t} : obj'[u] = obj[u]
    BY <1>2, <2>0, <1>c, FreedEffect DEF ReapDelete, FinishDelete
  <2>3. /\ StepsAlone(a) /\ call'[a].batch = call[a].batch /\ call'[a].keep = call[a].keep
        /\ call'[a].pc = IF call[a].batch = {} THEN "r_back" ELSE "r_visit"
    BY <1>2, <1>c DEF ReapDelete, StepsAlone, CallRec
  <2>4. \A b \in Actors : call'[b].pc \in Creating =>
           call[b].pc \in Creating /\ Obj(b)' = Obj(b) /\ Obj(b) # t
    <3>1. \A b \in Actors : call'[b].pc \in Creating => b # a
      BY <2>3 DEF Creating
    <3> QED
      BY <2>0, <2>1, <2>3, <3>1 DEF StepsAlone, LifeInv, CreatorInv, CondemnedInv, BodyDone, Obj
  <2>5. SlotInv'
    BY <2>1, <2>2, <2>4, FreedSlots
  <2>6. ZombieInv'
    <3>1. \A b \in Actors : b # a => call'[b] = call[b] /\ Obj(b)' = Obj(b)
      BY <2>3 DEF StepsAlone, Obj
    <3>2. \A u \in Threads \ {t} : Owned(u) => Owned(u)'
      BY <2>1, <2>2, <2>3, <3>1 DEF Owned, AboutToPush
    <3>3. \A u \in Threads : obj'[u].zombieQueued /\ Allocated(u)' =>
            u # t /\ obj[u].zombieQueued /\ Allocated(u)
      BY <2>2 DEF Allocated
    <3>4. \A b \in Actors :
        /\ call'[b].pc \notin Reaping => call'[b].batch = {} /\ call'[b].keep = {}
        /\ call'[b].pc = "r_back" => call'[b].batch = {}
      BY <2>3, <3>1 DEF ZombieInv, Reaping
    <3> QED
      BY <3>2, <3>3, <3>4 DEF ZombieInv
  <2> QED
    BY <2>5, <2>6
<1> QED
  BY <1>1, <1>2

\* A new object takes a slot that no object has, or none.
LEMMA NewSlots ==
  ASSUME TypeOK, LifeInv, SlotInv, NEW t \in Threads, NEW s \in FreeSlots \cup {None}, NEW d,
         obj[t].st = "none", obj' = [obj EXCEPT ![t] = NewThread(s, d)],
         slotInUse' = slotInUse \cup ({s} \ {None}),
         UNCHANGED body,
         \A b \in Actors : call'[b].pc \in Creating =>
           \/ call[b].pc \in Creating /\ Obj(b)' = Obj(b)
           \/ Obj(b)' = t /\ s # None
  PROVE  SlotInv'
<1>1. /\ Allocated(t)' /\ ~Allocated(t) /\ obj'[t].slot = s
      /\ \A u \in Threads \ {t} : obj'[u] = obj[u]
  <2>1. obj'[t] = NewThread(s, d) /\ \A u \in Threads \ {t} : obj'[u] = obj[u]
    BY DEF TypeOK
  <2>2. NewThread(s, d).st = "alloc" /\ NewThread(s, d).slot = s
    BY DEF NewThread, Unallocated
  <2> QED
    BY <2>1, <2>2 DEF Allocated
<1>2. \A u \in Threads \ {t} : (Allocated(u)' <=> Allocated(u)) /\ obj'[u].slot = obj[u].slot
  BY <1>1 DEF Allocated
<1> DEFINE S == {u \in Threads : Allocated(u)}
<1>3. slotInUse = {obj[u].slot : u \in S} \ {None}
  BY DEF SlotInv, SlotsAccounted
<1>4. SlotsAccounted'
  <2>1. S' = S \cup {t} /\ t \notin S
    BY <1>1, <1>2
  <2>2. \A u \in S : obj'[u].slot = obj[u].slot
    BY <1>2, <2>1
  <2> HIDE DEF S
  <2>3. {obj'[u].slot : u \in S'} = {obj[u].slot : u \in S} \cup {s}
    BY <1>1, <2>1, <2>2
  <2>4. slotInUse' = {obj'[u].slot : u \in S'} \ {None}
    BY <1>3, <2>3
  <2> QED
    BY <2>4 DEF S, SlotsAccounted
<1>5. \A u \in Threads : Allocated(u) /\ s # None => obj[u].slot # s
  <2>1. s # None => s \notin slotInUse
    BY DEF FreeSlots
  <2> QED
    BY <1>3, <2>1
<1>6. \A v, u \in Threads :
       Allocated(v)' /\ Allocated(u)' /\ v # u /\ obj'[v].slot # None => obj'[v].slot # obj'[u].slot
  <2> SUFFICES ASSUME NEW v \in Threads, NEW u \in Threads, Allocated(v)', Allocated(u)', v # u,
                      obj'[v].slot # None
               PROVE  obj'[v].slot # obj'[u].slot
    OBVIOUS
  <2>1. CASE v = t
    BY <1>1, <1>2, <1>5, <2>1
  <2>2. CASE u = t
    BY <1>1, <1>2, <1>5, <2>2
  <2>3. CASE v # t /\ u # t
    BY <1>2, <2>3 DEF SlotInv
  <2> QED
    BY <2>1, <2>2, <2>3
<1>7. \A b \in Actors : call'[b].pc \in Creating => obj'[Obj(b)'].slot # None
  <2>1. \A b \in Actors : call[b].pc \in Creating =>
          obj[Obj(b)].slot # None /\ Obj(b) \in Threads /\ Obj(b) # t
    BY DEF SlotInv, LifeInv, NamesInv, CreatorInv, Allocated
  <2> QED
    BY <1>1, <1>2, <2>1
<1>8. \A u \in Threads : Allocated(u)' /\ body'[u] # "none" => obj'[u].slot # None
  <2>1. body[t] = "none"
    BY DEF LifeInv, FreshInv, Fresh
  <2> QED
    BY <1>2, <2>1 DEF SlotInv
<1> QED
  BY <1>4, <1>6, <1>7, <1>8 DEF SlotInv

\* A new object is not queued.
LEMMA NewUnqueued ==
  ASSUME TypeOK, NEW t \in Threads, NEW s, NEW d, obj[t].st = "none",
         obj' = [obj EXCEPT ![t] = NewThread(s, d)]
  PROVE  \A u \in Threads :
           /\ obj'[u].zombieQueued /\ Allocated(u)' => obj[u].zombieQueued /\ Allocated(u)
           /\ Allocated(u) /\ obj[u].dead => obj'[u].dead
<1>1. obj'[t] = NewThread(s, d) /\ \A u \in Threads \ {t} : obj'[u] = obj[u]
  BY DEF TypeOK
<1>2. ~NewThread(s, d).zombieQueued
  BY DEF NewThread, Unallocated
<1> QED
  BY <1>1, <1>2 DEF Allocated

\* Create allocates an object with a slot.
LEMMA SlotStock ==
  ASSUME TypeOK, LifeInv, SlotInv, ZombieInv, NEW a \in Actors, CreateSlot(a)
  PROVE  SlotInv' /\ ZombieInv'
<1> USE DEF threads, registry, session, history
<1>c. call \in [Actors -> CallRec] /\ obj \in [Threads -> ObjRec]
  BY DEF TypeOK
<1>0. call[a].pc = "c_slot" /\ UNCHANGED <<body, zombies>>
  BY DEF CreateSlot, At
<1>1. CASE Return(a) /\ UNCHANGED <<obj, slotInUse>>
  <2>1. StepsAlone(a) /\ call'[a].pc = "idle" /\ call'[a].batch = {} /\ call'[a].keep = {}
    BY <1>c, <1>1, ReturnEffect
  <2> QED
    BY <1>0, <1>1, <2>1, StockKeeps DEF Reaping, Creating
<1>2. CASE \E s \in FreeSlots, t \in Threads :
             /\ obj[t].st = "none"
             /\ slotInUse' = slotInUse \cup {s}
             /\ obj' = [obj EXCEPT ![t] = NewThread(s, call[a].mode = "createDetached")]
             /\ call' = [call EXCEPT ![a].pc = "c_insert", ![a].t = t]
  <2>1. PICK s \in FreeSlots, t \in Threads :
             /\ obj[t].st = "none"
             /\ slotInUse' = slotInUse \cup {s}
             /\ obj' = [obj EXCEPT ![t] = NewThread(s, call[a].mode = "createDetached")]
             /\ call' = [call EXCEPT ![a].pc = "c_insert", ![a].t = t]
    BY <1>2
  <2>2. /\ StepsAlone(a) /\ call'[a].pc = "c_insert" /\ Obj(a)' = t
        /\ call'[a].batch = {} /\ call'[a].keep = {}
    <3>1. call[a].batch = {} /\ call[a].keep = {}
      BY <1>0 DEF ZombieInv, Reaping
    <3> QED
      BY <1>c, <2>1, <3>1 DEF StepsAlone, CallRec, Obj
  <2>3. s # None /\ slotInUse' = slotInUse \cup ({s} \ {None})
    BY <2>1, ConstantsOK DEF FreeSlots
  <2>4. SlotInv'
    <3>1. \A b \in Actors : call'[b].pc \in Creating =>
            \/ call[b].pc \in Creating /\ Obj(b)' = Obj(b)
            \/ Obj(b)' = t /\ s # None
      BY <2>2, <2>3 DEF StepsAlone, Obj
    <3> QED
      BY <1>0, <2>1, <2>3, <3>1, NewSlots
  <2>5. ZombieInv'
    <3>1. NoReaping(a)
      BY <1>0, <2>1, <2>2, NewUnqueued DEF NoReaping, Reaping
    <3> QED
      BY <2>1, <3>1, SameOwners, NewUnqueued
  <2> QED
    BY <2>4, <2>5
<1> QED
  BY <1>1, <1>2 DEF CreateSlot

\* The main thread's object has no slot.
LEMMA SelfStock ==
  ASSUME TypeOK, LifeInv, SlotInv, ZombieInv, NEW a \in Actors,
         SelfCall(a) \/ JoinSelf(a) \/ ExitBegin(a)
  PROVE  SlotInv' /\ ZombieInv'
<1>c. call \in [Actors -> CallRec] /\ obj \in [Threads -> ObjRec]
  BY DEF TypeOK
<1>1. MaterializeMain(a) /\ UNCHANGED <<body, zombies, slotInUse>>
  BY DEF SelfCall, JoinSelf, ExitBegin, threads
<1>2. /\ StepsAlone(a) /\ call[a].pc \in {"idle", "j_self"}
      /\ call'[a].pc \in {"idle", "j_lock", "u_sub", "e_lock"}
      /\ call'[a].batch = {} /\ call'[a].keep = {}
  <2>1. call[a].pc \in {"idle", "j_self"}
    BY DEF SelfCall, JoinSelf, ExitBegin, CanCall, At
  <2>2. call[a].batch = {} /\ call[a].keep = {}
    BY <2>1 DEF ZombieInv, Reaping
  <2>3. CASE SelfCall(a)
    BY <2>1, <2>2, <2>3 DEF SelfCall, CanCall, At, StepsAlone
  <2>4. CASE JoinSelf(a)
    BY <1>c, <2>1, <2>2, <2>4, GotoEffect DEF JoinSelf, PcNames, Touching
  <2>5. CASE ExitBegin(a)
    <3>1. \E t : call' = [call EXCEPT ![a] = [Idle EXCEPT !.pc = "e_lock", !.t = t]]
      BY <2>5 DEF ExitBegin
    <3> QED
      BY <1>c, <2>1, <3>1 DEF StepsAlone, Idle
  <2> QED
    BY <2>3, <2>4, <2>5
<1>3. CASE UNCHANGED obj
  BY <1>1, <1>2, <1>3, StockKeeps DEF Reaping, Creating
<1>4. CASE \E t \in Threads : obj[t].st = "none" /\ obj' = [obj EXCEPT ![t] = NewThread(None, FALSE)]
  <2>1. PICK t \in Threads : obj[t].st = "none" /\ obj' = [obj EXCEPT ![t] = NewThread(None, FALSE)]
    BY <1>4
  <2>2. SlotInv'
    <3>1. \A b \in Actors : call'[b].pc \in Creating => call[b].pc \in Creating /\ Obj(b)' = Obj(b)
      BY <1>2 DEF StepsAlone, Creating, Obj
    <3>2. slotInUse' = slotInUse \cup ({None} \ {None})
      BY <1>1
    <3> QED
      BY <1>1, <2>1, <3>1, <3>2, NewSlots
  <2>3. ZombieInv'
    <3>1. NoReaping(a)
      BY <1>1, <1>2, <2>1, NewUnqueued DEF NoReaping, Reaping
    <3> QED
      BY <2>1, <3>1, SameOwners, NewUnqueued
  <2> QED
    BY <2>2, <2>3
<1> QED
  BY <1>1, <1>3, <1>4 DEF MaterializeMain

\* An object goes to the queue: whoever sets its flag is about to push it.
LEMMA QueueStock ==
  ASSUME TypeOK, LifeInv, SlotInv, ZombieInv, ~resetting, NEW a \in Actors,
         QueueFlag(a) \/ QueuePush(a)
  PROVE  SlotInv' /\ ZombieInv'
<1> USE DEF RestUnchanged, threads, registry, session, history
<1>c. call \in [Actors -> CallRec] /\ obj \in [Threads -> ObjRec]
  BY DEF TypeOK
<1>0. PICK t \in Threads : t = Obj(a)
  BY DEF QueueFlag, QueuePush, At, LifeInv, NamesInv, UsePlaces
<1>1. /\ call[a].pc \in {"q_flag", "q_push"} /\ call[a].batch = {} /\ call[a].keep = {}
      /\ UNCHANGED <<body, slotInUse>>
  BY DEF QueueFlag, QueuePush, At, ZombieInv, Reaping
<1>2. /\ StepsAlone(a) /\ call'[a].pc \in {"q_push", "u_sub"} /\ Obj(a)' = Obj(a)
      /\ call'[a].batch = {} /\ call'[a].keep = {}
  <2>1. PICK p \in {"q_push", "u_sub"} : Goto(a, p)
    BY DEF QueueFlag, QueuePush
  <2> QED
    BY <1>c, <1>1, <2>1, GotoEffect DEF PcNames, Touching, Obj
<1>3. \A b \in Actors : b # a => call'[b] = call[b] /\ Obj(b)' = Obj(b)
  BY <1>2 DEF StepsAlone, Obj
<1>4. \A b \in Actors :
        /\ call'[b].pc \notin Reaping => call'[b].batch = {} /\ call'[b].keep = {}
        /\ call'[b].pc = "r_back" => call'[b].batch = {}
  BY <1>2, <1>3 DEF ZombieInv
<1>5. CASE QueueFlag(a)
  <2>1. /\ call[a].pc = "q_flag" /\ zombies' = zombies
        /\ call'[a].pc = IF obj[t].zombieQueued THEN "u_sub" ELSE "q_push"
        /\ obj' = [obj EXCEPT ![t].zombieQueued = TRUE]
    BY <1>0, <1>5, <1>c, GotoEffect DEF QueueFlag, At, PcNames, Touching
  <2>2. \A u \in Threads : /\ obj'[u].st = obj[u].st /\ obj'[u].slot = obj[u].slot
                           /\ obj'[u].dead = obj[u].dead
                           /\ u # t => obj'[u].zombieQueued = obj[u].zombieQueued
    <3>1. obj'[t] = [obj[t] EXCEPT !.zombieQueued = TRUE] /\ \A u \in Threads \ {t} : obj'[u] = obj[u]
      BY <1>c, <2>1
    <3>2. obj[t] \in ObjRec
      BY <1>c
    <3>3. /\ obj'[t].st = obj[t].st /\ obj'[t].slot = obj[t].slot
          /\ obj'[t].dead = obj[t].dead
      BY <3>1, <3>2 DEF ObjRec
    <3> QED
      BY <3>1, <3>3
  <2>3. SlotInv'
    <3>1. SameStock
      BY <1>1, <1>2, <2>2 DEF SameStock, StepsAlone, Creating, Obj
    <3> QED
      BY <3>1, SameSlots
  <2>4. \A u \in Threads : Owned(u) => Owned(u)'
    BY <1>1, <1>2, <1>3, <2>1, <2>2 DEF Owned, AboutToPush
  <2>5. ~obj[t].zombieQueued => Owned(t)'
    BY <1>0, <1>2, <2>1 DEF Owned, AboutToPush
  <2>6. \A u \in Threads : obj'[u].zombieQueued /\ Allocated(u)' => Owned(u)'
    BY <2>2, <2>4, <2>5 DEF ZombieInv, Allocated
  <2> QED
    BY <1>4, <2>3, <2>6 DEF ZombieInv
<1>6. CASE QueuePush(a)
  <2>1. call[a].pc = "q_push" /\ zombies' = zombies \cup {t} /\ obj' = obj
    BY <1>0, <1>6 DEF QueuePush, At
  <2>2. SlotInv'
    <3>1. SameStock
      BY <1>1, <1>2, <1>3, <1>6, <2>1, <1>c, GotoEffect
      DEF SameStock, QueuePush, Creating, PcNames, Touching
    <3> QED
      BY <3>1, SameSlots
  <2>3. \A u \in Threads : Owned(u) => Owned(u)'
    BY <1>0, <1>1, <1>3, <2>1 DEF Owned, AboutToPush
  <2> QED
    BY <1>4, <2>1, <2>2, <2>3 DEF ZombieInv, Allocated
<1> QED
  BY <1>5, <1>6

\* A reaper takes the queue, keeps what it cannot claim and puts it back.
LEMMA ReapStock ==
  ASSUME TypeOK, LifeInv, SlotInv, ZombieInv, NEW a \in Actors,
         ReapSwap(a) \/ ReapVisit(a) \/ ReapBack(a)
  PROVE  SlotInv' /\ ZombieInv'
<1> USE DEF threads, registry, session, history
<1>c. call \in [Actors -> CallRec] /\ obj \in [Threads -> ObjRec]
  BY DEF TypeOK
<1>1. CASE ReapSwap(a)
  <2>1. /\ call[a].pc = "r_swap" /\ call[a].batch = {} /\ call[a].keep = {} /\ zombies' = {}
        /\ UNCHANGED <<obj, body, slotInUse>>
    BY <1>1 DEF ReapSwap, At, ZombieInv, Reaping
  <2>2. /\ StepsAlone(a) /\ call'[a].batch = zombies /\ call'[a].keep = {}
        /\ call'[a].pc = IF zombies = {} THEN "c_log" ELSE "r_visit"
    BY <1>1, <1>c, <2>1 DEF ReapSwap, StepsAlone, CallRec
  <2>3. \A b \in Actors : b # a => call'[b] = call[b] /\ Obj(b)' = Obj(b)
    BY <2>2 DEF StepsAlone, Obj
  <2>4. SlotInv'
    <3>1. SameStock
      BY <2>1, <2>2, <2>3 DEF SameStock, Creating
    <3> QED
      BY <3>1, SameSlots
  <2>5. \A u \in Threads : Owned(u) => Owned(u)'
    BY <2>1, <2>2, <2>3 DEF Owned, AboutToPush
  <2>6. \A b \in Actors :
          /\ call'[b].pc \notin Reaping => call'[b].batch = {} /\ call'[b].keep = {}
          /\ call'[b].pc = "r_back" => call'[b].batch = {}
    BY <2>2, <2>3 DEF ZombieInv, Reaping
  <2> QED
    BY <2>1, <2>4, <2>5, <2>6 DEF ZombieInv, Allocated
<1>2. CASE ReapVisit(a)
  <2>1. PICK t \in call[a].batch :
          IF Reapable(t)
          THEN /\ obj' = [obj EXCEPT ![t].dead = TRUE]
               /\ call' = [call EXCEPT ![a].batch = @ \ {t}, ![a].victim = t,
                                       ![a].pc = "r_delete"]
          ELSE /\ UNCHANGED obj
               /\ call' = [call EXCEPT
                             ![a].batch = @ \ {t}, ![a].keep = @ \cup {t},
                             ![a].pc = IF call[a].batch = {t} THEN "r_back"
                                                              ELSE "r_visit"]
    BY <1>2 DEF ReapVisit
  <2>2. t \in Threads /\ call[a].pc = "r_visit" /\ UNCHANGED <<body, zombies, slotInUse>>
    BY <1>c, <1>2, <2>1 DEF ReapVisit, At, CallRec
  <2>3. \A u \in Threads :
           /\ obj'[u].st = obj[u].st /\ obj'[u].slot = obj[u].slot
           /\ obj'[u].zombieQueued = obj[u].zombieQueued
           /\ obj[u].dead => obj'[u].dead
    BY <1>c, <2>1, SetStock
  <2>4. /\ StepsAlone(a) /\ call'[a].batch = call[a].batch \ {t}
        /\ \/ call'[a].pc = "r_delete" /\ call'[a].keep = call[a].keep /\ obj'[t].dead
           \/ /\ call'[a].pc = IF call[a].batch = {t} THEN "r_back" ELSE "r_visit"
              /\ call'[a].keep = call[a].keep \cup {t}
    <3>1. CASE Reapable(t)
      <4>1. StepsAlone(a) /\ call'[a] = [call[a] EXCEPT !.batch = @ \ {t}, !.victim = t, !.pc = "r_delete"]
        BY <1>c, <2>1, <3>1 DEF StepsAlone
      <4>2. call'[a].batch = call[a].batch \ {t} /\ call'[a].pc = "r_delete" /\ call'[a].keep = call[a].keep
        BY <1>c, <4>1 DEF CallRec
      <4>3. obj'[t].dead
        <5>1. obj'[t] = [obj[t] EXCEPT !.dead = TRUE] /\ obj[t] \in ObjRec
          BY <1>c, <2>1, <2>2, <3>1
        <5> QED
          BY <5>1 DEF ObjRec
      <4> QED
        BY <4>1, <4>2, <4>3
    <3>2. CASE ~Reapable(t)
      <4>1. StepsAlone(a) /\ call'[a] = [call[a] EXCEPT !.batch = @ \ {t}, !.keep = @ \cup {t},
                              !.pc = IF call[a].batch = {t} THEN "r_back" ELSE "r_visit"]
        BY <1>c, <2>1, <3>2 DEF StepsAlone
      <4> QED
        BY <1>c, <4>1 DEF CallRec
    <3> QED
      BY <3>1, <3>2
  <2>5. \A b \in Actors : b # a => call'[b] = call[b] /\ Obj(b)' = Obj(b)
    BY <2>4 DEF StepsAlone, Obj
  <2>6. SlotInv'
    <3>1. SameStock
      BY <2>2, <2>3, <2>4, <2>5 DEF SameStock, Creating
    <3> QED
      BY <3>1, SameSlots
  <2>7. \A u \in Threads : Owned(u) => Owned(u)'
    BY <2>2, <2>3, <2>4, <2>5 DEF Owned, AboutToPush
  <2>8. \A b \in Actors :
          /\ call'[b].pc \notin Reaping => call'[b].batch = {} /\ call'[b].keep = {}
          /\ call'[b].pc = "r_back" => call'[b].batch = {}
    BY <2>4, <2>5 DEF ZombieInv, Reaping
  <2> QED
    BY <2>3, <2>6, <2>7, <2>8 DEF ZombieInv, Allocated
<1>3. CASE ReapBack(a)
  <2>1. /\ call[a].pc = "r_back" /\ call[a].batch = {} /\ zombies' = zombies \cup call[a].keep
        /\ UNCHANGED <<obj, body, slotInUse>>
    BY <1>3 DEF ReapBack, At, ZombieInv
  <2>2. /\ StepsAlone(a) /\ call'[a].batch = {} /\ call'[a].keep = {} /\ call'[a].pc = "c_log"
    BY <1>3, <1>c, <2>1 DEF ReapBack, StepsAlone, CallRec
  <2>3. \A b \in Actors : b # a => call'[b] = call[b] /\ Obj(b)' = Obj(b)
    BY <2>2 DEF StepsAlone, Obj
  <2>4. SlotInv'
    <3>1. SameStock
      BY <2>1, <2>2, <2>3 DEF SameStock, Creating
    <3> QED
      BY <3>1, SameSlots
  <2>5. \A u \in Threads : Owned(u) => Owned(u)'
    BY <2>1, <2>2, <2>3 DEF Owned, AboutToPush
  <2>6. \A b \in Actors :
          /\ call'[b].pc \notin Reaping => call'[b].batch = {} /\ call'[b].keep = {}
          /\ call'[b].pc = "r_back" => call'[b].batch = {}
    BY <2>2, <2>3 DEF ZombieInv
  <2> QED
    BY <2>1, <2>4, <2>5, <2>6 DEF ZombieInv, Allocated
<1> QED
  BY <1>1, <1>2, <1>3

\* The host thread of an object hands it to the reaper and goes.
LEMMA BodyStock ==
  ASSUME TypeOK, LifeInv, SlotInv, ZombieInv, ~resetting, NEW t \in Threads,
         BodyReturn(t) \/ BodyEnd(t)
  PROVE  SlotInv' /\ ZombieInv'
<1> USE DEF registry, session, history
<1>c. /\ obj \in [Threads -> ObjRec]
      /\ body \in [Threads -> {"none", "guest", "flag", "push", "last", "done"}]
  BY DEF TypeOK
<1>1. /\ body[t] # "none" /\ UNCHANGED <<call, slotInUse>>
      /\ \A u \in Threads \ {t} : body'[u] = body[u]
  BY <1>c DEF BodyReturn, BodyEnd, BodyFlag, BodyPush, BodyLast, BodyAt
<1>2. \/ obj' = obj \/ obj' = [obj EXCEPT ![t].exited = TRUE]
      \/ obj' = [obj EXCEPT ![t].zombieQueued = TRUE]
  BY DEF BodyReturn, BodyEnd, BodyFlag, BodyPush, BodyLast
<1>3. \A u \in Threads : /\ obj'[u].st = obj[u].st /\ obj'[u].slot = obj[u].slot
                         /\ obj'[u].dead = obj[u].dead
                         /\ u # t => obj'[u].zombieQueued = obj[u].zombieQueued
  <2>1. /\ \A u \in Threads \ {t} : obj'[u] = obj[u]
        /\ \/ obj'[t] = obj[t] \/ obj'[t] = [obj[t] EXCEPT !.exited = TRUE]
           \/ obj'[t] = [obj[t] EXCEPT !.zombieQueued = TRUE]
    BY <1>c, <1>2
  <2>2. obj[t] \in ObjRec
    BY <1>c
  <2>3. /\ obj'[t].st = obj[t].st /\ obj'[t].slot = obj[t].slot
        /\ obj'[t].dead = obj[t].dead
    BY <2>1, <2>2 DEF ObjRec
  <2> QED
    BY <2>1, <2>3
<1>4. SlotInv'
  <2>1. SameStock
    BY <1>1, <1>3 DEF SameStock, Obj
  <2> QED
    BY <2>1, SameSlots
<1>5. \A u \in Threads : obj'[u].zombieQueued /\ Allocated(u)' => Owned(u)'
  <2>1. CASE BodyReturn(t) \/ BodyLast(t)
    <3>1. /\ body[t] # "push" /\ zombies' = zombies
          /\ obj' = obj \/ obj' = [obj EXCEPT ![t].exited = TRUE]
      BY <2>1 DEF BodyReturn, BodyLast, BodyAt
    <3>2. obj'[t].zombieQueued = obj[t].zombieQueued
      <4>1. obj[t] \in ObjRec /\ (obj'[t] = obj[t] \/ obj'[t] = [obj[t] EXCEPT !.exited = TRUE])
        BY <1>c, <3>1
      <4> QED
        BY <4>1 DEF ObjRec
    <3>3. \A u \in Threads : Owned(u) => Owned(u)'
      BY <1>1, <1>3, <3>1 DEF Owned, AboutToPush, Obj
    <3> QED
      BY <1>3, <3>2, <3>3 DEF ZombieInv, Allocated
  <2>2. CASE BodyFlag(t)
    <3>1. body[t] = "flag" /\ zombies' = zombies /\ (~obj[t].zombieQueued => body'[t] = "push")
      BY <1>c, <2>2 DEF BodyFlag, BodyAt
    <3>2. \A u \in Threads : Owned(u) => Owned(u)'
      BY <1>1, <1>3, <3>1 DEF Owned, AboutToPush, Obj
    <3>3. ~obj[t].zombieQueued => Owned(t)'
      BY <3>1 DEF Owned, AboutToPush
    <3> QED
      BY <1>3, <3>2, <3>3 DEF ZombieInv, Allocated
  <2>3. CASE BodyPush(t)
    <3>1. obj' = obj /\ zombies' = zombies \cup {t}
      BY <2>3 DEF BodyPush
    <3>2. \A u \in Threads : Owned(u) => Owned(u)'
      BY <1>1, <3>1 DEF Owned, AboutToPush, Obj
    <3> QED
      BY <3>1, <3>2 DEF ZombieInv, Allocated
  <2> QED
    BY <2>1, <2>2, <2>3 DEF BodyEnd
<1> QED
  BY <1>1, <1>4, <1>5 DEF ZombieInv

\* At the start there is nothing to account for.
LEMMA StockInit == Init => StockInv
<1> SUFFICES ASSUME Init PROVE StockInv
  OBVIOUS
<1>1. NoTeardown
  BY DEF Init, NoTeardown
<1>2. \A t \in Threads : obj[t].st = "none" /\ body[t] = "none" /\ ~obj[t].zombieQueued
  BY DEF Init, Unallocated
<1>3. \A a \in Actors : call[a].pc = "idle" /\ call[a].batch = {} /\ call[a].keep = {}
  BY DEF Init, Idle
<1>4. SlotInv
  <2>1. {u \in Threads : Allocated(u)} = {} /\ slotInUse = {}
    BY <1>2 DEF Allocated, Init
  <2>2. SlotsAccounted
    BY <2>1 DEF SlotsAccounted
  <2> QED
    BY <1>3, <2>1, <2>2 DEF SlotInv, Creating
<1>5. ZombieInv
  BY <1>2, <1>3 DEF ZombieInv
<1> QED
  BY <1>1, <1>4, <1>5 DEF StockInv

\* Steps that are not about objects, queues or slots.
LEMMA StockStill ==
  ASSUME TypeOK, LifeInv, SlotInv, ZombieInv, UNCHANGED <<obj, call, body, zombies, slotInUse>>
  PROVE  SlotInv' /\ ZombieInv'
<1>1. SlotInv'
  <2>1. SameStock
    BY DEF SameStock, Obj
  <2> QED
    BY <2>1, SameSlots
<1>2. \A u \in Threads : Owned(u)' <=> Owned(u)
  BY DEF Owned, AboutToPush, Obj
<1>3. ZombieInv'
  BY <1>2 DEF ZombieInv, Allocated
<1> QED
  BY <1>1, <1>3

\* A teardown is a call of Main: without it none is ever under way.
LEMMA NoTeardownStep ==
  ASSUME "reset" \notin MainOps, NoTeardown, [Next]_vars
  PROVE  NoTeardown'
<1> USE DEF RestUnchanged, session
<1>1. UNCHANGED <<reset, resetting>>
  <2>1. ASSUME NEW a \in Actors, Begin(a)
        PROVE  UNCHANGED <<reset, resetting>>
    BY <2>1 DEF Begin, SelfCall, CreateBegin, CreateCheck, JoinBegin, DetachBegin,
      AttrGetBegin, UseBegin, ExitBegin
  <2>2. ASSUME NEW a \in Actors, Continue(a)
        PROVE  UNCHANGED <<reset, resetting>>
    <3>1. CASE UseEnd(a)
      BY <3>1 DEF UseEnd, UseSub, UseZombie, UseDone, UseLive, UseDead, UseDelete, Unlock
    <3>2. CASE CreateContinue(a)
      BY <3>2 DEF CreateContinue, CreateSlot, CreateInsert, CreateTcb, CreateUndo,
        CreateFree, CreateStart, CreateAssign, CreateLog
    <3>3. CASE Reap(a)
      BY <3>3 DEF Reap, ReapSwap, ReapVisit, ReapDelete, ReapBack
    <3>4. CASE JoinContinue(a)
      BY <3>4 DEF JoinContinue, JoinSelf, JoinLock, JoinWake, JoinHost, JoinHostWait,
        JoinErase, JoinLog
    <3>5. CASE DetachContinue(a) \/ AttrGetLock(a) \/ ExitLock(a)
      BY <3>5 DEF DetachContinue, DetachLock, QueueFlag, QueuePush, AttrGetLock, ExitLock
    <3> QED
      BY <2>2, <3>1, <3>2, <3>3, <3>4, <3>5 DEF Continue
  <2>3. ASSUME NEW t \in Threads, BodyReturn(t) \/ BodyEnd(t)
        PROVE  UNCHANGED <<reset, resetting>>
    BY <2>3 DEF BodyReturn, BodyEnd, BodyFlag, BodyPush, BodyLast
  <2>4. ~ResetBegin /\ ~ResetContinue
    BY DEF ResetBegin, ResetContinue, CanCall, NoTeardown, ResetZombies, ResetLive,
      ResetWake, ResetGrace, ResetReclaim, ResetClear, ResetRelease, ResetAt
  <2>5. CASE UseAfterFree \/ SlotRace \/ UNCHANGED vars
    BY <2>5 DEF UseAfterFree, SlotRace, vars
  <2> QED
    BY <2>1, <2>2, <2>3, <2>4, <2>5 DEF Next
<1> QED
  BY <1>1 DEF NoTeardown

\* Without a teardown every step keeps the stock.
LEMMA StockStep ==
  ASSUME "reset" \notin MainOps, IInv, StockInv, [Next]_vars
  PROVE  StockInv'
<1> USE DEF IInv, StockInv
<1>1. NoTeardown'
  BY NoTeardownStep
<1>2. ASSUME NEW a \in Actors, Begin(a)
      PROVE  SlotInv' /\ ZombieInv'
  <2>1. CASE JoinBegin(a) \/ DetachBegin(a) \/ AttrGetBegin(a)
    <3>1. /\ At(a, "idle")
          /\ \E t \in Known(a), p \in {"j_self", "d_lock", "g_lock"} :
               \E mode : UseBegin(a, t, p, mode)
      BY <2>1 DEF JoinBegin, DetachBegin, AttrGetBegin, CanCall
    <3>2. Known(a) \subseteq Threads
      BY DEF Known, TypeOK
    <3> QED
      BY <3>1, <3>2, StockBegins
  <2>2. CASE CreateBegin(a)
    BY <2>2, StockBegins DEF CreateBegin, OpNames
  <2>3. CASE SelfCall(a) \/ ExitBegin(a)
    BY <2>3, SelfStock
  <2> QED
    BY <1>2, <2>1, <2>2, <2>3 DEF Begin
<1>3. ASSUME NEW a \in Actors, Continue(a)
      PROVE  SlotInv' /\ ZombieInv'
  <2>1. CASE UseEnd(a)
    BY <2>1, StockSteps, FreeSteps DEF UseEnd
  <2>2. CASE CreateContinue(a)
    BY <2>2, StockSteps, FreeSteps, SlotStock, StartStock DEF CreateContinue
  <2>3. CASE Reap(a)
    BY <2>3, ReapStock, FreeSteps DEF Reap
  <2>4. CASE JoinContinue(a)
    BY <2>4, StockSteps, SelfStock DEF JoinContinue
  <2>5. CASE DetachContinue(a) \/ AttrGetLock(a) \/ ExitLock(a)
    BY <2>5, StockSteps, QueueStock DEF DetachContinue, NoTeardown
  <2> QED
    BY <1>3, <2>1, <2>2, <2>3, <2>4, <2>5 DEF Continue
<1>4. ASSUME NEW t \in Threads, BodyReturn(t) \/ BodyEnd(t)
      PROVE  SlotInv' /\ ZombieInv'
  BY <1>4, BodyStock DEF NoTeardown
<1>5. ~ResetBegin /\ ~ResetContinue
  BY DEF ResetBegin, ResetContinue, CanCall, NoTeardown, ResetZombies, ResetLive,
    ResetWake, ResetGrace, ResetReclaim, ResetClear, ResetRelease, ResetAt
<1>6. CASE UseAfterFree \/ SlotRace \/ UNCHANGED vars
  <2>1. UNCHANGED <<obj, call, body, zombies, slotInUse>>
    BY <1>6 DEF UseAfterFree, SlotRace, vars, threads, registry
  <2>2. TypeOK /\ LifeInv /\ SlotInv /\ ZombieInv
    OBVIOUS
  <2> QED
    BY <1>1, <2>1, <2>2, StockStill
<1> QED
  BY <1>1, <1>2, <1>3, <1>4, <1>5, <1>6 DEF Next

\* What the invariants say of slots and of the reaper's queue.
LEMMA StockAccounted == IInv /\ StockInv => ResourcesAccounted
<1> SUFFICES ASSUME IInv, StockInv PROVE ResourcesAccounted
  OBVIOUS
<1>1. SlotExclusive
  <2>1. \A t \in Threads : body[t] \notin {"none", "done"} => Allocated(t) /\ obj[t].slot # None
    <3>1. ASSUME NEW t \in Threads, body[t] \notin {"none", "done"}
          PROVE  Allocated(t)
      <4>1. obj[t].st # "none"
        BY <3>1 DEF IInv, LifeInv, FreshInv, Fresh
      <4>2. obj[t].st # "freed"
        BY <3>1 DEF IInv, LifeInv, NoDeleteUnderRunningBody, Freed
      <4>3. obj[t].st \in {"none", "alloc", "freed"}
        BY DEF IInv, TypeOK, ObjRec
      <4> QED
        BY <4>1, <4>2, <4>3 DEF Allocated
    <3> QED
      BY <3>1 DEF StockInv, SlotInv
  <2> QED
    BY <2>1 DEF SlotExclusive, StockInv, SlotInv
<1>2. ZombiesOwned
  BY DEF ZombiesOwned, StockInv, ZombieInv, Owned, InReap
<1> QED
  BY <1>1, <1>2 DEF ResourcesAccounted, IInv, StockInv, SlotInv

\* Nothing is lost while there is no teardown: the slot table lists the slots
\* of the objects that exist, two running threads never share a stack, and an
\* object whose thread has ended detached is queued, in the hands of a reaper
\* or claimed, whichever Create fails half way and whoever reaps.  There is
\* an assumption on the calls: ResetForSession declares every slot free, those
\* of bodies that go on running too.
THEOREM NothingIsLost ==
  ASSUME "reset" \notin MainOps
  PROVE  Spec => []ResourcesAccounted
<1>1. Init => IInv /\ StockInv
  BY IInvInit, StockInit
<1>2. IInv /\ StockInv /\ [Next]_vars => IInv' /\ StockInv'
  BY IInvStep, StockStep
<1>3. IInv /\ StockInv => ResourcesAccounted
  BY StockAccounted
<1> QED
  BY <1>1, <1>2, <1>3, PTL DEF Spec

-----------------------------------------------------------------------------
(* Undefined behaviour, over any number of sessions.  With two callers, or  *)
(* with detached threads, the code does touch deleted objects; what is      *)
(* proved here is that a program whose main thread makes the calls, and     *)
(* whose other threads only run and exit, never makes it do so.             *)

\* The main thread makes all calls, none of which detaches; a created thread
\* only exits and asks for its own handle.
OneCaller ==
  /\ MainOps \cap {"createDetached", "detach"} = {}
  /\ BodyOps \subseteq {"exit", "self"}

\* The places Main gets to: nothing is ever queued for the reaper.
MainPlaces ==
  {"idle", "u_sub", "u_zombie", "u_done", "u_live", "u_dead", "u_delete", "unlock",
   "c_slot", "c_insert", "c_tcb", "c_undo", "c_free", "c_start", "c_assign", "r_swap", "c_log",
   "j_self", "j_lock", "j_wait", "j_host", "j_hostwait", "j_erase", "j_log", "g_lock", "e_lock"}

Mine == call[Main].t

MainAt(S) == call[Main].pc \in S

\* The other threads are in guest code, about to exit, or gone.
BodiesInv ==
  \A t \in Threads :
    /\ call[t].pc \in {"idle", "e_lock"}
    /\ call[t].pc = "e_lock" => call[t].t = t /\ body[t] = "guest"
    /\ body[t] \notin {"flag", "push"}

\* Nobody detaches, so that the reaper has nothing to do.
ReaperInv ==
  /\ zombies = {}
  /\ \A a \in Actors : call[a].batch = {} /\ call[a].victim = None
  /\ \A t \in Threads : ~obj[t].zombieQueued /\ ~obj[t].detached

CallerInv ==
  /\ MainAt(MainPlaces) /\ call[Main].mode # "createDetached"
  /\ reset.phase # "idle" => MainAt({"idle"})

\* The places where Main's object is registered.
Registered == {"c_tcb", "c_undo", "c_start", "c_assign", "r_swap", "c_log", "j_self", "j_lock",
               "j_wait", "j_host", "j_hostwait", "j_erase", "g_lock", "e_lock", "unlock"}

\* The places where it may be Main's alone.
Private == {"c_insert", "c_free", "j_log", "u_sub", "u_zombie", "u_done", "u_live", "u_dead", "u_delete"}

\* What Main knows of the object its call is about.
MineInv ==
  /\ MainAt(Touching \cup {"u_live"}) => Allocated(Mine)
  /\ MainAt(Registered) => Mine \in live
  /\ MainAt(Private \ {"c_insert", "c_free"}) /\ Mine \notin live =>
       BodyDone(Mine) /\ obj[Mine].m # Main
  /\ MainAt({"j_host", "j_hostwait", "j_erase"}) => obj[Mine].m # Main
  /\ MainAt({"j_lock", "j_wait", "j_host", "j_hostwait"}) => Mine # mainThread
  /\ MainAt({"j_erase", "j_log"}) => BodyDone(Mine)

\* Who has an object that exists.
KeptInv ==
  /\ \A t \in Threads : Allocated(t) =>
       \/ t \in live \cup leaked
       \/ MainAt(Private) /\ t = Mine
       \/ reset.phase \in {"wake", "grace"} /\ <<t, "live">> \in reset.coll
       \/ reset.phase = "reclaim" /\ <<t, "live">> \in reset.todo
  /\ \A t \in Threads : Allocated(t) /\ obj[t].dead => MainAt({"u_delete"}) /\ t = Mine

\* A registered thread has a host thread to be joined, or has ended.
HostInv ==
  /\ \A t \in live :
       \/ t = mainThread
       \/ MainAt({"c_tcb", "c_undo", "c_start", "c_assign"}) /\ t = Mine
       \/ host[t] = "joinable" \/ BodyDone(t)
  /\ mainThread # None => reset.phase # "idle" \/ mainThread \in live

\* What a teardown has collected is its own.
SweepInv ==
  /\ reset.coll \cup reset.todo \subseteq Threads \X {"live"}
  /\ reset.phase \in {"wake", "grace", "reclaim"} => \A e \in reset.todo : Allocated(e[1])
  /\ reset.phase \in {"live", "wake", "grace"} => \A e \in reset.coll : Allocated(e[1])
  /\ reset.phase \in {"wake", "grace", "reclaim", "release"} => live = {}

SessionInv ==
  /\ NoUndefinedBehaviour /\ BodiesInv /\ ReaperInv /\ CallerInv /\ MineInv /\ KeptInv /\ HostInv
  /\ SweepInv


\* What most steps of a call leave alone.
StillRest == UNCHANGED <<body, host, live, leaked, zombies, mainThread, reset, fault>>

\* No object is made, freed, claimed, queued or detached.
KeepsMarks ==
  \A u \in Threads :
    /\ obj'[u].st = obj[u].st /\ obj'[u].dead = obj[u].dead
    /\ obj'[u].zombieQueued = obj[u].zombieQueued /\ obj'[u].detached = obj[u].detached

\* Main goes to p, with nothing to reap.
Moved(p) ==
  /\ StepsAlone(Main)
  /\ call'[Main].pc = p /\ call'[Main].mode # "createDetached"
  /\ call'[Main].batch = {} /\ call'[Main].victim = None

\* Main goes on with the object its call is about.
MovedOn(p) == Moved(p) /\ Mine' = Mine

\* The part of Create in which the host thread has yet to be stored.
Unassigned == {"c_tcb", "c_undo", "c_start", "c_assign"}

\* The other fields of an object say nothing about its life.
LEMMA SetMarks ==
  ASSUME obj \in [Threads -> ObjRec], NEW t \in Threads, NEW x,
         \/ obj' = obj
         \/ obj' = [obj EXCEPT ![t].uses = @ + 1]
         \/ obj' = [obj EXCEPT ![t].uses = @ - 1]
         \/ obj' = [obj EXCEPT ![t].m = x]
         \/ obj' = [obj EXCEPT ![t].joined = TRUE, ![t].m = x]
         \/ obj' = [obj EXCEPT ![t].exited = TRUE]
         \/ obj' = [obj EXCEPT ![t].sessionDead = TRUE]
  PROVE  KeepsMarks
<1> SUFFICES ASSUME NEW u \in Threads
             PROVE  /\ obj'[u].st = obj[u].st /\ obj'[u].dead = obj[u].dead
                    /\ obj'[u].zombieQueued = obj[u].zombieQueued
                    /\ obj'[u].detached = obj[u].detached
  BY DEF KeepsMarks
<1>1. CASE u # t
  BY <1>1
<1>2. CASE u = t
  <2> DEFINE r == obj[u]
  <2> DEFINE q == obj'[u]
  <2>1. r \in ObjRec
    OBVIOUS
  <2>2. \/ q = r
        \/ q = [r EXCEPT !.uses = @ + 1]
        \/ q = [r EXCEPT !.uses = @ - 1]
        \/ q = [r EXCEPT !.m = x]
        \/ q = [r EXCEPT !.joined = TRUE, !.m = x]
        \/ q = [r EXCEPT !.exited = TRUE]
        \/ q = [r EXCEPT !.sessionDead = TRUE]
    BY <1>2
  <2> HIDE DEF r, q
  <2>3. q.st = r.st /\ q.dead = r.dead /\ q.zombieQueued = r.zombieQueued /\ q.detached = r.detached
    BY <2>1, <2>2 DEF ObjRec
  <2> QED
    BY <2>3 DEF r, q
<1> QED
  BY <1>1, <1>2

\* Who holds an object's mutex after such a step.
LEMMA SetMutex ==
  ASSUME obj \in [Threads -> ObjRec], NEW t \in Threads, NEW x
  PROVE  /\ \/ obj' = obj
            \/ obj' = [obj EXCEPT ![t].uses = @ + 1]
            \/ obj' = [obj EXCEPT ![t].uses = @ - 1]
            \/ obj' = [obj EXCEPT ![t].dead = TRUE]
            \/ obj' = [obj EXCEPT ![t].exited = TRUE]
            \/ obj' = [obj EXCEPT ![t].sessionDead = TRUE]
            => \A u \in Threads : obj'[u].m = obj[u].m
         /\ \/ obj' = [obj EXCEPT ![t].m = x]
            \/ obj' = [obj EXCEPT ![t].joined = TRUE, ![t].m = x]
            => obj'[t].m = x
<1> DEFINE r == obj[t]
<1>1. r \in ObjRec
  OBVIOUS
<1>2. ASSUME \/ obj' = obj
             \/ obj' = [obj EXCEPT ![t].uses = @ + 1]
             \/ obj' = [obj EXCEPT ![t].uses = @ - 1]
             \/ obj' = [obj EXCEPT ![t].dead = TRUE]
             \/ obj' = [obj EXCEPT ![t].exited = TRUE]
             \/ obj' = [obj EXCEPT ![t].sessionDead = TRUE]
      PROVE  \A u \in Threads : obj'[u].m = obj[u].m
  <2>1. obj'[t].m = r.m
    <3> DEFINE q == obj'[t]
    <3>1. \/ q = r
          \/ q = [r EXCEPT !.uses = @ + 1]
          \/ q = [r EXCEPT !.uses = @ - 1]
          \/ q = [r EXCEPT !.dead = TRUE]
          \/ q = [r EXCEPT !.exited = TRUE]
          \/ q = [r EXCEPT !.sessionDead = TRUE]
      BY <1>2
    <3> HIDE DEF r, q
    <3>2. q.m = r.m
      BY <1>1, <3>1 DEF ObjRec
    <3> QED
      BY <3>2 DEF q
  <2>2. \A u \in Threads \ {t} : obj'[u] = obj[u]
    BY <1>2
  <2> QED
    BY <2>1, <2>2
<1>3. ASSUME \/ obj' = [obj EXCEPT ![t].m = x]
             \/ obj' = [obj EXCEPT ![t].joined = TRUE, ![t].m = x]
      PROVE  obj'[t].m = x
  <2> DEFINE q == obj'[t]
  <2>1. \/ q = [r EXCEPT !.m = x]
        \/ q = [r EXCEPT !.joined = TRUE, !.m = x]
    BY <1>3
  <2> HIDE DEF r, q
  <2>2. q.m = x
    BY <1>1, <2>1 DEF ObjRec
  <2> QED
    BY <2>2 DEF q
<1> QED
  BY <1>2, <1>3

\* A step of Main that changes neither the registry nor anybody's life keeps
\* the invariant when Main knows enough of its object where it gets to.
LEMMA MoveKeeps ==
  ASSUME TypeOK, SessionInv, NEW p \in MainPlaces, Moved(p), StillRest, KeepsMarks,
         reset.phase = "idle", ~MainAt({"u_delete"}),
         MainAt(Private) /\ Mine \notin live => p \in Private /\ Mine' = Mine,
         MainAt(Unassigned) => p \in Unassigned /\ Mine' = Mine,
         MineInv'
  PROVE  SessionInv'
<1> USE DEF SessionInv
<1>m. Main \notin Threads /\ \A t \in Threads : call'[t] = call[t]
  BY ConstantsOK DEF Moved, StepsAlone, Actors
<1>1. NoUndefinedBehaviour'
  BY DEF NoUndefinedBehaviour, StillRest
<1>2. BodiesInv'
  BY <1>m DEF BodiesInv, StillRest
<1>3. ReaperInv'
  BY <1>m DEF ReaperInv, StillRest, KeepsMarks, Moved, Actors
<1>4. CallerInv'
  BY DEF CallerInv, Moved, MainAt, StillRest
<1>5. KeptInv'
  <2>1. \A t \in Threads : (Allocated(t)' <=> Allocated(t)) /\ (obj'[t].dead <=> obj[t].dead)
    BY DEF KeepsMarks, Allocated
  <2>2. ASSUME NEW t \in Threads, Allocated(t)
        PROVE  t \in live \cup leaked \/ (MainAt(Private)' /\ t = Mine')
    <3>1. t \in live \cup leaked \/ (MainAt(Private) /\ t = Mine)
      BY <2>2 DEF KeptInv
    <3>2. p \in Private /\ Mine' = Mine => MainAt(Private)' /\ Mine' = Mine
      BY DEF MainAt, Moved
    <3> QED
      BY <3>1, <3>2
  <2>3. \A t \in Threads : ~(Allocated(t) /\ obj[t].dead)
    BY DEF KeptInv
  <2> QED
    BY <2>1, <2>2, <2>3 DEF KeptInv, StillRest
<1>6. HostInv'
  BY DEF HostInv, StillRest, Moved, MainAt, Unassigned, BodyDone
<1>7. SweepInv'
  BY DEF SweepInv, StillRest, KeepsMarks, Allocated
<1> QED
  BY <1>1, <1>2, <1>3, <1>4, <1>5, <1>6, <1>7

\* The places of a call of Main, one assignment at a time.
LEMMA MainGoes ==
  ASSUME TypeOK, SessionInv
  PROVE  /\ \A p \in PcNames : Goto(Main, p) => MovedOn(p)
         /\ Return(Main) => Moved("idle")
         /\ Leave(Main) => IF obj[Mine].m = Main THEN MovedOn("unlock") ELSE Moved("idle")
<1>c. call \in [Actors -> CallRec] /\ Main \in Actors /\ Idle.mode = "none" /\ Idle.victim = None
  BY DEF TypeOK, Actors, Idle
<1>0. call[Main].batch = {} /\ call[Main].victim = None /\ call[Main].mode # "createDetached"
  BY <1>c DEF SessionInv, ReaperInv, CallerInv
<1>1. ASSUME NEW p \in PcNames, Goto(Main, p) PROVE MovedOn(p)
  <2>1. call'[Main].mode = call[Main].mode
    BY <1>c, <1>1 DEF Goto, CallRec
  <2> QED
    BY <1>c, <1>0, <1>1, <2>1, GotoEffect DEF MovedOn, Moved, Mine
<1>2. ASSUME Return(Main) PROVE Moved("idle")
  <2>1. call'[Main] = Idle
    BY <1>c, <1>2 DEF Return
  <2> QED
    BY <1>c, <1>2, <2>1, ReturnEffect DEF Moved
<1>3. "unlock" \in PcNames
  BY DEF PcNames, Touching
<1> QED
  BY <1>1, <1>2, <1>3 DEF Leave, Mine, Obj

\* Main goes on with a registered object, or leaves it.
LEMMA LiveKeeps ==
  ASSUME IInv, SessionInv, NEW p \in {"idle", "unlock", "u_sub", "j_wait", "c_log", "c_undo", "c_start"},
         Moved(p), p # "idle" => Mine' = Mine, StillRest, KeepsMarks,
         reset.phase = "idle", Mine \in live,
         MainAt(Unassigned) => p \in Unassigned,
         p = "j_wait" => Mine # mainThread
  PROVE  SessionInv'
<1>1. p \in MainPlaces /\ p \notin {"j_host", "j_hostwait", "j_erase", "j_lock", "j_log"}
  BY DEF MainPlaces
<1>2. Mine \in Threads /\ Allocated(Mine) /\ TypeOK
  BY DEF IInv, LifeInv, LiveHandlesAreAllocated, TypeOK
<1>3. ~MainAt({"u_delete"})
  BY DEF IInv, LifeInv, CondemnedInv, MainAt, Mine, Obj, Actors
<1>4. MineInv'
  <2>1. CASE p = "idle"
    BY <2>1 DEF MineInv, Moved, MainAt, Touching, Registered, Private
  <2>2. CASE p # "idle"
    BY <1>1, <1>2, <2>2 DEF MineInv, Moved, MainAt, StillRest, KeepsMarks, Allocated, Private
  <2> QED
    BY <2>1, <2>2
<1>5. MainAt(Unassigned) => p \in Unassigned /\ Mine' = Mine
  BY DEF Unassigned
<1> QED
  BY <1>1, <1>2, <1>3, <1>4, <1>5, MoveKeeps

\* The steps of Main's calls that change no list of objects.
LEMMA QuietSession ==
  ASSUME IInv, SessionInv, MainAt(PcNames \ {"idle"})
  PROVE  \/ UseSub(Main) \/ UseZombie(Main) \/ UseDone(Main) \/ UseLive(Main) \/ Unlock(Main)
         \/ CreateTcb(Main) \/ CreateLog(Main) \/ ReapSwap(Main)
         \/ JoinLock(Main) \/ JoinWake(Main) \/ JoinHost(Main) \/ JoinLog(Main)
         \/ AttrGetLock(Main) \/ ExitLock(Main)
         => SessionInv'
<1> USE DEF IInv, RestUnchanged, threads, registry, session, history
<1>t. TypeOK /\ obj \in [Threads -> ObjRec] /\ Main \in Actors
  BY DEF TypeOK, Actors
<1>i. reset.phase = "idle" /\ MineInv /\ ReaperInv /\ HostInv /\ KeptInv /\ BodiesInv
  BY DEF SessionInv, CallerInv, MainAt
<1>p. {"idle", "unlock", "u_zombie", "u_done", "u_live", "u_dead", "c_undo", "c_start", "c_log",
       "j_wait", "j_host", "j_hostwait", "j_erase", "u_sub"} \subseteq PcNames \cap MainPlaces
  BY DEF PcNames, Touching, MainPlaces
<1>1. ASSUME UseSub(Main) PROVE SessionInv'
  <2>1. MainAt({"u_sub"}) /\ Mine \in Threads /\ Allocated(Mine)
    BY <1>1, <1>t DEF UseSub, At, MainAt, Mine, Obj, LifeInv, NamesInv, UsePlaces
  <2>2. Users(Mine) = {Main}
    BY <2>1, <1>i DEF Users, BodiesInv, UsePlaces, MainAt, Mine, Obj, Actors
  <2>3. obj[Mine].uses = 1
    BY <2>1, <2>2, FS_Singleton DEF UsesCounted
  <2>4. MovedOn("u_zombie")
    BY <1>1, <1>t, <1>p, <2>3, MainGoes DEF UseSub, Mine, Obj
  <2>5. KeepsMarks /\ StillRest /\ obj'[Mine].m = obj[Mine].m
    BY <1>1, <1>t, <2>1, SetMarks, SetMutex DEF UseSub, StillRest, Mine, Obj
  <2>6. MineInv'
    BY <1>i, <2>1, <2>4, <2>5 DEF MineInv, MovedOn, Moved, MainAt, Registered, Private, KeepsMarks,
      StillRest, Allocated, BodyDone
  <2> QED
    BY <1>t, <1>i, <1>p, <2>1, <2>4, <2>5, <2>6, MoveKeeps DEF MovedOn, MainAt, Private, Unassigned
<1>2. ASSUME UseZombie(Main) PROVE SessionInv'
  <2>1. MainAt({"u_zombie"}) /\ Mine \in Threads /\ Allocated(Mine)
    BY <1>2, <1>t DEF UseZombie, At, MainAt, Mine, Obj, LifeInv, NamesInv, Ending
  <2>2. ~obj[Mine].zombieQueued
    BY <1>i, <2>1 DEF ReaperInv
  <2>3. MovedOn("u_done") /\ KeepsMarks /\ StillRest /\ obj' = obj
    BY <1>2, <1>t, <1>p, <2>1, <2>2, MainGoes, SetMarks DEF UseZombie, StillRest, Mine, Obj
  <2>4. MineInv'
    BY <1>i, <2>1, <2>3 DEF MineInv, MovedOn, Moved, MainAt, Registered, Private, StillRest, Allocated, BodyDone
  <2> QED
    BY <1>t, <1>i, <1>p, <2>1, <2>3, <2>4, MoveKeeps DEF MovedOn, MainAt, Private, Unassigned
<1>3. ASSUME UseDone(Main) \/ UseLive(Main) PROVE SessionInv'
  <2>1. MainAt({"u_done", "u_live"}) /\ Mine \in Threads
    BY <1>3, <1>t DEF UseDone, UseLive, At, MainAt, Mine, Obj, LifeInv, NamesInv, Ending
  <2>2. KeepsMarks /\ StillRest /\ obj' = obj
    BY <1>3, <1>t, <2>1, SetMarks DEF UseDone, UseLive, StillRest
  <2>3. CASE Leave(Main) /\ Mine \in live
    <3>1. PICK p \in {"idle", "unlock"} : Moved(p) /\ (p # "idle" => Mine' = Mine)
      BY <1>t, <2>3, MainGoes DEF MovedOn
    <3> QED
      BY <1>i, <2>1, <2>2, <2>3, <3>1, LiveKeeps DEF MainAt, Unassigned
  <2>4. CASE MovedOn("u_live") /\ BodyDone(Mine) /\ MainAt({"u_done"})
    <3>1. MineInv'
      BY <1>i, <2>1, <2>2, <2>4 DEF MineInv, MovedOn, Moved, MainAt, Registered, Private, StillRest,
        Touching, Allocated, BodyDone
    <3> QED
      BY <1>t, <1>i, <1>p, <2>2, <2>4, <3>1, MoveKeeps DEF MovedOn, MainAt, Private, Unassigned
  <2>5. CASE MovedOn("u_dead") /\ Mine \notin live /\ MainAt({"u_live"})
    <3>1. Allocated(Mine)
      BY <1>i, <2>5 DEF MineInv, MainAt
    <3>2. MineInv'
      BY <1>i, <2>1, <2>2, <2>5, <3>1 DEF MineInv, MovedOn, Moved, MainAt, Registered, Private, StillRest,
        Touching, Allocated, BodyDone
    <3> QED
      BY <1>t, <1>i, <1>p, <2>2, <2>5, <3>2, MoveKeeps DEF MovedOn, MainAt, Private, Unassigned
  <2>6. Goto(Main, "u_live") => MovedOn("u_live")
    BY <1>t, <1>p, MainGoes
  <2>7. Goto(Main, "u_dead") => MovedOn("u_dead")
    BY <1>t, <1>p, MainGoes
  <2>8. CASE UseDone(Main)
    <3>1. MainAt({"u_done"})
      BY <2>8 DEF UseDone, At, MainAt
    <3>2. ~BodyDone(Mine) => Mine \in live
      BY <1>i, <3>1 DEF MineInv, MainAt, Private
    <3> QED
      BY <2>3, <2>4, <2>6, <2>8, <3>1, <3>2 DEF UseDone, Mine, Obj
  <2>9. CASE UseLive(Main)
    <3>1. MainAt({"u_live"})
      BY <2>9 DEF UseLive, At, MainAt
    <3> QED
      BY <2>3, <2>5, <2>7, <2>9, <3>1 DEF UseLive, Mine, Obj
  <2> QED
    BY <1>3, <2>8, <2>9
<1>4. ASSUME Unlock(Main) \/ CreateLog(Main) \/ AttrGetLock(Main) \/ ExitLock(Main) \/ ReapSwap(Main)
      PROVE  SessionInv'
  <2>1. MainAt({"unlock", "c_log", "g_lock", "e_lock", "r_swap"}) /\ Mine \in live /\ Mine \in Threads
    <3>1. MainAt({"unlock", "c_log", "g_lock", "e_lock", "r_swap"})
      BY <1>4 DEF Unlock, CreateLog, AttrGetLock, ExitLock, ReapSwap, At, MainAt
    <3>2. Mine \in live
      BY <1>i, <3>1 DEF MineInv, MainAt, Registered
    <3> QED
      BY <3>1, <3>2, <1>t DEF TypeOK
  <2>2. KeepsMarks
    <3>1. \/ obj' = obj \/ obj' = [obj EXCEPT ![Mine].m = None]
          \/ obj' = [obj EXCEPT ![Mine].exited = TRUE]
      BY <1>4 DEF Unlock, CreateLog, AttrGetLock, ExitLock, ReapSwap, Mine, Obj
    <3> QED
      BY <1>t, <2>1, <3>1, SetMarks
  <2>3. StillRest
    BY <1>4, <1>i DEF Unlock, CreateLog, AttrGetLock, ExitLock, ReapSwap, StillRest, ReaperInv
  <2>4. PICK p \in {"idle", "u_sub", "c_log"} : Moved(p) /\ (p # "idle" => Mine' = Mine)
    <3>1. CASE Return(Main) \/ Goto(Main, "u_sub")
      BY <1>t, <1>p, <3>1, MainGoes DEF MovedOn
    <3>2. CASE ReapSwap(Main)
      <4>1. zombies = {} /\ call[Main].batch = {}
        BY <1>i, <1>t DEF ReaperInv
      <4>2. call[Main] \in CallRec
        BY <1>t DEF TypeOK
      <4>3. call' = [call EXCEPT ![Main].batch = {}, ![Main].pc = "c_log"]
        BY <3>2, <4>1 DEF ReapSwap
      <4>4. call'[Main].pc = "c_log" /\ call'[Main].t = call[Main].t /\ call'[Main].batch = {}
            /\ call'[Main].victim = call[Main].victim /\ call'[Main].mode = call[Main].mode
        BY <1>t, <4>2, <4>3 DEF TypeOK, CallRec
      <4>5. Moved("c_log") /\ Mine' = Mine
        BY <1>t, <1>i, <4>3, <4>4 DEF Moved, StepsAlone, SessionInv, CallerInv, ReaperInv, Mine, TypeOK
      <4> QED
        BY <4>5
    <3> QED
      BY <1>4, <3>1, <3>2 DEF Unlock, CreateLog, AttrGetLock, ExitLock
  <2> QED
    BY <1>i, <2>1, <2>2, <2>3, <2>4, LiveKeeps DEF MainAt, Unassigned
<1>5. ASSUME CreateTcb(Main) PROVE SessionInv'
  <2>1. MainAt({"c_tcb"}) /\ Mine \in live
    BY <1>5, <1>i DEF CreateTcb, At, MainAt, MineInv, Registered
  <2>2. KeepsMarks /\ StillRest
    BY <1>5, <1>t DEF CreateTcb, StillRest, KeepsMarks
  <2>3. PICK p \in {"c_undo", "c_start"} : Moved(p) /\ Mine' = Mine
    BY <1>5, <1>t, <1>p, MainGoes DEF CreateTcb, MovedOn
  <2> QED
    BY <1>i, <2>1, <2>2, <2>3, LiveKeeps DEF MainAt, Unassigned
<1>6. ASSUME JoinLock(Main) \/ JoinLog(Main) PROVE SessionInv'
  <2>1. MainAt({"j_lock", "j_log"}) /\ Mine \in Threads
    BY <1>6, <1>t DEF JoinLock, JoinLog, At, MainAt, Mine, Obj, LifeInv, NamesInv, UsePlaces
  <2>2. KeepsMarks /\ StillRest
    <3>1. \/ obj' = obj \/ obj' = [obj EXCEPT ![Mine].m = Main]
      BY <1>6 DEF JoinLock, JoinLog, Mine, Obj
    <3> QED
      BY <1>6, <1>t, <2>1, <3>1, SetMarks DEF JoinLock, JoinLog, StillRest
  <2>3. CASE JoinLock(Main)
    <3>1. MainAt({"j_lock"}) /\ Mine \in live /\ Mine # mainThread
      BY <2>3, <1>i DEF JoinLock, At, MainAt, MineInv, Registered
    <3>2. PICK p \in {"u_sub", "j_wait"} : Moved(p) /\ Mine' = Mine
      BY <2>3, <1>t, <1>p, MainGoes DEF JoinLock, MovedOn
    <3> QED
      BY <1>i, <2>2, <3>1, <3>2, LiveKeeps DEF MainAt, Unassigned
  <2>4. CASE JoinLog(Main)
    <3>1. MainAt({"j_log"}) /\ BodyDone(Mine)
      BY <2>4, <1>i DEF JoinLog, At, MainAt, MineInv
    <3>2. MovedOn("u_sub") /\ obj' = obj
      BY <2>4, <1>t, <1>p, MainGoes DEF JoinLog
    <3>3. MineInv'
      BY <1>i, <2>1, <2>2, <3>1, <3>2 DEF MineInv, MovedOn, Moved, MainAt, Registered, Private, StillRest,
        Touching, Allocated, BodyDone
    <3> QED
      BY <1>t, <1>i, <1>p, <2>2, <3>1, <3>2, <3>3, MoveKeeps DEF MovedOn, MainAt, Private, Unassigned
  <2> QED
    BY <1>6, <2>3, <2>4
<1>7. ASSUME JoinWake(Main) PROVE SessionInv'
  <2>1. MainAt({"j_wait"}) /\ Mine \in live /\ Mine \in Threads /\ Mine # mainThread
    <3>1. MainAt({"j_wait"})
      BY <1>7 DEF JoinWake, At, MainAt
    <3> QED
      BY <1>t, <1>i, <3>1 DEF MainAt, MineInv, Registered, TypeOK
  <2>2. KeepsMarks /\ StillRest
    <3>1. PICK x : \/ obj' = [obj EXCEPT ![Mine].m = x]
                   \/ obj' = [obj EXCEPT ![Mine].joined = TRUE, ![Mine].m = x]
      BY <1>7 DEF JoinWake, Mine, Obj
    <3> QED
      BY <1>7, <1>t, <2>1, <3>1, SetMarks DEF JoinWake, StillRest
  <2>3. CASE Goto(Main, "u_sub")
    BY <1>t, <1>i, <1>p, <2>1, <2>2, <2>3, MainGoes, LiveKeeps DEF MovedOn, MainAt, Unassigned
  <2>4. CASE ~Goto(Main, "u_sub")
    <3>1. Goto(Main, "j_host") /\ obj' = [obj EXCEPT ![Mine].joined = TRUE, ![Mine].m = None]
      BY <1>7, <2>4 DEF JoinWake, Mine, Obj
    <3>2. obj'[Mine].m # Main
      BY <1>t, <2>1, <3>1, SetMutex, ConstantsOK DEF Actors
    <3>3. MovedOn("j_host")
      BY <1>t, <1>p, <3>1, MainGoes
    <3>4. MineInv'
      BY <1>i, <2>1, <2>2, <3>2, <3>3 DEF MineInv, MovedOn, Moved, MainAt, Registered, Private, StillRest,
        Touching, Allocated, KeepsMarks
    <3> QED
      BY <1>t, <1>i, <1>p, <2>1, <2>2, <3>3, <3>4, MoveKeeps DEF MovedOn, MainAt, Private, Unassigned
  <2> QED
    BY <2>3, <2>4
<1>8. ASSUME JoinHost(Main) PROVE SessionInv'
  <2>1. MainAt({"j_host"}) /\ Mine \in live /\ Mine # mainThread /\ Mine \in Threads
    <3>1. MainAt({"j_host"})
      BY <1>8 DEF JoinHost, At, MainAt
    <3> QED
      BY <1>t, <1>i, <3>1 DEF MainAt, MineInv, Registered, TypeOK
  <2>2. host[Mine] = "joinable" \/ BodyDone(Mine)
    BY <1>i, <2>1 DEF HostInv, MainAt
  <2>3. ~\E b \in Actors \ {Main} : At(b, "j_hostwait")
    BY <1>i DEF BodiesInv, At, Actors
  <2>4. PICK p \in {"j_erase", "j_hostwait"} : MovedOn(p) /\ (p = "j_erase" => BodyDone(Mine))
    BY <1>8, <1>t, <1>p, <2>2, <2>3, MainGoes DEF JoinHost, Mine, Obj
  <2>5. KeepsMarks /\ obj' = obj /\ StillRest
    BY <1>8, <1>t, <2>3 DEF JoinHost, KeepsMarks, StillRest
  <2>6. MineInv'
    BY <1>i, <2>1, <2>4, <2>5 DEF MineInv, MovedOn, Moved, MainAt, Registered, Private, StillRest,
      Touching, Allocated, BodyDone
  <2> QED
    BY <1>t, <1>i, <1>p, <2>1, <2>4, <2>5, <2>6, MoveKeeps DEF MovedOn, MainAt, Private, Unassigned
<1> QED
  BY <1>1, <1>2, <1>3, <1>4, <1>5, <1>6, <1>7, <1>8

\* A step of Main outside a teardown, which may start a thread: what is left
\* to show is what becomes of the objects.
LEMMA FrameKeeps ==
  ASSUME SessionInv, NEW p \in MainPlaces, Moved(p), reset.phase = "idle",
         UNCHANGED <<zombies, reset, fault>>,
         \A u \in Threads : /\ obj'[u].zombieQueued => obj[u].zombieQueued
                            /\ obj'[u].detached => obj[u].detached
                            /\ body'[u] \in {body[u], "guest"},
         MineInv', KeptInv', HostInv'
  PROVE  SessionInv'
<1> USE DEF SessionInv
<1>m. Main \notin Threads /\ \A t \in Threads : call'[t] = call[t]
  BY ConstantsOK DEF Moved, StepsAlone, Actors
<1>1. NoUndefinedBehaviour'
  BY DEF NoUndefinedBehaviour
<1>2. BodiesInv'
  BY <1>m DEF BodiesInv
<1>3. ReaperInv'
  BY <1>m DEF ReaperInv, Moved, Actors
<1>4. CallerInv'
  BY DEF CallerInv, Moved, MainAt
<1>5. SweepInv'
  BY DEF SweepInv
<1> QED
  BY <1>1, <1>2, <1>3, <1>4, <1>5

\* Deletion of an object, and a claim on it.
LEMMA SetGone ==
  ASSUME obj \in [Threads -> ObjRec], NEW t \in Threads,
         \/ obj' = [obj EXCEPT ![t].st = "freed", ![t].slot = None]
         \/ obj' = [obj EXCEPT ![t].st = "freed", ![t].slot = None, ![t].dead = TRUE]
         \/ obj' = [obj EXCEPT ![t].st = "freed", ![t].dead = TRUE, ![t].slot = None]
  PROVE  /\ obj'[t].st = "freed" /\ obj'[t].zombieQueued = obj[t].zombieQueued
         /\ obj'[t].detached = obj[t].detached
         /\ \A u \in Threads \ {t} : obj'[u] = obj[u]
<1> DEFINE r == obj[t]
<1> DEFINE q == obj'[t]
<1>1. r \in ObjRec
  OBVIOUS
<1>2. \/ q = [r EXCEPT !.st = "freed", !.slot = None]
      \/ q = [r EXCEPT !.st = "freed", !.slot = None, !.dead = TRUE]
      \/ q = [r EXCEPT !.st = "freed", !.dead = TRUE, !.slot = None]
  OBVIOUS
<1>3. \A u \in Threads \ {t} : obj'[u] = obj[u]
  OBVIOUS
<1> HIDE DEF r, q
<1>4. q.st = "freed" /\ q.zombieQueued = r.zombieQueued /\ q.detached = r.detached
  BY <1>1, <1>2 DEF ObjRec
<1> QED
  BY <1>3, <1>4 DEF r, q

\* A deletion by Main, once the object is out of the registry.
LEMMA GoneKeeps ==
  ASSUME IInv, SessionInv, Moved("idle"), reset.phase = "idle", Mine \in Threads, Mine \notin live,
         ~MainAt(Unassigned), MainAt(Private),
         UNCHANGED <<body, live, leaked, zombies, mainThread, reset, fault>>,
         \A t \in Threads \ {Mine} : host'[t] = host[t],
         \/ obj' = [obj EXCEPT ![Mine].st = "freed", ![Mine].slot = None]
         \/ obj' = [obj EXCEPT ![Mine].st = "freed", ![Mine].slot = None, ![Mine].dead = TRUE]
  PROVE  SessionInv'
<1>t. TypeOK /\ obj \in [Threads -> ObjRec] /\ live \subseteq Threads /\ KeptInv /\ HostInv
  BY DEF IInv, TypeOK, SessionInv
<1>1. /\ obj'[Mine].st = "freed" /\ obj'[Mine].zombieQueued = obj[Mine].zombieQueued
      /\ obj'[Mine].detached = obj[Mine].detached
      /\ \A u \in Threads \ {Mine} : obj'[u] = obj[u]
  BY <1>t, SetGone
<1>2. \A u \in Threads : Allocated(u)' => Allocated(u) /\ u # Mine /\ obj'[u] = obj[u]
  BY <1>1 DEF Allocated
<1>3. MineInv'
  BY DEF MineInv, Moved, MainAt, Touching, Registered, Private
<1>4. KeptInv'
  BY <1>t, <1>2 DEF KeptInv
<1>5. HostInv'
  BY <1>t DEF HostInv, BodyDone, MainAt, Unassigned
<1>6. "idle" \in MainPlaces
  BY DEF MainPlaces
<1>7. \A u \in Threads : /\ obj'[u].zombieQueued => obj[u].zombieQueued
                         /\ obj'[u].detached => obj[u].detached
                         /\ body'[u] \in {body[u], "guest"}
  BY <1>1
<1> QED
  BY <1>3, <1>4, <1>5, <1>6, <1>7, FrameKeeps

\* Main deletes the object whose last use it has ended, or whose creation it
\* has undone.
LEMMA GoneSession ==
  ASSUME IInv, SessionInv
  PROVE  UseDead(Main) \/ UseDelete(Main) \/ CreateFree(Main) => SessionInv'
<1> USE DEF IInv, RestUnchanged, threads, registry, session, history
<1>t. TypeOK /\ obj \in [Threads -> ObjRec] /\ Main \in Actors
  BY DEF TypeOK, Actors
<1>i. MineInv /\ ReaperInv /\ HostInv /\ KeptInv /\ BodiesInv /\ CallerInv
  BY DEF SessionInv
<1>1. ASSUME UseDead(Main) PROVE SessionInv'
  <2>1. MainAt({"u_dead"}) /\ Mine \in Threads /\ Allocated(Mine) /\ Mine \notin live
    BY <1>1, <1>t DEF UseDead, At, MainAt, Mine, Obj, LifeInv, NamesInv, Ending, CondemnedInv
  <2>2. ~obj[Mine].dead /\ reset.phase = "idle"
    BY <1>i, <2>1 DEF KeptInv, CallerInv, MainAt
  <2>3. MovedOn("u_delete") /\ obj' = [obj EXCEPT ![Mine].dead = TRUE]
    <3>1. "u_delete" \in PcNames
      BY DEF PcNames, Touching
    <3> QED
      BY <1>1, <1>t, <2>2, <3>1, MainGoes DEF UseDead, Mine, Obj
  <2>4. \A u \in Threads \ {Mine} : obj'[u] = obj[u]
    BY <2>3
  <2>5. /\ obj'[Mine].st = obj[Mine].st /\ obj'[Mine].m = obj[Mine].m
        /\ obj'[Mine].zombieQueued = obj[Mine].zombieQueued /\ obj'[Mine].detached = obj[Mine].detached
    <3> DEFINE r == obj[Mine]
    <3> DEFINE q == obj'[Mine]
    <3>1. r \in ObjRec /\ q = [r EXCEPT !.dead = TRUE]
      BY <1>t, <2>1, <2>3
    <3> HIDE DEF r, q
    <3>2. q.st = r.st /\ q.m = r.m /\ q.zombieQueued = r.zombieQueued /\ q.detached = r.detached
      BY <3>1 DEF ObjRec
    <3> QED
      BY <3>2 DEF r, q
  <2>6. UNCHANGED <<body, host, live, leaked, zombies, mainThread, reset, fault>>
    BY <1>1 DEF UseDead
  <2>7. MineInv'
    BY <1>i, <2>1, <2>3, <2>5, <2>6 DEF MineInv, MovedOn, Moved, MainAt, Registered, Private, Allocated,
      BodyDone
  <2>8. KeptInv'
    <3>1. \A u \in Threads : Allocated(u)' <=> Allocated(u)
      BY <2>4, <2>5 DEF Allocated
    <3>2. MainAt(Private)' /\ MainAt({"u_delete"})' /\ Mine' = Mine
      BY <2>3 DEF MovedOn, Moved, MainAt, Private
    <3>3. ASSUME NEW u \in Threads, Allocated(u), u # Mine
          PROVE  u \in live \cup leaked
      BY <1>i, <2>2, <3>3 DEF KeptInv
    <3>4. ASSUME NEW u \in Threads, Allocated(u), u # Mine
          PROVE  ~obj'[u].dead
      BY <1>i, <2>4, <3>4 DEF KeptInv
    <3> QED
      BY <2>6, <3>1, <3>2, <3>3, <3>4 DEF KeptInv
  <2>9. HostInv'
    BY <1>i, <2>1, <2>3, <2>6 DEF HostInv, BodyDone, MainAt
  <2>10. "u_delete" \in MainPlaces
    BY DEF MainPlaces
  <2>11. \A u \in Threads : /\ obj'[u].zombieQueued => obj[u].zombieQueued
                            /\ obj'[u].detached => obj[u].detached
                            /\ body'[u] \in {body[u], "guest"}
    BY <2>4, <2>5, <2>6
  <2> QED
    BY <2>2, <2>3, <2>6, <2>7, <2>8, <2>9, <2>10, <2>11, FrameKeeps DEF MovedOn
<1>2. ASSUME UseDelete(Main) PROVE SessionInv'
  <2>1. MainAt({"u_delete"}) /\ Mine \in Threads /\ Allocated(Mine) /\ Mine \notin live
    BY <1>2, <1>t DEF UseDelete, At, MainAt, Mine, Obj, LifeInv, NamesInv, Ending, CondemnedInv
  <2>2. obj[Mine].m # Main /\ reset.phase = "idle" /\ ~MainAt(Unassigned) /\ MainAt(Private)
    BY <1>i, <2>1 DEF MineInv, CallerInv, MainAt, Private, Unassigned
  <2>3. Moved("idle")
    BY <1>2, <1>t, <2>2, MainGoes DEF UseDelete
  <2>4. UNCHANGED <<body, live, leaked, zombies, mainThread, reset, fault>>
    BY <1>2 DEF UseDelete
  <2>5. /\ \A t \in Threads \ {Mine} : host'[t] = host[t]
        /\ obj' = [obj EXCEPT ![Mine].st = "freed", ![Mine].slot = None]
    BY <1>2, <1>t DEF UseDelete, FinishDelete, Mine, Obj, TypeOK
  <2> QED
    BY <2>1, <2>2, <2>3, <2>4, <2>5, GoneKeeps
<1>3. ASSUME CreateFree(Main) PROVE SessionInv'
  <2>1. MainAt({"c_free"}) /\ Mine \in Threads /\ Allocated(Mine) /\ Mine \notin live
    BY <1>3, <1>t DEF CreateFree, At, MainAt, Mine, Obj, LifeInv, NamesInv, Creating, CreatorInv
  <2>2. reset.phase = "idle" /\ ~MainAt(Unassigned) /\ MainAt(Private)
    BY <1>i, <2>1 DEF CallerInv, MainAt, Private, Unassigned
  <2>3. Moved("idle")
    BY <1>3, <1>t, <2>2, MainGoes DEF CreateFree
  <2>4. UNCHANGED <<body, host, live, leaked, zombies, mainThread, reset, fault>>
    BY <1>3 DEF CreateFree
  <2>5. obj' = [obj EXCEPT ![Mine].st = "freed", ![Mine].slot = None, ![Mine].dead = TRUE]
    BY <1>3 DEF CreateFree, Mine, Obj
  <2> QED
    BY <2>1, <2>2, <2>3, <2>4, <2>5, GoneKeeps
<1> QED
  BY <1>1, <1>2, <1>3

\* Create up to the start of the thread, and its undoing.
LEMMA CreateSession ==
  ASSUME IInv, SessionInv
  PROVE  \/ CreateSlot(Main) \/ CreateInsert(Main) \/ CreateUndo(Main) \/ CreateStart(Main)
         \/ CreateAssign(Main)
         => SessionInv'
<1> USE DEF IInv, threads, registry, session, history
<1>t. TypeOK /\ obj \in [Threads -> ObjRec] /\ call \in [Actors -> CallRec] /\ Main \in Actors
  BY DEF TypeOK, Actors
<1>i. MineInv /\ ReaperInv /\ HostInv /\ KeptInv /\ BodiesInv /\ CallerInv
  BY DEF SessionInv
<1>p. {"idle", "c_insert", "c_tcb", "c_free", "c_assign", "r_swap"} \subseteq PcNames \cap MainPlaces
  BY DEF PcNames, Touching, MainPlaces
<1>1. ASSUME CreateSlot(Main) PROVE SessionInv'
  <2>1. MainAt({"c_slot"}) /\ reset.phase = "idle"
    BY <1>1, <1>i DEF CreateSlot, At, MainAt, CallerInv
  <2>2. CASE Return(Main) /\ UNCHANGED <<obj, slotInUse>>
    <3>1. Moved("idle") /\ StillRest /\ KeepsMarks
      BY <1>1, <1>t, <2>2, MainGoes DEF CreateSlot, StillRest, KeepsMarks
    <3>2. MineInv'
      BY <3>1 DEF MineInv, Moved, MainAt, Touching, Registered, Private
    <3> QED
      BY <1>t, <1>p, <2>1, <3>1, <3>2, MoveKeeps DEF MainAt, Private, Unassigned
  <2>3. CASE ~(Return(Main) /\ UNCHANGED <<obj, slotInUse>>)
    <3>1. PICK s \in FreeSlots, t \in Threads :
            /\ obj[t].st = "none"
            /\ obj' = [obj EXCEPT ![t] = NewThread(s, call[Main].mode = "createDetached")]
            /\ call' = [call EXCEPT ![Main].pc = "c_insert", ![Main].t = t]
      BY <1>1, <2>3 DEF CreateSlot
    <3>2. Moved("c_insert") /\ Mine' = t
      <4>1. /\ call'[Main].pc = "c_insert" /\ call'[Main].t = t /\ call'[Main].batch = call[Main].batch
            /\ call'[Main].victim = call[Main].victim /\ call'[Main].mode = call[Main].mode
        BY <1>t, <3>1 DEF CallRec
      <4> QED
        BY <1>t, <1>i, <3>1, <4>1 DEF Moved, StepsAlone, Mine, ReaperInv, CallerInv
    <3>3. /\ obj'[t].st = "alloc" /\ ~obj'[t].zombieQueued /\ ~obj'[t].detached /\ ~obj'[t].dead
          /\ \A u \in Threads \ {t} : obj'[u] = obj[u]
      <4>1. obj'[t] = NewThread(s, FALSE) /\ \A u \in Threads \ {t} : obj'[u] = obj[u]
        BY <1>t, <1>i, <3>1 DEF CallerInv
      <4> QED
        BY <4>1 DEF NewThread, Unallocated
    <3>4. UNCHANGED <<body, host, live, leaked, zombies, mainThread, reset, fault>>
      BY <1>1 DEF CreateSlot
    <3>5. MineInv'
      BY <3>2 DEF MineInv, Moved, MainAt, Touching, Registered, Private
    <3>6. KeptInv'
      <4>1. MainAt(Private)' /\ Mine' = t
        BY <3>2 DEF MainAt, Moved, Private
      <4>2. \A u \in Threads : Allocated(u)' => Allocated(u) \/ u = t
        BY <3>3 DEF Allocated
      <4>3. \A u \in Threads : Allocated(u)' => ~obj'[u].dead
        <5>1. ~MainAt({"u_delete"})
          BY <2>1 DEF MainAt
        <5> QED
          BY <1>i, <3>3, <4>2, <5>1 DEF KeptInv, Allocated
      <4>4. ~MainAt(Private)
        BY <2>1 DEF MainAt, Private
      <4>5. \A u \in Threads : Allocated(u) => u \in live \cup leaked
        BY <1>i, <2>1, <4>4 DEF KeptInv
      <4> QED
        BY <3>4, <4>1, <4>2, <4>3, <4>5 DEF KeptInv
    <3>7. HostInv'
      BY <1>i, <2>1, <3>4 DEF HostInv, BodyDone, MainAt
    <3>8. \A u \in Threads : /\ obj'[u].zombieQueued => obj[u].zombieQueued
                             /\ obj'[u].detached => obj[u].detached
                             /\ body'[u] \in {body[u], "guest"}
      BY <3>3, <3>4
    <3> QED
      BY <1>p, <2>1, <3>2, <3>4, <3>5, <3>6, <3>7, <3>8, FrameKeeps
  <2> QED
    BY <2>2, <2>3
<1>2. ASSUME CreateInsert(Main) PROVE SessionInv'
  <2>1. MainAt({"c_insert"}) /\ reset.phase = "idle" /\ Mine \in Threads /\ Allocated(Mine)
    BY <1>2, <1>t, <1>i DEF CreateInsert, At, MainAt, CallerInv, Mine, Obj, LifeInv, NamesInv, CreatorInv,
      Creating
  <2>2. MovedOn("c_tcb")
    BY <1>2, <1>t, <1>p, MainGoes DEF CreateInsert
  <2>3. live' = live \cup {Mine} /\ UNCHANGED <<obj, body, host, leaked, zombies, mainThread, reset, fault>>
    BY <1>2 DEF CreateInsert, Mine, Obj
  <2>4. MineInv'
    BY <2>1, <2>2, <2>3 DEF MineInv, MovedOn, Moved, MainAt, Private, Allocated
  <2>5. KeptInv'
    <3>1. \A u \in Threads : Allocated(u) => ~obj[u].dead /\ (u = Mine \/ u \in live \cup leaked)
      BY <1>i, <2>1 DEF KeptInv, MainAt
    <3> QED
      BY <2>3, <3>1 DEF KeptInv, Allocated
  <2>6. HostInv'
    BY <1>i, <2>1, <2>2, <2>3 DEF HostInv, MovedOn, Moved, MainAt, BodyDone
  <2> QED
    BY <1>p, <2>1, <2>2, <2>3, <2>4, <2>5, <2>6, FrameKeeps DEF MovedOn
<1>3. ASSUME CreateUndo(Main) PROVE SessionInv'
  <2>1. /\ MainAt({"c_undo"}) /\ reset.phase = "idle" /\ Mine \in Threads /\ Allocated(Mine)
        /\ Mine # mainThread
    BY <1>3, <1>t, <1>i DEF CreateUndo, At, MainAt, CallerInv, Mine, Obj, LifeInv, NamesInv, CreatorInv,
      Creating
  <2>2. MovedOn("c_free")
    BY <1>3, <1>t, <1>p, MainGoes DEF CreateUndo
  <2>3. live' = live \ {Mine} /\ UNCHANGED <<obj, body, host, leaked, zombies, mainThread, reset, fault>>
    BY <1>3 DEF CreateUndo, Mine, Obj
  <2>4. MineInv'
    BY <2>1, <2>2, <2>3 DEF MineInv, MovedOn, Moved, MainAt, Private, Registered, Allocated
  <2>5. KeptInv'
    <3>1. \A u \in Threads : Allocated(u) => ~obj[u].dead /\ u \in live \cup leaked
      BY <1>i, <2>1 DEF KeptInv, MainAt, Private
    <3>2. MainAt(Private)' /\ Mine' = Mine
      BY <2>2 DEF MovedOn, Moved, MainAt, Private
    <3> QED
      BY <2>3, <3>1, <3>2 DEF KeptInv, Allocated
  <2>6. HostInv'
    BY <1>i, <2>1, <2>2, <2>3 DEF HostInv, MovedOn, Moved, MainAt, BodyDone
  <2> QED
    BY <1>p, <2>1, <2>2, <2>3, <2>4, <2>5, <2>6, FrameKeeps DEF MovedOn
<1>4. ASSUME CreateStart(Main) PROVE SessionInv'
  <2>1. /\ MainAt({"c_start"}) /\ reset.phase = "idle" /\ Mine \in Threads /\ Allocated(Mine)
        /\ Mine \in live /\ body[Mine] = "none"
    BY <1>4, <1>t, <1>i DEF CreateStart, At, MainAt, CallerInv, Mine, Obj, LifeInv, NamesInv, CreatorInv,
      Creating, MineInv, Registered
  <2>2. MovedOn("c_assign")
    BY <1>4, <1>t, <1>p, MainGoes DEF CreateStart
  <2>3. /\ UNCHANGED <<obj, host, live, leaked, zombies, mainThread, reset, fault>>
        /\ body'[Mine] = "guest" /\ \A u \in Threads \ {Mine} : body'[u] = body[u]
    BY <1>4, <1>t, <2>1 DEF CreateStart, Mine, Obj, TypeOK
  <2>4. MineInv'
    BY <2>1, <2>2, <2>3 DEF MineInv, MovedOn, Moved, MainAt, Private, Registered, Allocated
  <2>5. KeptInv'
    <3>1. \A u \in Threads : Allocated(u) => ~obj[u].dead /\ u \in live \cup leaked
      BY <1>i, <2>1 DEF KeptInv, MainAt, Private
    <3> QED
      BY <2>3, <3>1 DEF KeptInv, Allocated
  <2>6. HostInv'
    BY <1>i, <2>1, <2>2, <2>3, <1>t DEF HostInv, MovedOn, Moved, MainAt, BodyDone, TypeOK
  <2> QED
    BY <1>p, <2>1, <2>2, <2>3, <2>4, <2>5, <2>6, FrameKeeps DEF MovedOn
<1>5. ASSUME CreateAssign(Main) PROVE SessionInv'
  <2>1. MainAt({"c_assign"}) /\ reset.phase = "idle" /\ Mine \in Threads /\ Mine \in live
    BY <1>5, <1>t, <1>i DEF CreateAssign, At, MainAt, CallerInv, MineInv, Registered, TypeOK
  <2>2. MovedOn("r_swap")
    BY <1>5, <1>t, <1>p, MainGoes DEF CreateAssign
  <2>3. /\ UNCHANGED <<obj, body, live, leaked, zombies, mainThread, reset, fault>>
        /\ host'[Mine] = "joinable" /\ \A u \in Threads \ {Mine} : host'[u] = host[u]
    BY <1>5, <1>t, <2>1 DEF CreateAssign, Mine, Obj, TypeOK
  <2>4. MineInv'
    BY <2>1, <2>2, <2>3 DEF MineInv, MovedOn, Moved, MainAt, Private, Registered, Touching
  <2>5. KeptInv'
    <3>1. \A u \in Threads : Allocated(u) => ~obj[u].dead /\ u \in live \cup leaked
      BY <1>i, <2>1 DEF KeptInv, MainAt, Private
    <3> QED
      BY <2>3, <3>1 DEF KeptInv, Allocated
  <2>6. HostInv'
    BY <1>i, <2>1, <2>2, <2>3, <1>t DEF HostInv, MovedOn, Moved, MainAt, BodyDone, TypeOK
  <2> QED
    BY <1>p, <2>1, <2>2, <2>3, <2>4, <2>5, <2>6, FrameKeeps DEF MovedOn
<1> QED
  BY <1>1, <1>2, <1>3, <1>4, <1>5

\* Join's wait for the host thread, and the end of the registration.
LEMMA EraseSession ==
  ASSUME IInv, SessionInv
  PROVE  JoinHostWait(Main) \/ JoinErase(Main) => SessionInv'
<1> USE DEF IInv, threads, registry, session, history
<1>t. TypeOK /\ obj \in [Threads -> ObjRec] /\ call \in [Actors -> CallRec] /\ Main \in Actors
  BY DEF TypeOK, Actors
<1>i. MineInv /\ ReaperInv /\ HostInv /\ KeptInv /\ BodiesInv /\ CallerInv
  BY DEF SessionInv
<1>p. {"j_erase", "j_log"} \subseteq PcNames \cap MainPlaces
  BY DEF PcNames, Touching, MainPlaces
<1>1. ASSUME JoinHostWait(Main) PROVE SessionInv'
  <2>1. /\ MainAt({"j_hostwait"}) /\ reset.phase = "idle" /\ Mine \in Threads /\ Mine \in live
        /\ BodyDone(Mine) /\ obj[Mine].m # Main
    BY <1>1, <1>t, <1>i DEF JoinHostWait, At, MainAt, CallerInv, MineInv, Registered, TypeOK, Mine, Obj
  <2>2. MovedOn("j_erase")
    BY <1>1, <1>t, <1>p, MainGoes DEF JoinHostWait
  <2>3. /\ UNCHANGED <<obj, body, live, leaked, zombies, mainThread, reset, fault>>
        /\ \A u \in Threads \ {Mine} : host'[u] = host[u]
    BY <1>1, <1>t, <2>1 DEF JoinHostWait, Mine, Obj, TypeOK
  <2>4. MineInv'
    BY <2>1, <2>2, <2>3 DEF MineInv, MovedOn, Moved, MainAt, Private, Registered, Touching, BodyDone
  <2>5. KeptInv'
    <3>1. \A u \in Threads : Allocated(u) => ~obj[u].dead /\ u \in live \cup leaked
      BY <1>i, <2>1 DEF KeptInv, MainAt, Private
    <3> QED
      BY <2>3, <3>1 DEF KeptInv, Allocated
  <2>6. HostInv'
    BY <1>i, <2>1, <2>2, <2>3, <1>t DEF HostInv, MovedOn, Moved, MainAt, BodyDone, TypeOK
  <2> QED
    BY <1>p, <2>1, <2>2, <2>3, <2>4, <2>5, <2>6, FrameKeeps DEF MovedOn
<1>2. ASSUME JoinErase(Main) PROVE SessionInv'
  <2>1. /\ MainAt({"j_erase"}) /\ reset.phase = "idle" /\ Mine \in Threads /\ Mine \in live
        /\ BodyDone(Mine) /\ obj[Mine].m # Main /\ Allocated(Mine)
    BY <1>2, <1>t, <1>i DEF JoinErase, At, MainAt, CallerInv, MineInv, Registered, TypeOK, LifeInv,
      LiveHandlesAreAllocated
  <2>2. MovedOn("j_log")
    BY <1>2, <1>t, <1>p, MainGoes DEF JoinErase
  <2>3. live' = live \ {Mine} /\ UNCHANGED <<obj, body, host, leaked, zombies, mainThread, reset, fault>>
    BY <1>2 DEF JoinErase, Mine, Obj
  <2>4. Mine # mainThread
    BY <2>1 DEF LifeInv, MainInv, BodyDone
  <2>5. MineInv'
    BY <2>1, <2>2, <2>3 DEF MineInv, MovedOn, Moved, MainAt, Private, Registered, Allocated, BodyDone
  <2>6. KeptInv'
    <3>1. \A u \in Threads : Allocated(u) => ~obj[u].dead /\ u \in live \cup leaked
      BY <1>i, <2>1 DEF KeptInv, MainAt, Private
    <3>2. MainAt(Private)' /\ Mine' = Mine
      BY <2>2 DEF MovedOn, Moved, MainAt, Private
    <3> QED
      BY <2>3, <3>1, <3>2 DEF KeptInv, Allocated
  <2>7. HostInv'
    BY <1>i, <2>1, <2>2, <2>3, <2>4 DEF HostInv, MovedOn, Moved, MainAt, BodyDone
  <2> QED
    BY <1>p, <2>1, <2>2, <2>3, <2>5, <2>6, <2>7, FrameKeeps DEF MovedOn
<1> QED
  BY <1>1, <1>2

\* Main's own object appears among the registered ones, and nothing else
\* changes.
LEMMA MaterializeFacts ==
  ASSUME IInv, SessionInv, reset.phase = "idle", MaterializeMain(Main)
  PROVE  /\ mainThread' \in live' /\ mainThread' \in Threads /\ obj'[mainThread'].st = "alloc"
         /\ mainThread = None \/ mainThread' = mainThread
         /\ mainThread' \in live \/ ~Allocated(mainThread')
         /\ live' = live \cup {mainThread'}
         /\ \A u \in Threads : Allocated(u) => obj'[u] = obj[u]
         /\ \A u \in Threads : Allocated(u)' => Allocated(u) \/ (u = mainThread' /\ ~obj'[u].dead)
         /\ \A u \in Threads : /\ obj'[u].zombieQueued => obj[u].zombieQueued
                               /\ obj'[u].detached => obj[u].detached
<1> USE DEF IInv
<1>t. /\ obj \in [Threads -> ObjRec] /\ HostInv /\ mainThread \in Threads \cup {None}
      /\ live \subseteq Threads
  BY DEF TypeOK, SessionInv
<1>1. CASE mainThread # None
  <2>1. UNCHANGED <<obj, live, mainThread>> /\ mainThread \in live
    BY <1>t, <1>1 DEF MaterializeMain, HostInv
  <2> QED
    BY <1>t, <1>1, <2>1 DEF LifeInv, LiveHandlesAreAllocated, Allocated
<1>2. CASE mainThread = None
  <2>1. PICK t \in Threads :
          /\ obj[t].st = "none" /\ obj' = [obj EXCEPT ![t] = NewThread(None, FALSE)]
          /\ live' = live \cup {t} /\ mainThread' = t
    BY <1>2 DEF MaterializeMain
  <2>2. obj'[t] = NewThread(None, FALSE) /\ \A u \in Threads \ {t} : obj'[u] = obj[u]
    BY <1>t, <2>1
  <2>3. obj'[t].st = "alloc" /\ ~obj'[t].dead /\ ~obj'[t].zombieQueued /\ ~obj'[t].detached
    BY <2>2 DEF NewThread, Unallocated
  <2> QED
    BY <1>2, <2>1, <2>2, <2>3 DEF Allocated
<1> QED
  BY <1>1, <1>2

\* The calls that may create Main's object.
LEMMA SelfSession ==
  ASSUME IInv, SessionInv
  PROVE  SelfCall(Main) \/ ExitBegin(Main) \/ JoinSelf(Main) => SessionInv'
<1> SUFFICES ASSUME SelfCall(Main) \/ ExitBegin(Main) \/ JoinSelf(Main)
             PROVE  SessionInv'
  OBVIOUS
<1> USE DEF IInv, threads, registry, session, history
<1>t. TypeOK /\ obj \in [Threads -> ObjRec] /\ call \in [Actors -> CallRec] /\ Main \in Actors
  BY DEF TypeOK, Actors
<1>i. MineInv /\ ReaperInv /\ HostInv /\ KeptInv /\ BodiesInv /\ CallerInv
  BY DEF SessionInv
<1>p. {"idle", "e_lock", "u_sub", "j_lock"} \subseteq PcNames \cap MainPlaces
  BY DEF PcNames, Touching, MainPlaces
<1>1. /\ MaterializeMain(Main) /\ reset.phase = "idle" /\ MainAt({"idle", "j_self"})
      /\ UNCHANGED <<body, host, zombies, leaked, reset, fault>>
  <2>1. CASE SelfCall(Main)
    BY <2>1 DEF SelfCall, CanCall, At, MainAt
  <2>2. CASE ExitBegin(Main)
    BY <2>2 DEF ExitBegin, CanCall, At, MainAt
  <2>3. CASE JoinSelf(Main)
    BY <2>3, <1>i DEF JoinSelf, At, MainAt, CallerInv
  <2> QED
    BY <2>1, <2>2, <2>3
<1>2. /\ mainThread' \in live' /\ mainThread' \in Threads /\ obj'[mainThread'].st = "alloc"
      /\ mainThread = None \/ mainThread' = mainThread
      /\ mainThread' \in live \/ ~Allocated(mainThread')
      /\ live' = live \cup {mainThread'}
      /\ \A u \in Threads : Allocated(u) => obj'[u] = obj[u]
      /\ \A u \in Threads : Allocated(u)' => Allocated(u) \/ (u = mainThread' /\ ~obj'[u].dead)
      /\ \A u \in Threads : /\ obj'[u].zombieQueued => obj[u].zombieQueued
                            /\ obj'[u].detached => obj[u].detached
  BY <1>1, MaterializeFacts
<1>3. PICK p \in {"idle", "e_lock", "u_sub", "j_lock"} :
        /\ Moved(p)
        /\ p = "e_lock" => Mine' = mainThread'
        /\ p \in {"u_sub", "j_lock"} => Mine' = Mine /\ MainAt({"j_self"})
        /\ p = "j_lock" => mainThread' # Mine
  <2>1. CASE SelfCall(Main)
    BY <2>1, <1>i, <1>t DEF SelfCall, CanCall, At, Moved, StepsAlone, ReaperInv, CallerInv
  <2>2. CASE ExitBegin(Main)
    <3>1. call' = [call EXCEPT ![Main] = [Idle EXCEPT !.pc = "e_lock", !.t = mainThread']]
      BY <2>2 DEF ExitBegin, Self
    <3>2. call'[Main] = [Idle EXCEPT !.pc = "e_lock", !.t = mainThread']
      BY <1>t, <3>1
    <3>3. Moved("e_lock") /\ Mine' = mainThread'
      BY <1>t, <3>1, <3>2 DEF Moved, StepsAlone, Idle, Mine
    <3> QED
      BY <3>3
  <2>3. CASE JoinSelf(Main)
    <3>1. PICK q \in {"u_sub", "j_lock"} : Goto(Main, q) /\ (q = "j_lock" => mainThread' # Mine)
      BY <2>3 DEF JoinSelf, Self, Mine, Obj
    <3>2. MovedOn(q)
      BY <1>t, <1>p, <3>1, MainGoes
    <3>3. MainAt({"j_self"})
      BY <2>3 DEF JoinSelf, At, MainAt
    <3> QED
      BY <3>1, <3>2, <3>3 DEF MovedOn
  <2> QED
    BY <2>1, <2>2, <2>3
<1>4. MineInv'
  <2>1. CASE p = "idle"
    BY <1>3, <2>1 DEF MineInv, Moved, MainAt, Touching, Registered, Private
  <2>2. CASE p = "e_lock"
    BY <1>2, <1>3, <2>2 DEF MineInv, Moved, MainAt, Private, Allocated
  <2>3. CASE p \in {"u_sub", "j_lock"}
    <3>1. Mine' = Mine /\ Mine \in live
      BY <1>i, <1>3, <2>3 DEF MineInv, MainAt, Registered
    <3>2. Allocated(Mine) /\ Mine \in Threads
      BY <3>1, <1>t DEF LifeInv, LiveHandlesAreAllocated, TypeOK
    <3>3. Mine \in live' /\ obj'[Mine] = obj[Mine]
      BY <1>2, <3>1, <3>2
    <3> QED
      BY <1>3, <2>3, <3>1, <3>2, <3>3 DEF MineInv, Moved, MainAt, Private, Allocated
  <2> QED
    BY <2>1, <2>2, <2>3
<1>5. KeptInv'
  <2>1. \A u \in Threads : Allocated(u) => ~obj[u].dead /\ u \in live \cup leaked
    BY <1>i, <1>1 DEF KeptInv, MainAt, Private
  <2> QED
    BY <1>1, <1>2, <2>1 DEF KeptInv
<1>6. HostInv'
  <2>1. \A u \in live : u \in Threads /\ u # None
    BY <1>t, ConstantsOK DEF TypeOK, Actors
  <2> QED
    BY <1>i, <1>1, <1>2, <1>p, <2>1 DEF HostInv, BodyDone, MainAt
<1> QED
  BY <1>1, <1>2, <1>3, <1>4, <1>5, <1>6, <1>p, FrameKeeps

\* A call of Main begins: with a registered object, or with none yet.
LEMMA BeginSession ==
  ASSUME OneCaller, IInv, SessionInv
  PROVE  CreateBegin(Main) \/ JoinBegin(Main) \/ DetachBegin(Main) \/ AttrGetBegin(Main)
         => SessionInv'
<1> SUFFICES ASSUME CreateBegin(Main) \/ JoinBegin(Main) \/ DetachBegin(Main) \/ AttrGetBegin(Main)
             PROVE  SessionInv'
  OBVIOUS
<1> USE DEF IInv, RestUnchanged, threads, registry, session, history
<1>t. TypeOK /\ obj \in [Threads -> ObjRec] /\ call \in [Actors -> CallRec] /\ Main \in Actors
  BY DEF TypeOK, Actors
<1>1. MainAt({"idle"}) /\ reset.phase = "idle" /\ ~DetachBegin(Main)
  BY DEF CreateBegin, CreateCheck, JoinBegin, DetachBegin, AttrGetBegin, CanCall, At, MainAt, OneCaller
<1>2. PICK p \in {"c_slot", "j_self", "g_lock"}, t \in Threads \cup {None} :
        /\ Moved(p) /\ Mine' = t
        /\ p # "c_slot" => t \in live
        /\ \/ obj' = obj
           \/ obj' = [obj EXCEPT ![t].uses = @ + 1] /\ t \in live
  <2>1. CASE CreateBegin(Main)
    <3>1. PICK m \in {"create", "createBadSlot"} : CreateCheck(Main, m)
      BY <2>1 DEF CreateBegin, OneCaller, CreateCheck, CanCall
    <3>2. call' = [call EXCEPT ![Main] = [Idle EXCEPT !.pc = "c_slot", !.mode = m]] /\ obj' = obj
      BY <3>1 DEF CreateCheck
    <3>3. call'[Main] = [Idle EXCEPT !.pc = "c_slot", !.mode = m]
      BY <1>t, <3>2
    <3>4. Moved("c_slot") /\ Mine' = None
      BY <1>t, <3>2, <3>3 DEF Moved, StepsAlone, Idle, Mine
    <3> QED
      BY <3>2, <3>4
  <2>2. CASE JoinBegin(Main) \/ AttrGetBegin(Main)
    <3>1. PICK p \in {"j_self", "g_lock"}, m \in {"join", "joinBadOut", "attrGet"}, t \in Threads :
            UseBegin(Main, t, p, m)
      <4>1. Known(Main) \subseteq Threads
        BY <1>t DEF Known, TypeOK
      <4> QED
        BY <2>2, <4>1 DEF JoinBegin, AttrGetBegin
    <3>2. /\ call' = [call EXCEPT ![Main] = [Idle EXCEPT !.pc = p, !.t = t, !.mode = m]]
          /\ t \in live /\ obj' = [obj EXCEPT ![t].uses = @ + 1]
      BY <3>1 DEF UseBegin
    <3>3. call'[Main] = [Idle EXCEPT !.pc = p, !.t = t, !.mode = m]
      BY <1>t, <3>2
    <3>4. Moved(p) /\ Mine' = t
      BY <1>t, <3>2, <3>3 DEF Moved, StepsAlone, Idle, Mine
    <3> QED
      BY <3>2, <3>4
  <2> QED
    BY <1>1, <2>1, <2>2
<1>4. KeepsMarks /\ StillRest
  <2>1. live \subseteq Threads
    BY <1>t DEF TypeOK
  <2>2. KeepsMarks
    <3>1. CASE obj' = obj
      BY <3>1 DEF KeepsMarks
    <3>2. CASE obj' = [obj EXCEPT ![t].uses = @ + 1] /\ t \in live
      BY <1>t, <2>1, <3>2, SetMarks
    <3> QED
      BY <1>2, <3>1, <3>2
  <2>3. StillRest
    BY <1>1 DEF CreateBegin, CreateCheck, JoinBegin, AttrGetBegin, UseBegin, StillRest
  <2> QED
    BY <2>2, <2>3
<1>5. MineInv'
  <2>1. CASE p = "c_slot"
    BY <1>2, <2>1 DEF MineInv, Moved, MainAt, Touching, Registered, Private
  <2>2. CASE p # "c_slot"
    <3>1. Mine' \in live' /\ Allocated(t)'
      BY <1>t, <1>2, <1>4, <2>2 DEF LifeInv, LiveHandlesAreAllocated, KeepsMarks, StillRest, Allocated, TypeOK
    <3>2. Allocated(Mine)'
      BY <1>2, <3>1 DEF Allocated
    <3> QED
      BY <1>2, <2>2, <3>1, <3>2 DEF MineInv, Moved, MainAt, Private
  <2> QED
    BY <2>1, <2>2
<1>6. p \in MainPlaces
  BY DEF MainPlaces
<1> QED
  BY <1>t, <1>1, <1>2, <1>4, <1>5, <1>6, MoveKeeps DEF MainAt, Private, Unassigned

\* A step of a created thread changes nothing that Main knows.
LEMMA ThreadKeeps ==
  ASSUME IInv, SessionInv, call'[Main] = call[Main], KeepsMarks,
         UNCHANGED <<host, live, leaked, zombies, mainThread, reset, fault>>,
         \A u \in Threads : /\ obj'[u].m = obj[u].m
                            /\ BodyDone(u) => BodyDone(u)'
                            /\ call'[u].batch = {} /\ call'[u].victim = None,
         BodiesInv'
  PROVE  SessionInv'
<1> USE DEF SessionInv
<1>1. Mine' = Mine /\ \A S : MainAt(S)' <=> MainAt(S)
  BY DEF Mine, MainAt
<1>2. \A u \in Threads : Allocated(u)' <=> Allocated(u)
  BY DEF Allocated, KeepsMarks
<1>3. NoUndefinedBehaviour' /\ CallerInv'
  BY <1>1 DEF NoUndefinedBehaviour, CallerInv
<1>4. ReaperInv'
  BY DEF ReaperInv, KeepsMarks, Actors
<1>5. MineInv'
  <2>1. MainAt(Touching \cup {"u_live"} \cup Registered \cup Private) => Mine \in Threads
    <3>1. MainAt(Registered) => Mine \in live /\ live \subseteq Threads
      BY DEF MineInv, IInv, TypeOK
    <3>2. MainAt((Touching \cup {"u_live"} \cup Private) \ Registered) => Mine \in Threads
      BY DEF IInv, LifeInv, NamesInv, MainAt, Touching, Private, Registered, UsePlaces, Ending,
        Creating, Mine, Obj, Actors
    <3> QED
      BY <3>1, <3>2 DEF MainAt
  <2>2. call'[Main].pc = call[Main].pc /\ UNCHANGED <<live, mainThread>>
    OBVIOUS
  <2>3. MainAt(Touching \cup {"u_live"}) => Allocated(Mine)'
    BY <1>1, <1>2, <2>1 DEF MineInv, MainAt, Allocated
  <2>4. MainAt(Registered \cup Private) => (obj'[Mine].m = obj[Mine].m /\ (BodyDone(Mine) => body'[Mine] = "done"))
    BY <2>1 DEF MainAt, BodyDone
  <2>5. {"j_host", "j_hostwait", "j_erase", "j_log"} \subseteq Registered \cup Private
    BY DEF Registered, Private
  <2> QED
    BY <1>1, <2>2, <2>3, <2>4, <2>5 DEF MineInv, MainAt, BodyDone
<1>6. KeptInv'
  BY <1>1, <1>2 DEF KeptInv, KeepsMarks
<1>7. HostInv'
  <2>1. live \subseteq Threads
    BY DEF IInv, TypeOK
  <2> QED
    BY <1>1, <2>1 DEF HostInv, MainAt
<1>8. SweepInv'
  BY <1>2 DEF SweepInv
<1> QED
  BY <1>3, <1>4, <1>5, <1>6, <1>7, <1>8

\* What a created thread does: it asks for its handle, exits, and its body
\* comes to its end.
LEMMA ThreadSession ==
  ASSUME OneCaller, IInv, SessionInv, NEW t \in Threads
  PROVE  Begin(t) \/ Continue(t) \/ BodyReturn(t) \/ BodyEnd(t) => SessionInv'
<1> USE DEF IInv, RestUnchanged, threads, registry, session, history
<1>t. /\ TypeOK /\ obj \in [Threads -> ObjRec] /\ call \in [Actors -> CallRec]
      /\ t \in Actors /\ t # Main /\ Main \in Actors /\ Threads \subseteq Actors
      /\ body \in [Threads -> {"none", "guest", "flag", "push", "last", "done"}]
  BY ConstantsOK DEF TypeOK, Actors
<1>i. BodiesInv /\ ReaperInv
  BY DEF SessionInv
<1>b. \A u \in Actors : call[u].batch = {} /\ call[u].victim = None
  BY <1>i DEF ReaperInv
<1>1. ASSUME Begin(t) PROVE SessionInv'
  <2>1. SelfCall(t) \/ ExitBegin(t)
    BY <1>1, <1>t DEF Begin, CreateBegin, CreateCheck, JoinBegin, DetachBegin, AttrGetBegin, CanCall,
      OneCaller
  <2>2. UNCHANGED <<obj, body, host, live, leaked, zombies, mainThread, reset, fault>>
    BY <2>1, <1>t DEF SelfCall, ExitBegin, MaterializeMain
  <2>3. KeepsMarks
    BY <2>2 DEF KeepsMarks
  <2>4. /\ \A u \in Actors \ {t} : call'[u] = call[u]
        /\ call'[t].batch = {} /\ call'[t].victim = None
        /\ call'[t].pc \in {"idle", "e_lock"}
        /\ call'[t].pc = "e_lock" => call'[t].t = t /\ body[t] = "guest"
    <3>1. CASE SelfCall(t)
      BY <1>t, <1>b, <1>i, <3>1 DEF SelfCall, BodiesInv
    <3>2. CASE ExitBegin(t)
      <4>1. /\ call' = [call EXCEPT ![t] = [Idle EXCEPT !.pc = "e_lock", !.t = t]]
            /\ body[t] = "guest"
        BY <1>t, <3>2 DEF ExitBegin, Self, CanCall
      <4>2. call'[t] = [Idle EXCEPT !.pc = "e_lock", !.t = t]
        BY <1>t, <4>1
      <4> QED
        BY <1>t, <4>1, <4>2 DEF Idle
    <3> QED
      BY <2>1, <3>1, <3>2
  <2>5. BodiesInv'
    BY <1>i, <1>t, <2>2, <2>4 DEF BodiesInv
  <2>6. /\ call'[Main] = call[Main]
        /\ \A u \in Threads : /\ obj'[u].m = obj[u].m
                              /\ BodyDone(u) => BodyDone(u)'
                              /\ call'[u].batch = {} /\ call'[u].victim = None
    BY <1>t, <1>b, <2>2, <2>4 DEF BodyDone
  <2> QED
    BY <2>2, <2>3, <2>5, <2>6, ThreadKeeps
<1>2. ASSUME Continue(t) PROVE SessionInv'
  <2>1. call[t].pc \in {"idle", "e_lock"} /\ (call[t].pc = "e_lock" => call[t].t = t)
    BY <1>i DEF BodiesInv
  <2>2. ExitLock(t) /\ call[t].t = t
    <3>1. ~UseEnd(t)
      BY <2>1 DEF UseEnd, UseSub, UseZombie, UseDone, UseLive, UseDead, UseDelete, Unlock, At
    <3>2. ~CreateContinue(t)
      BY <2>1 DEF CreateContinue, CreateSlot, CreateInsert, CreateTcb, CreateUndo,
        CreateFree, CreateStart, CreateAssign, CreateLog, At
    <3>3. ~Reap(t)
      BY <2>1 DEF Reap, ReapSwap, ReapVisit, ReapDelete, ReapBack, At
    <3>4. ~JoinContinue(t)
      BY <2>1 DEF JoinContinue, JoinSelf, JoinLock, JoinWake, JoinHost, JoinHostWait,
        JoinErase, JoinLog, At
    <3>5. ~(DetachContinue(t) \/ AttrGetLock(t))
      BY <2>1 DEF DetachContinue, DetachLock, QueueFlag, QueuePush, AttrGetLock, At
    <3>6. ExitLock(t)
      BY <1>2, <3>1, <3>2, <3>3, <3>4, <3>5 DEF Continue
    <3> QED
      BY <2>1, <3>6 DEF ExitLock, At
  <2>3. obj' = [obj EXCEPT ![t].exited = TRUE] /\ Return(t)
        /\ UNCHANGED <<body, host, live, leaked, zombies, mainThread, reset, fault>>
    BY <2>2 DEF ExitLock, Obj
  <2>4. KeepsMarks /\ \A u \in Threads : obj'[u].m = obj[u].m
    BY <1>t, <2>3, SetMarks, SetMutex
  <2>5. /\ \A u \in Actors \ {t} : call'[u] = call[u]
        /\ call'[t].batch = {} /\ call'[t].victim = None /\ call'[t].pc = "idle"
    BY <1>t, <2>3 DEF Return, Idle
  <2>6. BodiesInv'
    BY <1>i, <1>t, <2>3, <2>5 DEF BodiesInv
  <2>7. /\ call'[Main] = call[Main]
        /\ \A u \in Threads : /\ obj'[u].m = obj[u].m
                              /\ BodyDone(u) => BodyDone(u)'
                              /\ call'[u].batch = {} /\ call'[u].victim = None
    BY <1>t, <1>b, <2>3, <2>4, <2>5 DEF BodyDone
  <2> QED
    BY <2>3, <2>4, <2>6, <2>7, ThreadKeeps
<1>3. ASSUME BodyReturn(t) \/ BodyEnd(t) PROVE SessionInv'
  <2>1. BodyReturn(t) \/ BodyLast(t)
    BY <1>3, <1>i DEF BodyEnd, BodyFlag, BodyPush, BodyAt, BodiesInv
  <2>2. /\ UNCHANGED <<call, host, live, leaked, zombies, mainThread, reset, fault>>
        /\ obj' = obj \/ obj' = [obj EXCEPT ![t].exited = TRUE]
    BY <2>1 DEF BodyReturn, BodyLast
  <2>3. KeepsMarks /\ \A u \in Threads : obj'[u].m = obj[u].m
    BY <1>t, <2>2, SetMarks, SetMutex
  <2>4. /\ \A u \in Threads \ {t} : body'[u] = body[u]
        /\ body'[t] \in {"last", "done"} /\ body[t] \in {"guest", "last"}
        /\ body[t] = "guest" => call[t].pc = "idle"
    <3>1. ~obj[t].detached
      BY <1>i DEF ReaperInv
    <3> QED
      BY <1>t, <2>1, <3>1 DEF BodyReturn, BodyLast, BodyAt, At
  <2>5. BodiesInv'
    BY <1>i, <2>2, <2>4 DEF BodiesInv
  <2>6. /\ call'[Main] = call[Main]
        /\ \A u \in Threads : /\ obj'[u].m = obj[u].m
                              /\ BodyDone(u) => BodyDone(u)'
                              /\ call'[u].batch = {} /\ call'[u].victim = None
    BY <1>t, <1>b, <2>2, <2>3, <2>4 DEF BodyDone
  <2> QED
    BY <2>2, <2>3, <2>5, <2>6, ThreadKeeps
<1> QED
  BY <1>1, <1>2, <1>3

\* A step of a teardown: Main is inside ResetForSession, so that only the
\* objects and their lists change.
LEMMA SweepKeeps ==
  ASSUME IInv, SessionInv, MainAt({"idle"}), UNCHANGED <<call, body, zombies, fault>>,
         \A u \in Threads : /\ obj'[u].zombieQueued => obj[u].zombieQueued
                            /\ obj'[u].detached => obj[u].detached
                            /\ obj'[u].st = "alloc" => obj'[u].dead = obj[u].dead /\ obj[u].st = "alloc",
         \A u \in Threads : Allocated(u)' =>
                            \/ u \in live' \cup leaked'
                            \/ reset'.phase \in {"wake", "grace"} /\ <<u, "live">> \in reset'.coll
                            \/ reset'.phase = "reclaim" /\ <<u, "live">> \in reset'.todo,
         HostInv', SweepInv'
  PROVE  SessionInv'
<1> USE DEF SessionInv
<1>1. Mine' = Mine /\ \A S : MainAt(S)' <=> MainAt(S)
  BY DEF Mine, MainAt
<1>2. NoUndefinedBehaviour' /\ CallerInv' /\ BodiesInv' /\ ReaperInv'
  BY <1>1 DEF NoUndefinedBehaviour, CallerInv, BodiesInv, ReaperInv, MainAt
<1>3. MineInv'
  BY <1>1 DEF MineInv, MainAt, Touching, Registered, Private
<1>4. KeptInv'
  <2>1. \A u \in Threads : Allocated(u) => ~obj[u].dead
    BY DEF KeptInv, MainAt
  <2> QED
    BY <2>1 DEF KeptInv, Allocated
<1> QED
  BY <1>2, <1>3, <1>4

\* A teardown takes the registry over, gives every object to the leak list or
\* deletes it, and leaves an empty session behind.
LEMMA TeardownSession ==
  ASSUME IInv, SessionInv
  PROVE  ResetBegin \/ ResetContinue => SessionInv'
<1> USE DEF IInv, threads, registry, session, history
<1>t. /\ TypeOK /\ obj \in [Threads -> ObjRec] /\ reset \in ResetRec
      /\ live \subseteq Threads /\ leaked \subseteq Threads
      /\ \A u \in live : Allocated(u)
  BY DEF TypeOK, LifeInv, LiveHandlesAreAllocated
<1>i. ReaperInv /\ HostInv /\ KeptInv /\ CallerInv /\ SweepInv
  BY DEF SessionInv
<1>k. MainAt({"idle"}) =>
        \A u \in Threads : Allocated(u) =>
          \/ u \in live \cup leaked
          \/ reset.phase \in {"wake", "grace"} /\ <<u, "live">> \in reset.coll
          \/ reset.phase = "reclaim" /\ <<u, "live">> \in reset.todo
  BY <1>i DEF KeptInv, MainAt, Private
<1>1. ASSUME ResetBegin PROVE SessionInv'
  <2>1. /\ MainAt({"idle"}) /\ reset.phase = "idle" /\ reset'.phase = "zombies"
        /\ reset'.coll = reset.coll /\ reset'.todo = reset.todo
        /\ UNCHANGED <<obj, call, body, host, live, leaked, zombies, mainThread, fault>>
    BY <1>1, <1>t DEF ResetBegin, CanCall, At, MainAt, ResetRec
  <2>2. HostInv' /\ SweepInv'
    BY <1>i, <2>1 DEF HostInv, SweepInv, MainAt, BodyDone
  <2> QED
    BY <1>k, <2>1, <2>2, SweepKeeps DEF Allocated
<1>2. ASSUME ResetZombies PROVE SessionInv'
  <2>1. /\ MainAt({"idle"}) /\ reset.phase = "zombies" /\ reset'.phase = "live"
        /\ reset'.coll = {} /\ reset'.todo = reset.todo
        /\ UNCHANGED <<obj, call, body, host, live, leaked, zombies, mainThread, fault>>
    BY <1>2, <1>t, <1>i DEF ResetZombies, ResetAt, ResetRec, CallerInv, ReaperInv
  <2>2. HostInv' /\ SweepInv'
    BY <1>i, <2>1 DEF HostInv, SweepInv, MainAt, BodyDone
  <2> QED
    BY <1>k, <2>1, <2>2, SweepKeeps DEF Allocated
<1>3. ASSUME ResetLive PROVE SessionInv'
  <2>1. /\ MainAt({"idle"}) /\ reset.phase = "live" /\ reset'.phase = "wake"
        /\ reset'.coll = reset.coll \cup (live \X {"live"}) /\ reset'.todo = reset'.coll
        /\ live' = {}
        /\ UNCHANGED <<obj, call, body, host, leaked, zombies, mainThread, fault>>
    BY <1>3, <1>t, <1>i DEF ResetLive, ResetAt, CallerInv
  <2>2. \A e \in reset'.coll : Allocated(e[1]) /\ e \in Threads \X {"live"}
    <3>1. \A e \in live \X {"live"} : e[1] \in live /\ e \in Threads \X {"live"}
      BY <1>t
    <3>2. \A e \in reset.coll : Allocated(e[1]) /\ e \in Threads \X {"live"}
      BY <1>i, <2>1 DEF SweepInv
    <3> QED
      BY <1>t, <2>1, <3>1, <3>2
  <2>3. HostInv' /\ SweepInv'
    <3>1. \A e \in reset'.coll : obj'[e[1]].st = "alloc"
      BY <2>1, <2>2 DEF Allocated
    <3>2. reset'.coll \cup reset'.todo \subseteq Threads \X {"live"}
      BY <2>1, <2>2
    <3> QED
      BY <2>1, <3>1, <3>2 DEF HostInv, SweepInv, Allocated
  <2>4. \A u \in live : <<u, "live">> \in reset'.coll
    BY <2>1
  <2> QED
    BY <1>k, <2>1, <2>3, <2>4, SweepKeeps DEF Allocated
<1>4. ASSUME NEW p, NEW q, <<p, q>> \in {<<"wake", "grace">>, <<"grace", "reclaim">>},
             reset.phase = p, ResetNext(q)
      PROVE  SessionInv'
  <2>1. /\ MainAt({"idle"}) /\ p \in {"wake", "grace"} /\ reset'.phase = q /\ reset'.coll = reset.coll
        /\ reset'.todo = reset.coll
        /\ UNCHANGED <<obj, call, body, host, live, leaked, zombies, mainThread, fault>>
    BY <1>4, <1>t, <1>i DEF ResetNext, ResetRec, CallerInv
  <2>2. q \in {"grace", "reclaim"}
    BY <1>4
  <2>3. HostInv' /\ SweepInv'
    BY <1>4, <1>i, <2>1, <2>2 DEF HostInv, SweepInv, MainAt, BodyDone, Allocated
  <2>4. \A u \in Threads : Allocated(u) => u \in live \cup leaked \/ <<u, "live">> \in reset'.coll
    BY <1>4, <1>k, <2>1
  <2> QED
    BY <2>1, <2>2, <2>3, <2>4, SweepKeeps DEF Allocated
<1>5. ASSUME ResetWake \/ ResetGrace PROVE SessionInv'
  <2>1. CASE \E e \in reset.todo :
               /\ \/ obj' = [obj EXCEPT ![e[1]].sessionDead = TRUE]
                  \/ obj' = obj
               /\ reset' = [reset EXCEPT !.todo = @ \ {e}]
               /\ UNCHANGED <<call, threads, registry, resetting, mainThread, history>>
    <3>1. PICK e \in reset.todo :
               /\ \/ obj' = [obj EXCEPT ![e[1]].sessionDead = TRUE]
                  \/ obj' = obj
               /\ reset' = [reset EXCEPT !.todo = @ \ {e}]
      BY <2>1
    <3>2. /\ MainAt({"idle"}) /\ reset.phase \in {"wake", "grace"} /\ reset'.phase = reset.phase
          /\ reset'.coll = reset.coll /\ reset'.todo \subseteq reset.todo
          /\ UNCHANGED <<call, body, host, live, leaked, zombies, mainThread, fault>>
      BY <1>5, <1>t, <1>i, <2>1, <3>1 DEF ResetWake, ResetGrace, ResetAt, ResetRec, CallerInv
    <3>3. e[1] \in Threads
      BY <1>i DEF SweepInv
    <3>4. KeepsMarks
      BY <1>t, <3>1, <3>3, SetMarks
    <3>5. \A e1 \in reset.coll \cup reset.todo : e1[1] \in Threads
      BY <1>i DEF SweepInv
    <3>6. HostInv' /\ SweepInv'
      BY <1>i, <3>2, <3>4, <3>5 DEF HostInv, SweepInv, MainAt, BodyDone, KeepsMarks, Allocated
    <3> QED
      BY <1>k, <3>2, <3>4, <3>6, SweepKeeps DEF Allocated, KeepsMarks
  <2>2. reset.phase = "wake" /\ ResetNext("grace") => SessionInv'
    BY <1>4
  <2>3. reset.phase = "grace" /\ ResetNext("reclaim") => SessionInv'
    BY <1>4
  <2>4. CASE ResetWake
    <3>1. reset.phase = "wake"
      BY <2>4 DEF ResetWake, ResetAt
    <3> QED
      BY <2>1, <2>2, <2>4, <3>1 DEF ResetWake
  <2>5. CASE ResetGrace
    <3>1. reset.phase = "grace"
      BY <2>5 DEF ResetGrace, ResetAt
    <3>2. ASSUME NEW e \in reset.todo, reset' = [reset EXCEPT !.todo = @ \ {e}],
                 UNCHANGED <<obj, call, threads, registry, resetting, mainThread, history>>
          PROVE  SessionInv'
      BY <2>1, <3>2
    <3> QED
      BY <2>3, <2>5, <3>1, <3>2 DEF ResetGrace
  <2> QED
    BY <1>5, <2>4, <2>5
<1>6. ASSUME ResetReclaim PROVE SessionInv'
  <2>1. PICK e \in reset.todo :
          /\ \/ /\ obj' = [obj EXCEPT ![e[1]].st = "freed", ![e[1]].dead = TRUE, ![e[1]].slot = None]
                /\ leaked' = leaked
             \/ leaked' = leaked \cup {e[1]} /\ obj' = obj
          /\ reset' = [reset EXCEPT !.todo = @ \ {e}]
    BY <1>6 DEF ResetReclaim
  <2>2. /\ MainAt({"idle"}) /\ reset.phase = "reclaim" /\ reset'.phase = "reclaim"
        /\ reset'.coll = reset.coll /\ reset'.todo = reset.todo \ {e}
        /\ UNCHANGED <<call, body, live, zombies, mainThread, fault>>
    BY <1>6, <1>t, <1>i, <2>1 DEF ResetReclaim, ResetAt, ResetRec, CallerInv
  <2>3. e \in Threads \X {"live"} /\ e[1] \in Threads /\ live = {}
    BY <1>i, <2>2 DEF SweepInv
  <2>4. /\ obj'[e[1]].st = "freed" \/ (obj' = obj /\ e[1] \in leaked')
        /\ obj'[e[1]].zombieQueued = obj[e[1]].zombieQueued
        /\ obj'[e[1]].detached = obj[e[1]].detached
        /\ \A u \in Threads \ {e[1]} : obj'[u] = obj[u]
    BY <1>t, <2>1, <2>3, SetGone
  <2>5. HostInv'
    BY <2>2, <2>3 DEF HostInv
  <2>6. SweepInv'
    <3>1. \A d \in reset'.todo : d \in Threads \X {"live"} /\ d # e /\ Allocated(d[1])
      BY <1>i, <2>2 DEF SweepInv
    <3>2. \A d \in reset'.todo : d[1] \in Threads /\ d[1] # e[1]
      BY <2>3, <3>1
    <3>3. \A d \in reset'.todo : obj'[d[1]].st = "alloc"
      BY <2>4, <3>1, <3>2 DEF Allocated
    <3>4. reset'.coll \cup reset'.todo \subseteq Threads \X {"live"}
      BY <1>i, <2>2 DEF SweepInv
    <3> QED
      BY <2>2, <2>3, <3>3, <3>4 DEF SweepInv, Allocated
  <2>7. \A u \in Threads : Allocated(u)' => u \in leaked' \/ <<u, "live">> \in reset'.todo
    <3>1. ASSUME NEW u \in Threads, Allocated(u)', u # e[1]
          PROVE  u \in leaked' \/ <<u, "live">> \in reset'.todo
      <4>1. Allocated(u)
        BY <2>4, <3>1 DEF Allocated
      <4>2. u \in leaked \/ <<u, "live">> \in reset.todo
        BY <1>k, <2>2, <2>3, <4>1
      <4>3. <<u, "live">> # e /\ leaked \subseteq leaked'
        BY <2>1, <3>1
      <4> QED
        BY <2>2, <4>2, <4>3
    <3>2. ASSUME Allocated(e[1])' PROVE e[1] \in leaked'
      BY <2>4, <3>2 DEF Allocated
    <3> QED
      BY <3>1, <3>2
  <2>8. \A u \in Threads : /\ obj'[u].zombieQueued => obj[u].zombieQueued
                           /\ obj'[u].detached => obj[u].detached
                           /\ obj'[u].st = "alloc" => obj'[u].dead = obj[u].dead /\ obj[u].st = "alloc"
    BY <2>4
  <2> QED
    BY <2>2, <2>5, <2>6, <2>7, <2>8, SweepKeeps
<1>7. ASSUME ResetClear PROVE SessionInv'
  <2>1. /\ MainAt({"idle"}) /\ reset.phase = "reclaim" /\ reset.todo = {} /\ reset'.phase = "release"
        /\ reset'.coll = {} /\ reset'.todo = {}
        /\ UNCHANGED <<obj, call, body, host, live, leaked, zombies, mainThread, fault>>
    BY <1>7, <1>t, <1>i DEF ResetClear, ResetAt, ResetRec, CallerInv
  <2>2. HostInv' /\ SweepInv'
    BY <1>i, <2>1 DEF HostInv, SweepInv, MainAt, BodyDone
  <2> QED
    BY <1>k, <2>1, <2>2, SweepKeeps DEF Allocated
<1>8. ASSUME ResetRelease PROVE SessionInv'
  <2>1. /\ MainAt({"idle"}) /\ reset.phase = "release" /\ reset'.phase = "idle"
        /\ reset'.coll = reset.coll /\ reset'.todo = reset.todo /\ mainThread' = None
        /\ UNCHANGED <<obj, call, body, host, live, leaked, zombies, fault>>
    BY <1>8, <1>t, <1>i DEF ResetRelease, ResetAt, ResetRec, CallerInv
  <2>2. HostInv' /\ SweepInv'
    BY <1>i, <2>1 DEF HostInv, SweepInv
  <2> QED
    BY <1>k, <2>1, <2>2, SweepKeeps DEF Allocated
<1> QED
  BY <1>1, <1>2, <1>3, <1>5, <1>6, <1>7, <1>8 DEF ResetContinue

\* Nobody is about to touch a deleted object.
LEMMA NoUseAfterFree ==
  ASSUME IInv, SessionInv
  PROVE  ~UseAfterFree
<1> USE DEF IInv
<1>t. Main \in Actors /\ \A a \in Actors : a = Main \/ a \in Threads
  BY DEF Actors
<1>i. MineInv /\ ReaperInv /\ BodiesInv /\ CallerInv /\ SweepInv /\ NoDeleteUnderRunningBody
  BY DEF SessionInv, LifeInv
<1>1. ASSUME NEW a \in Actors, NEW t \in CallTouches(a), Freed(t) PROVE FALSE
  <2>1. ~At(a, "r_visit") /\ call[a].victim = None
    BY <1>t, <1>i DEF BodiesInv, CallerInv, ReaperInv, MainAt, MainPlaces, At
  <2>2. call[a].pc \in Touching /\ t = Obj(a)
    BY <1>1, <2>1 DEF CallTouches
  <2>3. CASE a = Main
    BY <1>1, <1>i, <2>2, <2>3 DEF MineInv, MainAt, Mine, Obj, Allocated, Freed
  <2>4. CASE a \in Threads
    BY <1>1, <1>i, <2>2, <2>4 DEF BodiesInv, Touching, NoDeleteUnderRunningBody, Obj
  <2> QED
    BY <1>t, <2>3, <2>4
<1>2. ASSUME NEW t \in ResetTouches, Freed(t) PROVE FALSE
  BY <1>2, <1>i DEF ResetTouches, SweepInv, Allocated, Freed
<1>3. ASSUME NEW t \in Threads, Freed(t), body[t] \notin {"none", "done"} PROVE FALSE
  BY <1>3, <1>i DEF NoDeleteUnderRunningBody
<1> QED
  BY <1>1, <1>2, <1>3 DEF UseAfterFree

\* Nobody meets the caller in the slot table.
LEMMA NoSlotRace ==
  ASSUME IInv, SessionInv
  PROVE  ~SlotRace
<1>t. Main \in Actors /\ \A a \in Actors : a = Main \/ a \in Threads
  BY DEF Actors
<1>1. SlotErasers \cup SlotUsers \subseteq {Main}
  <2>1. \A a \in Threads : call[a].pc \notin {"u_delete", "r_delete", "c_slot", "c_free"}
    BY DEF SessionInv, BodiesInv
  <2> QED
    BY <1>t, <2>1 DEF SlotErasers, SlotUsers
<1>2. Main \in SlotErasers => reset.phase # "reclaim"
  BY DEF SlotErasers, SessionInv, CallerInv, MainAt
<1> QED
  BY <1>1, <1>2 DEF SlotRace

\* A session starts with nothing known of anybody.
LEMMA SessionInit ==
  ASSUME Init
  PROVE  SessionInv
<1>1. \A t \in Threads : obj[t].st = "none" /\ ~obj[t].dead /\ ~obj[t].zombieQueued /\ ~obj[t].detached
  BY DEF Init, Unallocated
<1>2. /\ \A a \in Actors : call[a].pc = "idle" /\ call[a].batch = {} /\ call[a].victim = None
      /\ call[Main].pc = "idle" /\ call[Main].mode = "none"
  BY DEF Init, Idle, Actors
<1>3. \A t \in Threads : body[t] = "none" /\ call[t].pc = "idle"
  BY <1>2 DEF Init, Actors
<1>4. NoUndefinedBehaviour /\ BodiesInv /\ ReaperInv
  BY <1>1, <1>2, <1>3 DEF Init, NoUndefinedBehaviour, BodiesInv, ReaperInv
<1>5. CallerInv /\ MineInv
  BY <1>2 DEF CallerInv, MineInv, MainAt, MainPlaces, Touching, Registered, Private
<1>6. KeptInv
  BY <1>1 DEF KeptInv, Allocated
<1>7. HostInv /\ SweepInv
  BY DEF Init, HostInv, SweepInv
<1> QED
  BY <1>4, <1>5, <1>6, <1>7 DEF SessionInv

\* Main gets to nowhere but these places.
LEMMA ContinueSession ==
  ASSUME IInv, SessionInv, Continue(Main)
  PROVE  SessionInv'
<1>0. MainAt(MainPlaces)
  BY DEF SessionInv, CallerInv
<1>1. CASE UseEnd(Main) \/ AttrGetLock(Main) \/ ExitLock(Main)
  <2>1. MainAt(PcNames \ {"idle"})
    BY <1>0, <1>1 DEF UseEnd, UseSub, UseZombie, UseDone, UseLive, UseDead, UseDelete, Unlock,
      AttrGetLock, ExitLock, At, MainAt, PcNames, Touching
  <2> QED
    BY <1>1, <2>1, QuietSession, GoneSession DEF UseEnd
<1>2. CASE CreateContinue(Main)
  <2>1. MainAt(PcNames \ {"idle"})
    BY <1>0, <1>2 DEF CreateContinue, CreateSlot, CreateInsert, CreateTcb, CreateUndo, CreateFree,
      CreateStart, CreateAssign, CreateLog, At, MainAt, PcNames, Touching
  <2> QED
    BY <1>2, <2>1, QuietSession, CreateSession, GoneSession DEF CreateContinue
<1>3. CASE Reap(Main)
  <2>1. ReapSwap(Main) /\ MainAt(PcNames \ {"idle"})
    BY <1>0, <1>3 DEF Reap, ReapSwap, ReapVisit, ReapDelete, ReapBack, At, MainAt, MainPlaces, PcNames
  <2> QED
    BY <2>1, QuietSession
<1>4. CASE JoinContinue(Main)
  <2>1. MainAt(PcNames \ {"idle"})
    BY <1>0, <1>4 DEF JoinContinue, JoinSelf, JoinLock, JoinWake, JoinHost, JoinHostWait, JoinErase,
      JoinLog, At, MainAt, PcNames, Touching
  <2> QED
    BY <1>4, <2>1, QuietSession, SelfSession, EraseSession DEF JoinContinue
<1>5. ~DetachContinue(Main)
  BY <1>0 DEF DetachContinue, DetachLock, QueueFlag, QueuePush, At, MainAt, MainPlaces
<1> QED
  BY <1>1, <1>2, <1>3, <1>4, <1>5 DEF Continue

\* With one caller every step keeps the invariant.
LEMMA SessionStep ==
  ASSUME OneCaller, IInv, SessionInv, [Next]_vars
  PROVE  SessionInv'
<1>1. ASSUME NEW a \in Actors, Begin(a) \/ Continue(a)
      PROVE  SessionInv'
  <2>1. CASE a \in Threads
    BY <1>1, <2>1, ThreadSession
  <2>2. CASE a = Main
    BY <1>1, <2>2, BeginSession, SelfSession, ContinueSession DEF Begin
  <2> QED
    BY <2>1, <2>2 DEF Actors
<1>2. ASSUME NEW t \in Threads, BodyReturn(t) \/ BodyEnd(t)
      PROVE  SessionInv'
  BY <1>2, ThreadSession
<1>3. CASE UNCHANGED vars
  <2>1. UNCHANGED <<obj, call, body, host, live, zombies, leaked, mainThread, reset, fault>>
    BY <1>3 DEF vars, threads, registry, session, history
  <2>2. KeepsMarks /\ BodiesInv'
    BY <2>1 DEF KeepsMarks, SessionInv, BodiesInv
  <2>3. \A u \in Threads : call'[u].batch = {} /\ call'[u].victim = None
    BY <2>1 DEF SessionInv, ReaperInv, Actors
  <2>4. \A u \in Threads : obj'[u].m = obj[u].m /\ (BodyDone(u) => BodyDone(u)')
    BY <2>1 DEF BodyDone
  <2>5. call'[Main] = call[Main] /\ UNCHANGED <<host, live, leaked, zombies, mainThread, reset, fault>>
    BY <2>1
  <2> QED
    BY <2>2, <2>3, <2>4, <2>5, ThreadKeeps
<1> QED
  BY <1>1, <1>2, <1>3, TeardownSession, NoUseAfterFree, NoSlotRace DEF Next

\* With one caller the invariant holds in every reachable state.
LEMMA SessionAlways ==
  ASSUME OneCaller
  PROVE  Spec => [](IInv /\ SessionInv)
<1>1. Init => IInv /\ SessionInv
  BY IInvInit, SessionInit
<1>2. IInv /\ SessionInv /\ [Next]_vars => IInv' /\ SessionInv'
  BY IInvStep, SessionStep
<1> QED
  BY <1>1, <1>2, PTL DEF Spec

\* As long as one thread makes all calls and detaches nobody, over any number
\* of sessions: no step of Create, Join, Exit, AttrGet, of a body or of a
\* teardown touches a deleted object, and no two calls join one host thread.
THEOREM OneCallerIsSafe ==
  ASSUME OneCaller
  PROVE  Spec => []NoUndefinedBehaviour
<1>1. IInv /\ SessionInv => NoUndefinedBehaviour
  BY DEF SessionInv
<1> QED
  BY <1>1, SessionAlways, PTL

\* A Join that goes on to take the handle out of the registry has waited for
\* the end of the body, however the create, the exit and the host thread
\* interleave.
THEOREM JoinIsABarrier ==
  ASSUME OneCaller
  PROVE  Spec => []JoinWaitsForBody
<1>1. IInv /\ SessionInv => JoinWaitsForBody
  BY DEF SessionInv, BodiesInv, MineInv, MainAt, Mine, Obj, JoinWaitsForBody, Actors
<1> QED
  BY <1>1, SessionAlways, PTL

\* When a teardown ends, an object of the session is deleted or on the leak
\* list: ResetForSession forgets none.
THEOREM TeardownIsComplete ==
  ASSUME OneCaller
  PROVE  Spec => []NothingSurvivesReset
<1>1. ASSUME IInv, SessionInv PROVE NothingSurvivesReset
  <2>1. ASSUME reset.phase = "release", NEW t \in Threads, Allocated(t) PROVE t \in leaked
    <3>1. MainAt({"idle"}) /\ live = {}
      BY <1>1, <2>1 DEF SessionInv, CallerInv, SweepInv
    <3> QED
      BY <1>1, <2>1, <3>1 DEF SessionInv, KeptInv, MainAt, Private
  <2> QED
    BY <2>1 DEF NothingSurvivesReset
<1>2. IInv /\ SessionInv => NothingSurvivesReset
  BY <1>1
<1> QED
  BY <1>2, SessionAlways, PTL

-----------------------------------------------------------------------------
(* The mutex of a thread, and why a teardown cannot get stuck on it.        *)

\* The rest of a call once it has done what the guest asked for.
Unwinding == {"u_sub", "unlock"} \cup Ending

\* t->m is held over several steps only by a call that is about to release
\* it, and a call that releases it holds it.
MutexesHeld ==
  /\ \A t \in Threads : obj[t].m # None =>
       /\ obj[t].m \in Actors
       /\ Obj(obj[t].m) = t /\ call[obj[t].m].pc \in Unwinding
  /\ \A a \in Actors : call[a].pc = "unlock" => Obj(a) \in Threads /\ obj[Obj(a)].m = a

\* Nobody has locked what does not exist.
MutexInv == MutexesHeld /\ \A t \in Threads : obj[t].st = "none" => obj[t].m = None

\* The assignments that leave the mutex alone.
UnlockedFrom(q, r, n) ==
  \/ q = r
  \/ q = [r EXCEPT !.uses = n]
  \/ q = [r EXCEPT !.zombieQueued = TRUE]
  \/ q = [r EXCEPT !.dead = TRUE]
  \/ q = [r EXCEPT !.detached = TRUE]
  \/ q = [r EXCEPT !.exited = TRUE]
  \/ q = [r EXCEPT !.sessionDead = TRUE]
  \/ FreedFrom(q, r)

\* No mutex changes hands and no object is unmade.
KeepsMutexes ==
  \A u \in Threads : /\ obj'[u].m = obj[u].m
                     /\ obj'[u].st = "none" => obj[u].st = "none"

\* What these assignments keep.
LEMMA UnlockedEffect ==
  ASSUME NEW r \in ObjRec, NEW q, NEW n, UnlockedFrom(q, r, n)
  PROVE  q.m = r.m /\ (q.st = "none" => r.st = "none")
BY DEF ObjRec, UnlockedFrom, FreedFrom

\* The same for an object in its place.
LEMMA MutexesKept ==
  ASSUME obj \in [Threads -> ObjRec], NEW t, NEW n,
         \A u \in Threads \ {t} : obj'[u] = obj[u],
         t \in Threads => UnlockedFrom(obj'[t], obj[t], n)
  PROVE  KeepsMutexes
<1> SUFFICES ASSUME NEW u \in Threads
             PROVE  obj'[u].m = obj[u].m /\ (obj'[u].st = "none" => obj[u].st = "none")
  BY DEF KeepsMutexes
<1>1. CASE u # t
  BY <1>1
<1>2. CASE u = t
  <2>1. obj[u] \in ObjRec /\ UnlockedFrom(obj'[u], obj[u], n)
    BY <1>2
  <2> QED
    BY <2>1, UnlockedEffect, Zenon
<1> QED
  BY <1>1, <1>2

\* A new object is unlocked.
LEMMA NewMutex ==
  ASSUME obj \in [Threads -> ObjRec], MutexInv, NEW t \in Threads, NEW s, NEW d,
         obj[t].st = "none", obj' = [obj EXCEPT ![t] = NewThread(s, d)]
  PROVE  KeepsMutexes
<1>1. obj'[t] = NewThread(s, d) /\ \A u \in Threads \ {t} : obj'[u] = obj[u]
  OBVIOUS
<1>2. obj'[t].m = None /\ obj[t].m = None
  BY <1>1 DEF NewThread, Unallocated, MutexInv
<1> QED
  BY <1>1, <1>2 DEF KeepsMutexes

\* Main's object is made unlocked.
LEMMA MainMutex ==
  ASSUME obj \in [Threads -> ObjRec], MutexInv, NEW a, MaterializeMain(a)
  PROVE  KeepsMutexes
<1>1. CASE UNCHANGED obj
  BY <1>1 DEF KeepsMutexes
<1>2. CASE \E t \in Threads : obj[t].st = "none" /\ obj' = [obj EXCEPT ![t] = NewThread(None, FALSE)]
  BY <1>2, NewMutex
<1> QED
  BY <1>1, <1>2 DEF MaterializeMain

\* A step that is not a call's keeps the invariant when it keeps the mutexes.
LEMMA MutexesStay ==
  ASSUME MutexInv, KeepsMutexes, UNCHANGED call
  PROVE  MutexInv'
<1>1. \A t \in Threads : obj'[t].m # None =>
        /\ obj'[t].m \in Actors
        /\ call'[obj'[t].m].t = t /\ call'[obj'[t].m].pc \in Unwinding
  BY DEF MutexInv, MutexesHeld, KeepsMutexes, Obj
<1>2. \A a \in Actors : call'[a].pc = "unlock" => call'[a].t \in Threads /\ obj'[call'[a].t].m = a
  BY DEF MutexInv, MutexesHeld, KeepsMutexes, Obj
<1>3. \A t \in Threads : obj'[t].st = "none" => obj'[t].m = None
  BY DEF MutexInv, KeepsMutexes
<1> QED
  BY <1>1, <1>2, <1>3 DEF MutexInv, MutexesHeld, Obj

\* A call that holds no mutex goes on without one, or takes that of its
\* object on the way to release it.
LEMMA MutexTaken ==
  ASSUME MutexInv, NEW a \in Actors, StepsAlone(a), call[a].pc \notin Unwinding,
         call'[a].pc # "unlock", NEW t,
         \A u \in Threads \ {t} : obj'[u].m = obj[u].m,
         \A u \in Threads : obj'[u].st = "none" => obj[u].st = "none",
         t \in Threads =>
           \/ obj'[t].m = obj[t].m
           \/ obj[t].m = None /\ obj'[t].m = None
           \/ /\ obj[t].m = None /\ obj[t].st # "none"
              /\ obj'[t].m = a /\ call'[a].t = t /\ call'[a].pc \in Unwinding
  PROVE  MutexInv'
<1>0. \A u \in Threads : obj[u].m # a
  <2>1. ASSUME NEW u \in Threads, obj[u].m = a PROVE FALSE
    <3>1. a # None
      BY ConstantsOK
    <3> QED
      BY <2>1, <3>1 DEF MutexInv, MutexesHeld
  <2> QED
    BY <2>1
<1>1. \A u \in Threads : obj'[u].m # None =>
        /\ obj'[u].m \in Actors
        /\ call'[obj'[u].m].t = u /\ call'[obj'[u].m].pc \in Unwinding
  <2> SUFFICES ASSUME NEW u \in Threads, obj'[u].m # None
               PROVE  /\ obj'[u].m \in Actors
                      /\ call'[obj'[u].m].t = u /\ call'[obj'[u].m].pc \in Unwinding
    OBVIOUS
  <2>1. CASE obj'[u].m = obj[u].m
    <3>1. obj[u].m \in Actors \ {a} /\ Obj(obj[u].m) = u /\ call[obj[u].m].pc \in Unwinding
      BY <1>0, <2>1 DEF MutexInv, MutexesHeld
    <3>2. call'[obj[u].m] = call[obj[u].m]
      BY <3>1 DEF StepsAlone
    <3> QED
      BY <2>1, <3>1, <3>2 DEF Obj
  <2>2. CASE obj'[u].m # obj[u].m
    BY <2>2
  <2> QED
    BY <2>1, <2>2
<1>2. ASSUME NEW b \in Actors, call'[b].pc = "unlock"
      PROVE  call'[b].t \in Threads /\ obj'[call'[b].t].m = b
  <2>1. b # a /\ call'[b] = call[b]
    BY <1>2 DEF StepsAlone
  <2>2. call[b].t \in Threads /\ obj[call[b].t].m = b /\ b # None
    BY <1>2, <2>1, ConstantsOK DEF MutexInv, MutexesHeld, Obj
  <2> QED
    BY <2>1, <2>2
<1>3. \A u \in Threads : obj'[u].st = "none" => obj'[u].m = None
  BY DEF MutexInv
<1> QED
  BY <1>1, <1>2, <1>3 DEF MutexInv, MutexesHeld, Obj

\* As long as it takes none.
LEMMA MutexFree ==
  ASSUME MutexInv, NEW a \in Actors, StepsAlone(a), call[a].pc \notin Unwinding,
         call'[a].pc # "unlock", KeepsMutexes
  PROVE  MutexInv'
BY MutexTaken DEF KeepsMutexes

\* A call on its way out keeps what it holds and releases it at the end.
LEMMA MutexUnwound ==
  ASSUME call \in [Actors -> CallRec], MutexInv, NEW a \in Actors, KeepsMutexes,
         call[a].pc \in Unwinding \ {"unlock"}, Obj(a) \in Threads,
         Leave(a) \/ \E p \in Ending : Goto(a, p)
  PROVE  MutexInv'
<1>1. StepsAlone(a)
  BY LeaveEffect, GotoEffect DEF Ending, PcNames, Touching
<1>2. \/ call'[a].t = call[a].t /\ call'[a].pc \in Unwinding
         /\ (call'[a].pc = "unlock" => obj[Obj(a)].m = a)
      \/ obj[Obj(a)].m # a /\ call'[a].pc = "idle"
  <2>1. CASE \E p \in Ending : Goto(a, p)
    BY <2>1, GotoEffect DEF Ending, Unwinding, PcNames, Touching
  <2>2. CASE Leave(a) /\ obj[Obj(a)].m = a
    <3>1. Goto(a, "unlock") /\ "unlock" \in PcNames
      BY <2>2 DEF Leave, PcNames, Touching
    <3> QED
      BY <2>2, <3>1, GotoEffect DEF Unwinding
  <2>3. CASE Leave(a) /\ obj[Obj(a)].m # a
    BY <2>3, ReturnEffect DEF Leave
  <2> QED
    BY <2>1, <2>2, <2>3
<1>3. ASSUME NEW u \in Threads, obj'[u].m # None
      PROVE  /\ obj'[u].m \in Actors
             /\ call'[obj'[u].m].t = u /\ call'[obj'[u].m].pc \in Unwinding
  <2>1. obj[u].m = obj'[u].m /\ obj[u].m \in Actors /\ call[obj[u].m].t = u /\ call[obj[u].m].pc \in Unwinding
    BY <1>3 DEF KeepsMutexes, MutexInv, MutexesHeld, Obj
  <2>2. CASE obj[u].m = a
    BY <1>2, <2>1, <2>2 DEF Obj
  <2>3. CASE obj[u].m # a
    BY <1>1, <2>1, <2>3 DEF StepsAlone
  <2> QED
    BY <2>2, <2>3
<1>4. ASSUME NEW b \in Actors, call'[b].pc = "unlock"
      PROVE  call'[b].t \in Threads /\ obj'[call'[b].t].m = b
  <2>1. CASE b = a
    BY <1>2, <1>4, <2>1 DEF KeepsMutexes, Obj
  <2>2. CASE b # a
    <3>1. call'[b] = call[b]
      BY <1>1, <2>2 DEF StepsAlone
    <3> QED
      BY <1>4, <3>1 DEF KeepsMutexes, MutexInv, MutexesHeld, Obj
  <2> QED
    BY <2>1, <2>2
<1>5. \A u \in Threads : obj'[u].st = "none" => obj'[u].m = None
  BY DEF MutexInv, KeepsMutexes
<1> QED
  BY <1>3, <1>4, <1>5 DEF MutexInv, MutexesHeld, Obj

\* The steps of Create, Join, Detach, AttrGet and Exit that take no mutex for
\* longer than the step.
LEMMA FreeMoves ==
  ASSUME TypeOK, MutexInv, NEW a \in Actors,
         \/ CreateInsert(a) \/ CreateTcb(a) \/ CreateUndo(a) \/ CreateStart(a)
         \/ CreateAssign(a) \/ CreateLog(a) \/ CreateFree(a) \/ JoinHostWait(a)
         \/ JoinErase(a) \/ JoinLog(a) \/ QueueFlag(a) \/ QueuePush(a)
         \/ AttrGetLock(a) \/ ExitLock(a)
  PROVE  MutexInv'
<1> USE DEF RestUnchanged
<1>c. call \in [Actors -> CallRec] /\ obj \in [Threads -> ObjRec]
  BY DEF TypeOK
<1>1. CASE CreateInsert(a)
  <2>1. call[a].pc = "c_insert" /\ call[a].pc \notin Unwinding
    BY <1>1 DEF CreateInsert, At, Unwinding, Ending
  <2>2. StepsAlone(a) /\ call'[a].pc # "unlock"
    <3>1. Goto(a, "c_tcb")
      BY <1>1 DEF CreateInsert
    <3> QED
      BY <3>1, <1>c, GotoEffect DEF PcNames, Touching
  <2>3. KeepsMutexes
    BY <1>1 DEF CreateInsert, KeepsMutexes
  <2> QED
    BY <2>1, <2>2, <2>3, MutexFree
<1>2. CASE CreateTcb(a)
  <2>1. call[a].pc = "c_tcb" /\ call[a].pc \notin Unwinding
    BY <1>2 DEF CreateTcb, At, Unwinding, Ending
  <2>2. StepsAlone(a) /\ call'[a].pc # "unlock"
    <3>1. Goto(a, "c_undo") \/ Goto(a, "c_start")
      BY <1>2 DEF CreateTcb
    <3> QED
      BY <3>1, <1>c, GotoEffect DEF PcNames, Touching
  <2>3. KeepsMutexes
    BY <1>2 DEF CreateTcb, KeepsMutexes
  <2> QED
    BY <2>1, <2>2, <2>3, MutexFree
<1>3. CASE CreateUndo(a)
  <2>1. call[a].pc = "c_undo" /\ call[a].pc \notin Unwinding
    BY <1>3 DEF CreateUndo, At, Unwinding, Ending
  <2>2. StepsAlone(a) /\ call'[a].pc # "unlock"
    <3>1. Goto(a, "c_free")
      BY <1>3 DEF CreateUndo
    <3> QED
      BY <3>1, <1>c, GotoEffect DEF PcNames, Touching
  <2>3. KeepsMutexes
    BY <1>3 DEF CreateUndo, KeepsMutexes
  <2> QED
    BY <2>1, <2>2, <2>3, MutexFree
<1>4. CASE CreateStart(a)
  <2>1. call[a].pc = "c_start" /\ call[a].pc \notin Unwinding
    BY <1>4 DEF CreateStart, At, Unwinding, Ending
  <2>2. StepsAlone(a) /\ call'[a].pc # "unlock"
    <3>1. Goto(a, "c_assign")
      BY <1>4 DEF CreateStart
    <3> QED
      BY <3>1, <1>c, GotoEffect DEF PcNames, Touching
  <2>3. KeepsMutexes
    BY <1>4 DEF CreateStart, KeepsMutexes
  <2> QED
    BY <2>1, <2>2, <2>3, MutexFree
<1>5. CASE CreateAssign(a)
  <2>1. call[a].pc = "c_assign" /\ call[a].pc \notin Unwinding
    BY <1>5 DEF CreateAssign, At, Unwinding, Ending
  <2>2. StepsAlone(a) /\ call'[a].pc # "unlock"
    <3>1. Goto(a, "r_swap")
      BY <1>5 DEF CreateAssign
    <3> QED
      BY <3>1, <1>c, GotoEffect DEF PcNames, Touching
  <2>3. KeepsMutexes
    BY <1>5 DEF CreateAssign, KeepsMutexes
  <2> QED
    BY <2>1, <2>2, <2>3, MutexFree
<1>6. CASE CreateLog(a)
  <2>1. call[a].pc = "c_log" /\ call[a].pc \notin Unwinding
    BY <1>6 DEF CreateLog, At, Unwinding, Ending
  <2>2. StepsAlone(a) /\ call'[a].pc # "unlock"
    BY <1>6, <1>c, ReturnEffect DEF CreateLog
  <2>3. KeepsMutexes
    BY <1>6 DEF CreateLog, KeepsMutexes
  <2> QED
    BY <2>1, <2>2, <2>3, MutexFree
<1>7. CASE CreateFree(a)
  <2>1. call[a].pc = "c_free" /\ call[a].pc \notin Unwinding
    BY <1>7 DEF CreateFree, At, Unwinding, Ending
  <2>2. StepsAlone(a) /\ call'[a].pc # "unlock"
    BY <1>7, <1>c, ReturnEffect DEF CreateFree
  <2>3. KeepsMutexes
    <3>1. obj' = [obj EXCEPT ![Obj(a)].st = "freed", ![Obj(a)].slot = None, ![Obj(a)].dead = TRUE]
      BY <1>7 DEF CreateFree
    <3>2. \A u \in Threads \ {Obj(a)} : obj'[u] = obj[u]
      BY <1>c, <3>1
    <3>3. Obj(a) \in Threads => obj'[Obj(a)] = [obj[Obj(a)] EXCEPT !.st = "freed", !.slot = None, !.dead = TRUE]
      BY <1>c, <3>1
    <3>4. Obj(a) \in Threads => UnlockedFrom(obj'[Obj(a)], obj[Obj(a)], 0)
      BY <3>3 DEF UnlockedFrom, FreedFrom
    <3> QED
      BY <1>c, <3>2, <3>4, MutexesKept
  <2> QED
    BY <2>1, <2>2, <2>3, MutexFree
<1>8. CASE JoinHostWait(a)
  <2>1. call[a].pc = "j_hostwait" /\ call[a].pc \notin Unwinding
    BY <1>8 DEF JoinHostWait, At, Unwinding, Ending
  <2>2. StepsAlone(a) /\ call'[a].pc # "unlock"
    <3>1. Goto(a, "j_erase")
      BY <1>8 DEF JoinHostWait
    <3> QED
      BY <3>1, <1>c, GotoEffect DEF PcNames, Touching
  <2>3. KeepsMutexes
    BY <1>8 DEF JoinHostWait, KeepsMutexes
  <2> QED
    BY <2>1, <2>2, <2>3, MutexFree
<1>9. CASE JoinErase(a)
  <2>1. call[a].pc = "j_erase" /\ call[a].pc \notin Unwinding
    BY <1>9 DEF JoinErase, At, Unwinding, Ending
  <2>2. StepsAlone(a) /\ call'[a].pc # "unlock"
    <3>1. Goto(a, "j_log")
      BY <1>9 DEF JoinErase
    <3> QED
      BY <3>1, <1>c, GotoEffect DEF PcNames, Touching
  <2>3. KeepsMutexes
    BY <1>9 DEF JoinErase, KeepsMutexes
  <2> QED
    BY <2>1, <2>2, <2>3, MutexFree
<1>10. CASE JoinLog(a)
  <2>1. call[a].pc = "j_log" /\ call[a].pc \notin Unwinding
    BY <1>10 DEF JoinLog, At, Unwinding, Ending
  <2>2. StepsAlone(a) /\ call'[a].pc # "unlock"
    <3>1. Goto(a, "u_sub")
      BY <1>10 DEF JoinLog
    <3> QED
      BY <3>1, <1>c, GotoEffect DEF PcNames, Touching
  <2>3. KeepsMutexes
    BY <1>10 DEF JoinLog, KeepsMutexes
  <2> QED
    BY <2>1, <2>2, <2>3, MutexFree
<1>11. CASE QueueFlag(a)
  <2>1. call[a].pc = "q_flag" /\ call[a].pc \notin Unwinding
    BY <1>11 DEF QueueFlag, At, Unwinding, Ending
  <2>2. StepsAlone(a) /\ call'[a].pc # "unlock"
    <3>1. Goto(a, "u_sub") \/ Goto(a, "q_push")
      BY <1>11 DEF QueueFlag
    <3> QED
      BY <3>1, <1>c, GotoEffect DEF PcNames, Touching
  <2>3. KeepsMutexes
    <3>1. obj' = [obj EXCEPT ![Obj(a)].zombieQueued = TRUE]
      BY <1>11 DEF QueueFlag
    <3>2. \A u \in Threads \ {Obj(a)} : obj'[u] = obj[u]
      BY <1>c, <3>1
    <3>3. Obj(a) \in Threads => obj'[Obj(a)] = [obj[Obj(a)] EXCEPT !.zombieQueued = TRUE]
      BY <1>c, <3>1
    <3>4. Obj(a) \in Threads => UnlockedFrom(obj'[Obj(a)], obj[Obj(a)], 0)
      BY <3>3 DEF UnlockedFrom
    <3> QED
      BY <1>c, <3>2, <3>4, MutexesKept
  <2> QED
    BY <2>1, <2>2, <2>3, MutexFree
<1>12. CASE QueuePush(a)
  <2>1. call[a].pc = "q_push" /\ call[a].pc \notin Unwinding
    BY <1>12 DEF QueuePush, At, Unwinding, Ending
  <2>2. StepsAlone(a) /\ call'[a].pc # "unlock"
    <3>1. Goto(a, "u_sub")
      BY <1>12 DEF QueuePush
    <3> QED
      BY <3>1, <1>c, GotoEffect DEF PcNames, Touching
  <2>3. KeepsMutexes
    BY <1>12 DEF QueuePush, KeepsMutexes
  <2> QED
    BY <2>1, <2>2, <2>3, MutexFree
<1>13. CASE AttrGetLock(a)
  <2>1. call[a].pc = "g_lock" /\ call[a].pc \notin Unwinding
    BY <1>13 DEF AttrGetLock, At, Unwinding, Ending
  <2>2. StepsAlone(a) /\ call'[a].pc # "unlock"
    <3>1. Goto(a, "u_sub")
      BY <1>13 DEF AttrGetLock
    <3> QED
      BY <3>1, <1>c, GotoEffect DEF PcNames, Touching
  <2>3. KeepsMutexes
    BY <1>13 DEF AttrGetLock, KeepsMutexes
  <2> QED
    BY <2>1, <2>2, <2>3, MutexFree
<1>14. CASE ExitLock(a)
  <2>1. call[a].pc = "e_lock" /\ call[a].pc \notin Unwinding
    BY <1>14 DEF ExitLock, At, Unwinding, Ending
  <2>2. StepsAlone(a) /\ call'[a].pc # "unlock"
    BY <1>14, <1>c, ReturnEffect DEF ExitLock
  <2>3. KeepsMutexes
    <3>1. obj' = [obj EXCEPT ![Obj(a)].exited = TRUE]
      BY <1>14 DEF ExitLock
    <3>2. \A u \in Threads \ {Obj(a)} : obj'[u] = obj[u]
      BY <1>c, <3>1
    <3>3. Obj(a) \in Threads => obj'[Obj(a)] = [obj[Obj(a)] EXCEPT !.exited = TRUE]
      BY <1>c, <3>1
    <3>4. Obj(a) \in Threads => UnlockedFrom(obj'[Obj(a)], obj[Obj(a)], 0)
      BY <3>3 DEF UnlockedFrom
    <3> QED
      BY <1>c, <3>2, <3>4, MutexesKept
  <2> QED
    BY <2>1, <2>2, <2>3, MutexFree
<1> QED
  BY <1>1, <1>2, <1>3, <1>4, <1>5, <1>6, <1>7, <1>8, <1>9, <1>10, <1>11, <1>12, <1>13, <1>14

\* A call that begins holds nothing, and the use it counts locks nothing.
LEMMA MutexBegins ==
  ASSUME TypeOK, MutexInv, NEW a \in Actors, Begin(a)
  PROVE  MutexInv'
<1> USE DEF RestUnchanged
<1>c. call \in [Actors -> CallRec] /\ obj \in [Threads -> ObjRec]
  BY DEF TypeOK
<1>0. "idle" \notin Unwinding
  BY DEF Unwinding, Ending
<1>1. CASE SelfCall(a)
  <2>1. KeepsMutexes
    BY <1>1, <1>c, MainMutex DEF SelfCall
  <2> QED
    BY <1>1, <2>1, MutexesStay DEF SelfCall
<1>2. CASE CreateBegin(a)
  <2>1. PICK mode : CreateCheck(a, mode)
    BY <1>2 DEF CreateBegin
  <2>2. call[a].pc = "idle" /\ UNCHANGED obj
    BY <2>1 DEF CreateCheck, CanCall, At
  <2>3. StepsAlone(a) /\ call'[a].pc = "c_slot"
    BY <1>c, <2>1 DEF CreateCheck, StepsAlone, Idle
  <2>4. KeepsMutexes
    BY <2>2 DEF KeepsMutexes
  <2> QED
    BY <1>0, <2>2, <2>3, <2>4, MutexFree
<1>3. ASSUME NEW t, NEW p \in {"j_self", "d_lock", "g_lock"}, NEW mode,
             At(a, "idle"), UseBegin(a, t, p, mode)
      PROVE  MutexInv'
  <2>1. call[a].pc = "idle" /\ obj' = [obj EXCEPT ![t].uses = @ + 1]
    BY <1>3 DEF At, UseBegin
  <2>2. StepsAlone(a) /\ call'[a].pc = p
    BY <1>c, <1>3 DEF UseBegin, StepsAlone, Idle
  <2>3. KeepsMutexes
    <3>1. \A u \in Threads \ {t} : obj'[u] = obj[u]
      BY <1>c, <2>1
    <3>2. t \in Threads => obj'[t] = [obj[t] EXCEPT !.uses = obj[t].uses + 1]
      BY <1>c, <2>1
    <3>3. t \in Threads => UnlockedFrom(obj'[t], obj[t], obj[t].uses + 1)
      BY <3>2 DEF UnlockedFrom
    <3> QED
      BY <1>c, <3>1, <3>3, MutexesKept
  <2>4. call'[a].pc # "unlock"
    BY <2>2
  <2> QED
    BY <1>0, <2>1, <2>2, <2>3, <2>4, MutexFree
<1>4. CASE JoinBegin(a) \/ DetachBegin(a) \/ AttrGetBegin(a)
  BY <1>3, <1>4 DEF JoinBegin, DetachBegin, AttrGetBegin, CanCall
<1>5. CASE ExitBegin(a)
  <2>1. call[a].pc = "idle" /\ MaterializeMain(a)
    BY <1>5 DEF ExitBegin, CanCall, At
  <2>2. StepsAlone(a) /\ call'[a].pc = "e_lock"
    <3>1. \E t : call' = [call EXCEPT ![a] = [Idle EXCEPT !.pc = "e_lock", !.t = t]]
      BY <1>5 DEF ExitBegin
    <3> QED
      BY <1>c, <3>1 DEF StepsAlone, Idle
  <2>3. KeepsMutexes
    BY <1>c, <2>1, MainMutex
  <2> QED
    BY <1>0, <2>1, <2>2, <2>3, MutexFree
<1> QED
  BY <1>1, <1>2, <1>4, <1>5 DEF Begin

\* The reaper, the slot and the own handle: objects are made and freed, but
\* nothing is locked.
LEMMA MutexMakers ==
  ASSUME TypeOK, MutexInv, NEW a \in Actors,
         CreateSlot(a) \/ JoinSelf(a) \/ JoinHost(a) \/ Reap(a)
  PROVE  MutexInv'
<1> USE DEF RestUnchanged
<1>c. call \in [Actors -> CallRec] /\ obj \in [Threads -> ObjRec]
  BY DEF TypeOK
<1>1. CASE CreateSlot(a)
  <2>1. call[a].pc = "c_slot" /\ call[a].pc \notin Unwinding
    BY <1>1 DEF CreateSlot, At, Unwinding, Ending
  <2>2. CASE Return(a) /\ UNCHANGED obj
    <3>1. StepsAlone(a) /\ call'[a].pc # "unlock"
      BY <1>c, <2>2, ReturnEffect
    <3>2. KeepsMutexes
      BY <2>2 DEF KeepsMutexes
    <3> QED
      BY <2>1, <3>1, <3>2, MutexFree
  <2>3. CASE \E s \in FreeSlots, t \in Threads :
               /\ obj[t].st = "none"
               /\ obj' = [obj EXCEPT ![t] = NewThread(s, call[a].mode = "createDetached")]
               /\ call' = [call EXCEPT ![a].pc = "c_insert", ![a].t = t]
    <3>1. PICK s \in FreeSlots, t \in Threads :
               /\ obj[t].st = "none"
               /\ obj' = [obj EXCEPT ![t] = NewThread(s, call[a].mode = "createDetached")]
               /\ call' = [call EXCEPT ![a].pc = "c_insert", ![a].t = t]
      BY <2>3
    <3>2. StepsAlone(a) /\ call'[a].pc = "c_insert"
      BY <1>c, <3>1 DEF StepsAlone, CallRec
    <3>3. KeepsMutexes
      BY <1>c, <3>1, NewMutex
    <3> QED
      BY <2>1, <3>2, <3>3, MutexFree
  <2> QED
    BY <1>1, <2>2, <2>3 DEF CreateSlot
<1>2. CASE JoinSelf(a)
  <2>1. call[a].pc = "j_self" /\ call[a].pc \notin Unwinding /\ MaterializeMain(a)
    BY <1>2 DEF JoinSelf, At, Unwinding, Ending
  <2>2. StepsAlone(a) /\ call'[a].pc # "unlock"
    <3>1. Goto(a, "u_sub") \/ Goto(a, "j_lock")
      BY <1>2 DEF JoinSelf
    <3> QED
      BY <1>c, <3>1, GotoEffect DEF PcNames, Touching
  <2>3. KeepsMutexes
    BY <1>c, <2>1, MainMutex
  <2> QED
    BY <2>1, <2>2, <2>3, MutexFree
<1>3. CASE JoinHost(a)
  <2>1. call[a].pc = "j_host" /\ call[a].pc \notin Unwinding /\ UNCHANGED obj
    BY <1>3 DEF JoinHost, At, Unwinding, Ending
  <2>2. KeepsMutexes
    BY <2>1 DEF KeepsMutexes
  <2>3. CASE UNCHANGED call
    BY <2>2, <2>3, MutexesStay
  <2>4. CASE Goto(a, "j_erase") \/ Goto(a, "j_hostwait")
    <3>1. StepsAlone(a) /\ call'[a].pc # "unlock"
      BY <1>c, <2>4, GotoEffect DEF PcNames, Touching
    <3> QED
      BY <2>1, <2>2, <3>1, MutexFree
  <2> QED
    BY <1>3, <2>3, <2>4 DEF JoinHost
<1>4. CASE ReapSwap(a) \/ ReapBack(a)
  <2>1. call[a].pc \notin Unwinding /\ UNCHANGED obj
    BY <1>4 DEF ReapSwap, ReapBack, At, Unwinding, Ending
  <2>2. StepsAlone(a) /\ call'[a].pc \in {"c_log", "r_visit"}
    BY <1>4, <1>c DEF ReapSwap, ReapBack, StepsAlone, CallRec
  <2>3. KeepsMutexes
    BY <2>1 DEF KeepsMutexes
  <2> QED
    BY <2>1, <2>2, <2>3, MutexFree
<1>5. CASE ReapVisit(a)
  <2>1. call[a].pc \notin Unwinding
    BY <1>5 DEF ReapVisit, At, Unwinding, Ending
  <2>2. PICK t \in call[a].batch :
          IF Reapable(t)
          THEN /\ obj' = [obj EXCEPT ![t].dead = TRUE]
               /\ call' = [call EXCEPT ![a].batch = @ \ {t}, ![a].victim = t,
                                       ![a].pc = "r_delete"]
          ELSE /\ UNCHANGED obj
               /\ call' = [call EXCEPT
                             ![a].batch = @ \ {t}, ![a].keep = @ \cup {t},
                             ![a].pc = IF call[a].batch = {t} THEN "r_back"
                                                              ELSE "r_visit"]
    BY <1>5 DEF ReapVisit
  <2>3. StepsAlone(a) /\ call'[a].pc \in {"r_delete", "r_back", "r_visit"}
    BY <1>c, <2>2 DEF StepsAlone, CallRec
  <2>4. KeepsMutexes
    <3>1. \A u \in Threads \ {t} : obj'[u] = obj[u]
      BY <1>c, <2>2
    <3>2. t \in Threads => obj'[t] = obj[t] \/ obj'[t] = [obj[t] EXCEPT !.dead = TRUE]
      BY <1>c, <2>2
    <3>3. t \in Threads => UnlockedFrom(obj'[t], obj[t], 0)
      BY <3>2 DEF UnlockedFrom
    <3> QED
      BY <1>c, <3>1, <3>3, MutexesKept
  <2> QED
    BY <2>1, <2>3, <2>4, MutexFree
<1>6. CASE ReapDelete(a)
  <2>1. call[a].pc \notin Unwinding
    BY <1>6 DEF ReapDelete, At, Unwinding, Ending
  <2>2. StepsAlone(a) /\ call'[a].pc \in {"r_back", "r_visit"}
    BY <1>6, <1>c DEF ReapDelete, StepsAlone, CallRec
  <2>3. KeepsMutexes
    <3> DEFINE t == call[a].victim
    <3>1. obj' = [obj EXCEPT ![t].st = "freed", ![t].slot = None]
      BY <1>6 DEF ReapDelete, FinishDelete
    <3> HIDE DEF t
    <3>2. \A u \in Threads \ {t} : obj'[u] = obj[u]
      BY <1>c, <3>1
    <3>3. t \in Threads => obj'[t] = [obj[t] EXCEPT !.st = "freed", !.slot = None]
      BY <1>c, <3>1
    <3>4. t \in Threads => UnlockedFrom(obj'[t], obj[t], 0)
      BY <3>3 DEF UnlockedFrom, FreedFrom
    <3> QED
      BY <1>c, <3>2, <3>4, MutexesKept
  <2> QED
    BY <2>1, <2>2, <2>3, MutexFree
<1> QED
  BY <1>1, <1>2, <1>3, <1>4, <1>5, <1>6 DEF Reap

\* What the steps under t->m do to it.
LEMMA TakenEffect ==
  ASSUME NEW r \in ObjRec, NEW q, NEW x,
         \/ q = [r EXCEPT !.m = x]
         \/ q = [r EXCEPT !.joined = TRUE, !.m = x]
  PROVE  q.m = x /\ q.st = r.st
BY DEF ObjRec

\* Join and Detach take the mutex, and keep it when their use ends under it.
LEMMA MutexTakers ==
  ASSUME TypeOK, MutexInv, NEW a \in Actors,
         JoinLock(a) \/ JoinWake(a) \/ DetachLock(a)
  PROVE  MutexInv'
<1> USE DEF RestUnchanged
<1>c. call \in [Actors -> CallRec] /\ obj \in [Threads -> ObjRec]
  BY DEF TypeOK
<1>1. call[a].pc \notin Unwinding
  BY DEF JoinLock, JoinWake, DetachLock, At, Unwinding, Ending
<1>2. CASE \/ UNCHANGED obj /\ Goto(a, "j_wait")
           \/ obj' = [obj EXCEPT ![Obj(a)].detached = TRUE] /\ (Goto(a, "q_flag") \/ Goto(a, "u_sub"))
  <2>1. StepsAlone(a) /\ call'[a].pc # "unlock"
    <3>1. Goto(a, "j_wait") \/ Goto(a, "q_flag") \/ Goto(a, "u_sub")
      BY <1>2
    <3> QED
      BY <3>1, <1>c, GotoEffect DEF PcNames, Touching
  <2>2. KeepsMutexes
    <3>1. \A u \in Threads \ {Obj(a)} : obj'[u] = obj[u]
      BY <1>c, <1>2
    <3>2. Obj(a) \in Threads =>
            obj'[Obj(a)] = obj[Obj(a)] \/ obj'[Obj(a)] = [obj[Obj(a)] EXCEPT !.detached = TRUE]
      BY <1>c, <1>2
    <3>3. Obj(a) \in Threads => UnlockedFrom(obj'[Obj(a)], obj[Obj(a)], 0)
      BY <3>2 DEF UnlockedFrom
    <3> QED
      BY <1>c, <3>1, <3>3, MutexesKept
  <2> QED
    BY <1>1, <2>1, <2>2, MutexFree
<1>3. ASSUME NEW x \in {a, None}, NEW p \in {"u_sub", "j_host"}, Goto(a, p), x = a => p = "u_sub",
             Allocated(Obj(a)), MFree(Obj(a)),
             \/ obj' = [obj EXCEPT ![Obj(a)].m = x]
             \/ obj' = [obj EXCEPT ![Obj(a)].joined = TRUE, ![Obj(a)].m = x]
      PROVE  MutexInv'
  <2>1. StepsAlone(a) /\ call'[a].pc = p /\ call'[a].t = Obj(a)
    BY <1>c, <1>3, GotoEffect DEF PcNames, Touching, Obj
  <2>2. \A u \in Threads \ {Obj(a)} : obj'[u] = obj[u]
    BY <1>c, <1>3
  <2>3. Obj(a) \in Threads => /\ obj[Obj(a)] \in ObjRec
                              /\ \/ obj'[Obj(a)] = [obj[Obj(a)] EXCEPT !.m = x]
                                 \/ obj'[Obj(a)] = [obj[Obj(a)] EXCEPT !.joined = TRUE, !.m = x]
    BY <1>c, <1>3
  <2>4. Obj(a) \in Threads => obj'[Obj(a)].m = x /\ obj'[Obj(a)].st = obj[Obj(a)].st
    BY <2>3, TakenEffect
  <2>5. obj[Obj(a)].m = None /\ obj[Obj(a)].st # "none"
    BY <1>3 DEF Allocated, MFree
  <2>6. call'[a].pc # "unlock" /\ (x = a => call'[a].pc \in Unwinding)
    BY <1>3, <2>1 DEF Unwinding
  <2>7. \A u \in Threads \ {Obj(a)} : obj'[u].m = obj[u].m
    BY <2>2
  <2>8. \A u \in Threads : obj'[u].st = "none" => obj[u].st = "none"
    BY <2>2, <2>4
  <2> QED
    BY <1>1, <1>3, <2>1, <2>4, <2>5, <2>6, <2>7, <2>8, MutexTaken
<1>4. CASE JoinLock(a)
  BY <1>2, <1>3, <1>4 DEF JoinLock
<1>5. CASE JoinWake(a)
  <2>1. CASE obj[Obj(a)].exited /\ ~obj[Obj(a)].detached /\ call[a].mode = "joinBadOut"
    BY <1>3, <1>5, <2>1 DEF JoinWake
  <2>2. CASE obj[Obj(a)].exited /\ ~obj[Obj(a)].detached /\ call[a].mode # "joinBadOut"
    <3>1. a # None
      BY ConstantsOK
    <3> QED
      BY <1>3, <1>5, <2>2, <3>1 DEF JoinWake
  <2>3. CASE ~(obj[Obj(a)].exited /\ ~obj[Obj(a)].detached)
    BY <1>3, <1>5, <2>3 DEF JoinWake
  <2> QED
    BY <2>1, <2>2, <2>3
<1>6. CASE DetachLock(a)
  <2>1. CASE obj[Obj(a)].joined
    BY <1>3, <1>6, <2>1 DEF DetachLock
  <2>2. CASE ~obj[Obj(a)].joined
    BY <1>2, <1>6, <2>2 DEF DetachLock
  <2> QED
    BY <2>1, <2>2
<1> QED
  BY <1>4, <1>5, <1>6

\* UseEnd holds what the call has locked, and the end of the scope unlocks it.
LEMMA MutexUses ==
  ASSUME TypeOK, LifeInv, MutexInv, NEW a \in Actors, UseEnd(a)
  PROVE  MutexInv'
<1> USE DEF RestUnchanged
<1>c. call \in [Actors -> CallRec] /\ obj \in [Threads -> ObjRec]
  BY DEF TypeOK
<1>1. CASE UseSub(a) \/ UseZombie(a) \/ UseDone(a) \/ UseLive(a) \/ UseDead(a) \/ UseDelete(a)
  <2>1. call[a].pc \in Unwinding \ {"unlock"} /\ call[a].pc \in UsePlaces \cup Ending
    BY <1>1
    DEF UseSub, UseZombie, UseDone, UseLive, UseDead, UseDelete, At, Unwinding, Ending, UsePlaces
  <2>2. PICK t \in Threads : t = Obj(a)
    BY <2>1 DEF LifeInv, NamesInv
  <2>3. Leave(a) \/ \E p \in Ending : Goto(a, p)
    BY <1>1 DEF UseSub, UseZombie, UseDone, UseLive, UseDead, UseDelete, Ending
  <2>4. KeepsMutexes
    <3>1. \/ obj' = obj
          \/ obj' = [obj EXCEPT ![t].uses = @ - 1]
          \/ obj' = [obj EXCEPT ![t].dead = TRUE]
          \/ obj' = [obj EXCEPT ![t].st = "freed", ![t].slot = None]
      BY <1>1, <2>2 DEF UseSub, UseZombie, UseDone, UseLive, UseDead, UseDelete, FinishDelete
    <3>2. \A u \in Threads \ {t} : obj'[u] = obj[u]
      BY <1>c, <3>1
    <3>3. \/ obj'[t] = obj[t]
          \/ obj'[t] = [obj[t] EXCEPT !.uses = obj[t].uses - 1]
          \/ obj'[t] = [obj[t] EXCEPT !.dead = TRUE]
          \/ obj'[t] = [obj[t] EXCEPT !.st = "freed", !.slot = None]
      BY <1>c, <3>1
    <3>4. UnlockedFrom(obj'[t], obj[t], obj[t].uses - 1)
      BY <3>3 DEF UnlockedFrom, FreedFrom
    <3> QED
      BY <1>c, <3>2, <3>4, MutexesKept
  <2> QED
    BY <1>c, <2>1, <2>2, <2>3, <2>4, MutexUnwound
<1>2. CASE Unlock(a)
  <2>1. /\ call[a].pc = "unlock" /\ Return(a) /\ Allocated(Obj(a))
        /\ obj' = [obj EXCEPT ![Obj(a)].m = None]
    BY <1>2 DEF Unlock, At
  <2>2. PICK t \in Threads : t = Obj(a)
    BY <2>1 DEF MutexInv, MutexesHeld
  <2>3. StepsAlone(a) /\ call'[a].pc = "idle"
    BY <1>c, <2>1, ReturnEffect
  <2>4. obj'[t].m = None /\ obj'[t].st = obj[t].st /\ \A u \in Threads \ {t} : obj'[u] = obj[u]
    <3>1. obj'[t] = [obj[t] EXCEPT !.m = None] /\ obj[t] \in ObjRec
      BY <1>c, <2>1, <2>2
    <3>2. obj'[t].m = None /\ obj'[t].st = obj[t].st
      BY <3>1, TakenEffect
    <3> QED
      BY <1>c, <2>1, <2>2, <3>2
  <2>5. ASSUME NEW u \in Threads, obj'[u].m # None
        PROVE  /\ obj'[u].m \in Actors
               /\ call'[obj'[u].m].t = u /\ call'[obj'[u].m].pc \in Unwinding
    <3>1. u # t /\ obj'[u].m = obj[u].m
      BY <2>4, <2>5
    <3>2. obj[u].m \in Actors /\ call[obj[u].m].t = u /\ call[obj[u].m].pc \in Unwinding
      BY <2>5, <3>1 DEF MutexInv, MutexesHeld, Obj
    <3>3. obj[u].m # a
      BY <2>2, <3>1, <3>2 DEF Obj
    <3> QED
      BY <2>3, <3>1, <3>2, <3>3 DEF StepsAlone
  <2>6. ASSUME NEW b \in Actors, call'[b].pc = "unlock"
        PROVE  call'[b].t \in Threads /\ obj'[call'[b].t].m = b
    <3>1. b # a /\ call'[b] = call[b]
      BY <2>3, <2>6 DEF StepsAlone
    <3>2. call[b].t \in Threads /\ obj[call[b].t].m = b
      BY <2>6, <3>1 DEF MutexInv, MutexesHeld, Obj
    <3>3. obj[t].m = a
      BY <2>1, <2>2 DEF MutexInv, MutexesHeld
    <3> QED
      BY <2>4, <3>1, <3>2, <3>3
  <2>7. \A u \in Threads : obj'[u].st = "none" => obj'[u].m = None
    BY <2>4 DEF MutexInv
  <2> QED
    BY <2>5, <2>6, <2>7 DEF MutexInv, MutexesHeld, Obj
<1> QED
  BY <1>1, <1>2 DEF UseEnd

\* The bodies and the teardown take no mutex for longer than a step.
LEMMA MutexOthers ==
  ASSUME TypeOK, MutexInv,
         \/ \E t \in Threads : BodyReturn(t) \/ BodyEnd(t)
         \/ ResetBegin \/ ResetContinue \/ UseAfterFree \/ SlotRace \/ UNCHANGED vars
  PROVE  MutexInv'
<1>c. obj \in [Threads -> ObjRec] /\ reset \in ResetRec
  BY DEF TypeOK
<1>1. UNCHANGED call
  BY DEF BodyReturn, BodyEnd, BodyFlag, BodyPush, BodyLast, ResetBegin, ResetContinue, ResetZombies,
     ResetLive, ResetWake, ResetNext, ResetGrace, ResetReclaim, ResetClear, ResetRelease,
     UseAfterFree, SlotRace, vars
<1>2. \/ obj' = obj
      \/ \E t : \/ obj' = [obj EXCEPT ![t].exited = TRUE]
                \/ obj' = [obj EXCEPT ![t].zombieQueued = TRUE]
                \/ obj' = [obj EXCEPT ![t].sessionDead = TRUE]
                \/ obj' = [obj EXCEPT ![t].st = "freed", ![t].dead = TRUE, ![t].slot = None]
  <2>1. CASE \E t \in Threads : BodyReturn(t) \/ BodyEnd(t)
    BY <2>1 DEF BodyReturn, BodyEnd, BodyFlag, BodyPush, BodyLast
  <2>2. CASE ResetWake
    BY <2>2 DEF ResetWake, ResetNext
  <2>3. CASE ResetReclaim
    BY <2>3 DEF ResetReclaim
  <2>4. CASE \/ ResetBegin \/ ResetZombies \/ ResetLive \/ ResetGrace \/ ResetClear \/ ResetRelease
             \/ UseAfterFree \/ SlotRace \/ UNCHANGED vars
    BY <2>4 DEF ResetBegin, ResetZombies, ResetLive, ResetGrace, ResetNext, ResetClear, ResetRelease,
       UseAfterFree, SlotRace, vars
  <2> QED
    BY <2>1, <2>2, <2>3, <2>4 DEF ResetContinue
<1>3. PICK t :
      /\ \A u \in Threads \ {t} : obj'[u] = obj[u]
      /\ t \in Threads => \/ obj'[t] = obj[t]
                          \/ obj'[t] = [obj[t] EXCEPT !.exited = TRUE]
                          \/ obj'[t] = [obj[t] EXCEPT !.zombieQueued = TRUE]
                          \/ obj'[t] = [obj[t] EXCEPT !.sessionDead = TRUE]
                          \/ obj'[t] = [obj[t] EXCEPT !.st = "freed", !.dead = TRUE, !.slot = None]
  BY <1>c, <1>2
<1>4. t \in Threads => UnlockedFrom(obj'[t], obj[t], 0)
  BY <1>3 DEF UnlockedFrom, FreedFrom
<1>5. KeepsMutexes
  BY <1>c, <1>3, <1>4, MutexesKept
<1> QED
  BY <1>1, <1>5, MutexesStay

\* Every step keeps it.
LEMMA MutexStep ==
  ASSUME IInv, MutexInv, [Next]_vars
  PROVE  MutexInv'
<1>0. TypeOK /\ LifeInv
  BY DEF IInv
<1>1. ASSUME NEW a \in Actors, Continue(a) PROVE MutexInv'
  <2>1. CASE UseEnd(a)
    BY <1>0, <2>1, MutexUses
  <2>2. CASE CreateContinue(a)
    BY <1>0, <2>2, FreeMoves, MutexMakers DEF CreateContinue
  <2>3. CASE Reap(a)
    BY <1>0, <2>3, MutexMakers
  <2>4. CASE JoinContinue(a)
    BY <1>0, <2>4, FreeMoves, MutexMakers, MutexTakers DEF JoinContinue
  <2>5. CASE DetachContinue(a)
    BY <1>0, <2>5, FreeMoves, MutexTakers DEF DetachContinue
  <2>6. CASE AttrGetLock(a) \/ ExitLock(a)
    BY <1>0, <2>6, FreeMoves
  <2> QED
    BY <1>1, <2>1, <2>2, <2>3, <2>4, <2>5, <2>6 DEF Continue
<1>2. ASSUME NEW a \in Actors, Begin(a) PROVE MutexInv'
  BY <1>0, <1>2, MutexBegins
<1> QED
  BY <1>0, <1>1, <1>2, MutexOthers DEF Next

\* No thread's mutex is ever left locked: whoever holds it over several steps
\* is in the UseEnd at the end of a Join or Detach, on the way to unlocking it.
THEOREM NoMutexIsAbandoned == Spec => []MutexesHeld
<1>1. Init => IInv /\ MutexInv
  <2>1. Init => MutexInv
    BY DEF Init, MutexInv, MutexesHeld, Unallocated, Idle
  <2> QED
    BY <2>1, IInvInit
<1>2. IInv /\ MutexInv /\ [Next]_vars => IInv' /\ MutexInv'
  BY IInvStep, MutexStep
<1>3. MutexInv => MutexesHeld
  BY DEF MutexInv
<1> QED
  BY <1>1, <1>2, <1>3, PTL DEF Spec

\* The next step of a call on its way out is possible: it finds its object,
\* g_regMutex free, and the host thread it joins at its end.
CanUnwind(a) ==
  /\ call[a].pc \in Unwinding
  /\ call[a].pc # "u_live" => Allocated(Obj(a))
  /\ call[a].pc = "u_live" => RegFree
  /\ call[a].pc = "u_delete" /\ host[Obj(a)] = "joinable" => BodyDone(Obj(a))

\* The loops of a teardown over what it has collected.
Sweeping == {"wake", "grace", "reclaim"}

\* The next object of such a loop exists, and so does its mutex, which the
\* first loop locks: it is free, or a call is about to release it.  (A deleted
\* object is undefined behaviour, which OneCallerIsSafe is about.)
TeardownCanGoOn ==
  reset.phase \in Sweeping =>
    \A e \in reset.todo :
      \/ Freed(e[1])
      \/ /\ Allocated(e[1])
         /\ reset.phase = "wake" /\ ~MFree(e[1]) => CanUnwind(obj[e[1]].m)

\* A teardown never waits for what nobody will give it: with the bodies it
\* has collected it waits a bounded time, and no call keeps a mutex from it.
THEOREM TeardownIsNeverStuck == Spec => []TeardownCanGoOn
<1>1. ASSUME IInv, MutexInv PROVE TeardownCanGoOn
  <2> SUFFICES ASSUME reset.phase \in Sweeping, NEW e \in reset.todo, ~Freed(e[1])
               PROVE  /\ Allocated(e[1])
                      /\ reset.phase = "wake" /\ ~MFree(e[1]) => CanUnwind(obj[e[1]].m)
    BY DEF TeardownCanGoOn
  <2>1. e[1] \in Threads
    BY <1>1 DEF IInv, TypeOK, ResetRec
  <2>2. Allocated(e[1])
    <3>1. Listed(e[1])
      BY DEF Listed
    <3>2. obj[e[1]].st # "none"
      BY <1>1, <2>1, <3>1 DEF IInv, LifeInv, FreshInv, Fresh
    <3>3. obj[e[1]].st \in {"none", "alloc", "freed"}
      BY <1>1, <2>1 DEF IInv, TypeOK, ObjRec
    <3> QED
      BY <3>2, <3>3 DEF Allocated, Freed
  <2>3. ASSUME reset.phase = "wake", ~MFree(e[1]) PROVE CanUnwind(obj[e[1]].m)
    <3>1. PICK a \in Actors : a = obj[e[1]].m /\ Obj(a) = e[1] /\ call[a].pc \in Unwinding
      BY <1>1, <2>1, <2>3 DEF MutexInv, MutexesHeld, MFree
    <3>2. call[a].pc = "u_delete" => BodyDone(Obj(a))
      BY <1>1 DEF IInv, LifeInv, CondemnedInv
    <3>3. RegFree
      BY <2>3 DEF RegFree
    <3> QED
      BY <2>2, <3>1, <3>2, <3>3 DEF CanUnwind
  <2> QED
    BY <2>2, <2>3
<1>2. Init => IInv /\ MutexInv
  <2>1. Init => MutexInv
    BY DEF Init, MutexInv, MutexesHeld, Unallocated, Idle
  <2> QED
    BY <2>1, IInvInit
<1>3. IInv /\ MutexInv /\ [Next]_vars => IInv' /\ MutexInv'
  BY IInvStep, MutexStep
<1>4. IInv /\ MutexInv => TeardownCanGoOn
  BY <1>1
<1> QED
  BY <1>2, <1>3, <1>4, PTL DEF Spec

\* The order of ResetForSession.
After == [idle |-> "zombies", zombies |-> "live", live |-> "wake", wake |-> "grace",
          grace |-> "reclaim", reclaim |-> "release", release |-> "idle"]

\* A teardown stays where it is, takes the next object of its loop, or has
\* seen them all and goes on to its next phase, with all objects before it.
Onward ==
  \/ UNCHANGED reset
  \/ /\ reset'.phase = After[reset.phase]
     /\ reset.phase \in Sweeping => reset.todo = {}
     /\ reset.phase \in {"wake", "grace"} => reset'.coll = reset.coll
     /\ reset'.phase \in Sweeping => reset'.todo = reset'.coll
  \/ /\ reset.phase \in Sweeping /\ reset'.phase = reset.phase /\ reset'.coll = reset.coll
     /\ \E e \in reset.todo : reset'.todo = reset.todo \ {e}

\* No step of anybody sets a teardown back or gives it more to do: each loop
\* sees every collected object exactly once.
THEOREM TeardownGoesOn == Spec => [][Onward]_vars
<1>1. ASSUME TypeOK, [Next]_vars PROVE Onward
  <2>c. reset \in ResetRec
    BY <1>1 DEF TypeOK
  <2>1. CASE ResetBegin
    BY <2>c, <2>1 DEF ResetBegin, CanCall, Onward, After, Sweeping, ResetRec
  <2>2. CASE ResetZombies
    BY <2>c, <2>2 DEF ResetZombies, ResetAt, Onward, After, Sweeping, ResetRec
  <2>3. CASE ResetLive
    BY <2>c, <2>3 DEF ResetLive, ResetAt, Onward, After, Sweeping
  <2>4. ASSUME NEW p, NEW q, <<p, q>> \in {<<"wake", "grace">>, <<"grace", "reclaim">>},
               reset.phase = p, ResetNext(q)
        PROVE  Onward
    BY <2>c, <2>4 DEF ResetNext, Onward, After, Sweeping, ResetRec
  <2>5. ASSUME NEW e \in reset.todo, reset.phase \in Sweeping,
               reset' = [reset EXCEPT !.todo = @ \ {e}]
        PROVE  Onward
    BY <2>c, <2>5 DEF Onward, ResetRec
  <2>6. CASE ResetWake
    <3>1. reset.phase = "wake"
      BY <2>6 DEF ResetWake, ResetAt
    <3>2. CASE ResetNext("grace")
      BY <2>4, <3>1, <3>2
    <3>3. CASE \E e \in reset.todo : reset' = [reset EXCEPT !.todo = @ \ {e}]
      BY <2>5, <3>1, <3>3 DEF Sweeping
    <3> QED
      BY <2>6, <3>2, <3>3 DEF ResetWake
  <2>7. CASE ResetGrace
    <3>1. reset.phase = "grace"
      BY <2>7 DEF ResetGrace, ResetAt
    <3>2. CASE ResetNext("reclaim")
      BY <2>4, <3>1, <3>2
    <3>3. CASE \E e \in reset.todo : reset' = [reset EXCEPT !.todo = @ \ {e}]
      BY <2>5, <3>1, <3>3 DEF Sweeping
    <3> QED
      BY <2>7, <3>2, <3>3 DEF ResetGrace
  <2>8. CASE ResetReclaim
    BY <2>5, <2>8 DEF ResetReclaim, ResetAt, Sweeping
  <2>9. CASE ResetClear
    BY <2>c, <2>9 DEF ResetClear, ResetAt, Onward, After, Sweeping, ResetRec
  <2>10. CASE ResetRelease
    BY <2>c, <2>10 DEF ResetRelease, ResetAt, Onward, After, Sweeping, ResetRec
  <2>11. ASSUME NEW a \in Actors, Begin(a) PROVE UNCHANGED reset
    BY <2>11 DEF Begin, SelfCall, CreateBegin, CreateCheck, JoinBegin, DetachBegin, AttrGetBegin,
       UseBegin, ExitBegin, RestUnchanged, session
  <2>12. ASSUME NEW a \in Actors, Continue(a) PROVE UNCHANGED reset
    <3>1. CASE UseEnd(a)
      BY <3>1 DEF UseEnd, UseSub, UseZombie, UseDone, UseLive, UseDead, UseDelete, Unlock,
         RestUnchanged, session
    <3>2. CASE CreateContinue(a) \/ Reap(a)
      BY <3>2 DEF CreateContinue, CreateSlot, CreateInsert, CreateTcb, CreateUndo, CreateFree,
         CreateStart, CreateAssign, CreateLog, Reap, ReapSwap, ReapVisit, ReapDelete, ReapBack,
         RestUnchanged, session
    <3>3. CASE JoinContinue(a)
      BY <3>3 DEF JoinContinue, JoinSelf, JoinLock, JoinWake, JoinHost, JoinHostWait, JoinErase,
         JoinLog, RestUnchanged, session
    <3>4. CASE DetachContinue(a) \/ AttrGetLock(a) \/ ExitLock(a)
      BY <3>4 DEF DetachContinue, DetachLock, QueueFlag, QueuePush, AttrGetLock, ExitLock,
         RestUnchanged, session
    <3> QED
      BY <2>12, <3>1, <3>2, <3>3, <3>4 DEF Continue
  <2>13. ASSUME NEW t \in Threads, BodyReturn(t) \/ BodyEnd(t) PROVE UNCHANGED reset
    BY <2>13 DEF BodyReturn, BodyEnd, BodyFlag, BodyPush, BodyLast, session
  <2>14. UseAfterFree \/ SlotRace \/ UNCHANGED vars => UNCHANGED reset
    BY DEF UseAfterFree, SlotRace, session, vars
  <2>15. UNCHANGED reset => Onward
    BY DEF Onward
  <2>16. ResetContinue => Onward
    BY <2>2, <2>3, <2>6, <2>7, <2>8, <2>9, <2>10 DEF ResetContinue
  <2>17. ASSUME NEW a \in Actors, Begin(a) \/ Continue(a) PROVE Onward
    BY <2>11, <2>12, <2>15, <2>17
  <2> QED
    BY <1>1, <2>1, <2>13, <2>14, <2>15, <2>16, <2>17 DEF Next
<1>2. TypeOK /\ [Next]_vars => [Onward]_vars
  BY <1>1
<1> QED
  BY <1>2, TypeCorrect, PTL DEF Spec

=============================================================================
