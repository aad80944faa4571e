------------------------------ MODULE CxxGuard ------------------------------
(***************************************************************************)
(* The guards of function-local statics: __cxa_guard_acquire, _release and *)
(* _abort (kernel/cxxabi_hle.cpp), their table of entries, and what a      *)
(* session teardown does to it.                                            *)
(*                                                                         *)
(* A guard is an address of the guest; its first byte says the object is   *)
(* constructed.  The entry that serialises its users lives on the host; a  *)
(* table holds at most one entry per guard and session, so an entry is     *)
(* named by both.  A teardown empties the table and keeps the old entries  *)
(* for one more session, for guest code it could not stop; the guest       *)
(* memory then goes away and comes back with fresh bytes.                  *)
(*                                                                         *)
(* What a handler does under the entry's lock is one step, except that an  *)
(* acquirer reads the guard's byte and writes it in two: entries of        *)
(* different sessions have locks of their own and share the byte.          *)
(***************************************************************************)
EXTENDS Naturals

CONSTANTS
  Threads,     \* host threads that run guest code
  Guards,      \* guest addresses of guards
  None,        \* no guard, no entry
  MaxSession   \* how many teardowns happen

Entries == Guards \X (0 .. MaxSession)

ASSUME GuardConstants ==
  /\ MaxSession \in Nat
  /\ None \notin Guards \cup Entries \cup Nat

VARIABLES
  table,        \* g_guards: the session of every guard's entry, or None
  place,        \* unborn, table (g_guards), grave (g_guardsGraveyard), gone
  inUse,        \* GuardEntry::inUse
  done,         \* the first byte of every guard
  loaded,       \* the session the guest memory was loaded for, None while it is away
  call,         \* the call in progress of every thread
  era,          \* the session the guest code of a thread belongs to
  session,      \* how many teardowns have emptied the table
  condemned,    \* the entries the teardown in progress is about to delete
  initializing, \* per thread: the guards it was told to initialise
  constructed,  \* the guards whose initialiser has returned in this session
  disturbed     \* code of an earlier session has run since the last teardown

bodies   == <<era, initializing>>
sessions == <<session, condemned>>
vars     == <<table, place, inUse, done, loaded, call, bodies, sessions, constructed, disturbed>>

Idle == [op |-> "none", at |-> "idle", guard |-> None, entry |-> None]

Init ==
  /\ table = [g \in Guards |-> None]
  /\ place = [e \in Entries |-> "unborn"]
  /\ inUse = [e \in Entries |-> FALSE]
  /\ done = [g \in Guards |-> FALSE]
  /\ loaded = 0
  /\ call = [t \in Threads |-> Idle]
  /\ era = [t \in Threads |-> 0]
  /\ session = 0
  /\ condemned = {}
  /\ initializing = [t \in Threads |-> {}]
  /\ constructed = {}
  /\ disturbed = FALSE

-----------------------------------------------------------------------------
(* Calls.                                                                  *)

At(t, where) == call[t].at = where
Does(t, op, where) == call[t].op = op /\ At(t, where)
Goto(t, where) == call' = [call EXCEPT ![t].at = where]
Return(t) == call' = [call EXCEPT ![t] = Idle]

\* WindowPtr finds the guard's bytes.
Readable == loaded # None

\* GuardWrite, which does nothing while the memory is away.
GuardWrite(g, byte) == done' = IF Readable THEN [done EXCEPT ![g] = byte] ELSE done

\* Code of an earlier session takes a step.
Disturb(t) == disturbed' = (disturbed \/ era[t] # session)

\* The lock of an entry is free: nobody is between reading and writing.
Unlocked(e) == \A t \in Threads : ~(At(t, "arm") /\ call[t].entry = e)

Sleepers(e) == {t \in Threads : At(t, "asleep") /\ call[t].entry = e}

\* The check an acquire makes without a lock.
Acquire(t, g) ==
  /\ At(t, "idle") /\ g \notin initializing[t]
  /\ Readable /\ ~done[g]
  /\ call' = [call EXCEPT ![t] = [op |-> "acquire", at |-> "lookup", guard |-> g, entry |-> None]]
  /\ Disturb(t)
  /\ UNCHANGED <<table, place, inUse, done, loaded, bodies, sessions, constructed>>

\* The initialiser returned, or threw.
Finish(t, g, op) ==
  /\ At(t, "idle") /\ g \in initializing[t]
  /\ call' = [call EXCEPT ![t] = [op |-> op, at |-> "lookup", guard |-> g, entry |-> None]]
  /\ Disturb(t)
  /\ UNCHANGED <<table, place, inUse, done, loaded, bodies, sessions, constructed>>

\* GuardFor: the guard's entry of the present table, made if there is none.
GuardFor(t) ==
  LET g == call[t].guard IN
  /\ At(t, "lookup")
  /\ IF table[g] = None
     THEN /\ table' = [table EXCEPT ![g] = session]
          /\ place' = [place EXCEPT ![<<g, session>>] = "table"]
     ELSE UNCHANGED <<table, place>>
  /\ call' = [call EXCEPT ![t].entry = <<g, table'[g]>>, ![t].at = "enter"]
  /\ Disturb(t)
  /\ UNCHANGED <<inUse, done, loaded, bodies, sessions, constructed>>

MustInitialise_Unchecked(g) == Readable

\* The second look at the byte, under the lock.
MustInitialise(g) == Readable /\ ~done[g]

\* HGuardAcquire under the entry's lock, up to the second look at the byte.
AcquireRead(t) ==
  LET e == call[t].entry IN
  /\ Does(t, "acquire", "enter") /\ Unlocked(e)
  /\ IF inUse[e] THEN Goto(t, "asleep")
     ELSE IF MustInitialise(call[t].guard) THEN Goto(t, "arm")
     ELSE Return(t)
  /\ Disturb(t)
  /\ UNCHANGED <<table, place, inUse, done, loaded, bodies, sessions, constructed>>

\* The caller is told to initialise.
AcquireArm(t) ==
  LET g == call[t].guard IN
  /\ At(t, "arm")
  /\ inUse' = [inUse EXCEPT ![call[t].entry] = TRUE]
  /\ GuardWrite(g, FALSE)
  /\ initializing' = [initializing EXCEPT ![t] = @ \cup {g}]
  /\ Return(t)
  /\ Disturb(t)
  /\ UNCHANGED <<table, place, loaded, era, sessions, constructed>>

\* The wait ends without a notification.
SpuriousWake(t) ==
  /\ At(t, "asleep")
  /\ Goto(t, "enter")
  /\ Disturb(t)
  /\ UNCHANGED <<table, place, inUse, done, loaded, bodies, sessions, constructed>>

\* The byte a finished initialiser leaves: an aborted one can be tried again.
ByteAfter(op) == op = "release"

\* HGuardRelease and HGuardAbort under the entry's lock.
Commit(t) ==
  LET g == call[t].guard
      e == call[t].entry IN
  /\ At(t, "enter") /\ call[t].op \in {"release", "abort"} /\ Unlocked(e)
  /\ GuardWrite(g, ByteAfter(call[t].op))
  /\ inUse' = [inUse EXCEPT ![e] = FALSE]
  /\ initializing' = [initializing EXCEPT ![t] = @ \ {g}]
  /\ constructed' = IF call[t].op = "release" /\ era[t] = session
                    THEN constructed \cup {g} ELSE constructed
  /\ Goto(t, "notify")
  /\ Disturb(t)
  /\ UNCHANGED <<table, place, loaded, era, sessions>>

NotifyAll_WakesOne(t) ==
  LET asleep == Sleepers(call[t].entry) IN
  /\ At(t, "notify")
  /\ IF asleep = {} THEN Return(t)
     ELSE \E w \in asleep : call' = [call EXCEPT ![t] = Idle, ![w].at = "enter"]
  /\ Disturb(t)
  /\ UNCHANGED <<table, place, inUse, done, loaded, bodies, sessions, constructed>>

\* notify_all, after the lock is released.
NotifyAll(t) ==
  /\ At(t, "notify")
  /\ call' = [w \in Threads |-> IF w = t THEN Idle
                                ELSE IF w \in Sleepers(call[t].entry)
                                THEN [call[w] EXCEPT !.at = "enter"]
                                ELSE call[w]]
  /\ Disturb(t)
  /\ UNCHANGED <<table, place, inUse, done, loaded, bodies, sessions, constructed>>

-----------------------------------------------------------------------------
(* Sessions.                                                               *)

InPlace(p) == {e \in Entries : place[e] = p}

\* ResetForSession: the table becomes the graveyard, the graveyard goes.
ResetSwap ==
  /\ session < MaxSession /\ condemned = {} /\ loaded = session
  /\ session' = session + 1
  /\ condemned' = InPlace("grave")
  /\ table' = [g \in Guards |-> None]
  /\ place' = [e \in Entries |-> IF place[e] = "table" THEN "grave" ELSE place[e]]
  /\ disturbed' = FALSE /\ constructed' = {}
  /\ UNCHANGED <<inUse, done, loaded, call, bodies>>

ResetDelete ==
  /\ condemned # {}
  /\ condemned' = {}
  /\ place' = [e \in Entries |-> IF e \in condemned THEN "gone" ELSE place[e]]
  /\ UNCHANGED <<table, inUse, done, loaded, call, bodies, session, constructed, disturbed>>

\* Emulator::Shutdown takes the guest memory away after the teardown.
MemoryGoes ==
  /\ condemned = {} /\ loaded \notin {None, session}
  /\ loaded' = None
  /\ UNCHANGED <<table, place, inUse, done, call, bodies, sessions, constructed, disturbed>>

\* The next session's image is loaded: no guard is constructed.
MemoryComes ==
  /\ loaded = None
  /\ loaded' = session
  /\ done' = [g \in Guards |-> FALSE]
  /\ UNCHANGED <<table, place, inUse, call, bodies, sessions, constructed, disturbed>>

\* A host thread whose old guest code has ended runs code of this session.
NewBody(t) ==
  /\ At(t, "idle") /\ initializing[t] = {}
  /\ era[t] < session /\ loaded = session
  /\ era' = [era EXCEPT ![t] = session]
  /\ UNCHANGED <<table, place, inUse, done, loaded, call, initializing, sessions,
                 constructed, disturbed>>

-----------------------------------------------------------------------------

\* A call is about to use an entry that has been deleted.
UseAfterFree == \E t \in Threads : call[t].entry # None /\ place[call[t].entry] = "gone"

Step(t) ==
  \/ \E g \in Guards : Acquire(t, g) \/ Finish(t, g, "release") \/ Finish(t, g, "abort")
  \/ GuardFor(t) \/ AcquireRead(t) \/ AcquireArm(t) \/ SpuriousWake(t)
  \/ Commit(t) \/ NotifyAll(t) \/ NewBody(t)

Next ==
  /\ ~UseAfterFree
  /\ \/ \E t \in Threads : Step(t)
     \/ ResetSwap \/ ResetDelete \/ MemoryGoes \/ MemoryComes

Spec == Init /\ [][Next]_vars

-----------------------------------------------------------------------------
(* Properties.                                                             *)

CallRec ==
  [op : {"none", "acquire", "release", "abort"},
   at : {"idle", "lookup", "enter", "asleep", "arm", "notify"},
   guard : Guards \cup {None}, entry : Entries \cup {None}]

\* The type of every variable; the table holds the entries that live in it.
TypeOK ==
  /\ table \in [Guards -> (0 .. MaxSession) \cup {None}]
  /\ place \in [Entries -> {"unborn", "table", "grave", "gone"}]
  /\ inUse \in [Entries -> BOOLEAN]
  /\ done \in [Guards -> BOOLEAN]
  /\ loaded \in (0 .. MaxSession) \cup {None}
  /\ call \in [Threads -> CallRec]
  /\ era \in [Threads -> 0 .. MaxSession]
  /\ session \in 0 .. MaxSession
  /\ condemned \subseteq Entries
  /\ initializing \in [Threads -> SUBSET Guards]
  /\ constructed \subseteq Guards
  /\ disturbed \in BOOLEAN
  /\ \A e \in Entries : place[e] = "table" <=> table[e[1]] = e[2]

\* An acquirer that is told not to initialise finds the object constructed:
\* the byte is set only once the initialiser has returned.
DoneIsConstructed ==
  loaded = session => \A g \in Guards : done[g] <=> g \in constructed

\* At most one thread of a session initialises a guard at a time, none does what
\* has been done, and none that is sent on finds it undone, as long as no code of
\* an earlier session runs (HGuardAcquire, HGuardRelease, HGuardAbort).
InitialisedOnce ==
  /\ TypeOK
  /\ ~disturbed =>
       /\ DoneIsConstructed
       /\ \A t \in Threads : \A g \in initializing[t] :
            era[t] = session =>
              /\ g \notin constructed
              /\ \A u \in Threads : g \in initializing[u] /\ era[u] = session => u = t

\* An entry is deleted only when the code that uses it is two teardowns old.
OneSessionGrace ==
  \A t \in Threads :
    call[t].entry # None /\ place[call[t].entry] = "gone" => era[t] + 2 <= session

\* Threads asleep on an entry nobody occupies are about to be notified, and the
\* entry is still there when they are, also after a teardown.
NoLostNotify ==
  /\ OneSessionGrace
  /\ \A e \in Entries :
       ~inUse[e] /\ Sleepers(e) # {} => \E t \in Threads : At(t, "notify") /\ call[t].entry = e
=============================================================================
