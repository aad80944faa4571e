---------------------------- MODULE CxxGuard_proofs ----------------------------
(***************************************************************************)
(* Proofs about CxxGuard, for any number of threads, guards and teardowns. *)
(*                                                                         *)
(* A call names an entry of the session it was looked up in, which is no   *)
(* older than its code (CallOk); entries move on with every teardown       *)
(* (PlaceOk).  Whoever has read the byte and not yet written it has the    *)
(* entry to himself (Armed).  As long as no code of an earlier session     *)
(* runs, the threads of this session use this session's entries only, and  *)
(* an initialiser in progress occupies its entry (Quiet).                  *)
(***************************************************************************)
EXTENDS CxxGuard, TLAPS

Sessions == 0 .. MaxSession

Types ==
  /\ table \in [Guards -> Sessions \cup {None}]
  /\ place \in [Entries -> {"unborn", "table", "grave", "gone"}]
  /\ inUse \in [Entries -> BOOLEAN]
  /\ done \in [Guards -> BOOLEAN]
  /\ loaded \in Sessions \cup {None}
  /\ call \in [Threads -> CallRec]
  /\ era \in [Threads -> Sessions]
  /\ session \in Sessions
  /\ condemned \subseteq Entries
  /\ initializing \in [Threads -> SUBSET Guards]
  /\ constructed \subseteq Guards
  /\ disturbed \in BOOLEAN

\* What a call names, and how old that is.
CallOk(t) ==
  /\ call[t].at # "idle" => call[t].guard \in Guards
  /\ call[t].at \in {"idle", "lookup"} => call[t].entry = None
  /\ call[t].at \notin {"idle", "lookup"} =>
       /\ call[t].entry \in Entries /\ call[t].entry[1] = call[t].guard
       /\ era[t] <= call[t].entry[2] /\ call[t].entry[2] <= session
  /\ call[t].at \in {"asleep", "arm"} => call[t].op = "acquire"
  /\ era[t] <= session
Calls == \A t \in Threads : CallOk(t)

\* Where an entry is tells how many teardowns it has seen.
PlaceOk(e) ==
  /\ place[e] = "table" <=> table[e[1]] = e[2]
  /\ place[e] = "grave" => e[2] + 1 <= session
  /\ e \in condemned \/ place[e] = "gone" => e[2] + 2 <= session
Places == /\ \A g \in Guards : table[g] \in {None, session}
          /\ \A e \in Entries : PlaceOk(e)

\* Between reading the byte and writing it a thread has the entry to itself.
ArmedAt(t) ==
  At(t, "arm") =>
    /\ ~inUse[call[t].entry]
    /\ \A u \in Threads : At(u, "arm") /\ call[u].entry = call[t].entry => u = t
Armed == \A t \in Threads : ArmedAt(t)

Notified(e) == \E t \in Threads : At(t, "notify") /\ call[t].entry = e
Noted == \A e \in Entries : ~inUse[e] /\ Sleepers(e) # {} => Notified(e)

Present(t) == era[t] = session

\* What is true of a thread of this session while no other code runs.
QuietAt(t) ==
  /\ \A g \in initializing[t] :
       /\ g \notin constructed /\ inUse[<<g, session>>]
       /\ \A u \in Threads : Present(u) /\ g \in initializing[u] => u = t
  /\ At(t, "arm") => ~done[call[t].guard]
  /\ call[t].op \in {"release", "abort"} /\ call[t].at \in {"lookup", "enter"}
       => call[t].guard \in initializing[t]
Quiet ==
  /\ loaded # session => constructed = {} /\ \A t \in Threads : ~Present(t)
  /\ DoneIsConstructed
  /\ \A t \in Threads : Present(t) => QuietAt(t)

IInv ==
  /\ Types /\ Calls /\ Places /\ Armed /\ Noted
  /\ ~disturbed => Quiet

-----------------------------------------------------------------------------
(* Data.                                                                   *)

\* TypeOK is the typing part and the table.
LEMMA TypeOKFrom == Types /\ Places => TypeOK
BY DEF TypeOK, Types, Places, PlaceOk, Sessions

\* Fields of a call.
LEMMA CallFields ==
  ASSUME Types, NEW t \in Threads
  PROVE  /\ call[t] \in CallRec
         /\ call[t].op \in {"none", "acquire", "release", "abort"}
         /\ call[t].at \in {"idle", "lookup", "enter", "asleep", "arm", "notify"}
         /\ call[t].guard \in Guards \cup {None} /\ call[t].entry \in Entries \cup {None}
BY DEF Types, CallRec

\* Entries are pairs; nothing else is named None.
LEMMA EntryFacts ==
  /\ \A e \in Entries : e[1] \in Guards /\ e[2] \in Sessions /\ e = <<e[1], e[2]>> /\ e # None
  /\ \A g \in Guards : g # None
  /\ \A n \in Sessions : n # None /\ n \in Nat
  /\ \A g \in Guards, n \in Sessions :
       <<g, n>> \in Entries /\ <<g, n>>[1] = g /\ <<g, n>>[2] = n
BY GuardConstants DEF Entries, Sessions

\* A thread that does nothing.
LEMMA IdleFacts == Idle \in CallRec /\ Idle.at = "idle" /\ Idle.op = "none" /\ Idle.entry = None
BY DEF Idle, CallRec

\* One thread's record changes.
LEMMA Turn ==
  ASSUME Types, NEW t \in Threads, NEW r \in CallRec, call' = [call EXCEPT ![t] = r]
  PROVE  /\ call' \in [Threads -> CallRec] /\ call'[t] = r
         /\ \A u \in Threads : u # t => call'[u] = call[u]
BY DEF Types

\* Goto keeps everything but the place.
LEMMA GotoTurn ==
  ASSUME Types, NEW t \in Threads,
         NEW w \in {"idle", "lookup", "enter", "asleep", "arm", "notify"}, Goto(t, w)
  PROVE  \E r \in CallRec :
           /\ call' = [call EXCEPT ![t] = r]
           /\ r.at = w /\ r.op = call[t].op /\ r.guard = call[t].guard /\ r.entry = call[t].entry
<1> DEFINE r == [call[t] EXCEPT !.at = w]
<1>1. call[t] \in CallRec
  BY CallFields
<1>2. /\ r \in CallRec /\ r.at = w /\ r.op = call[t].op /\ r.guard = call[t].guard
      /\ r.entry = call[t].entry
  BY <1>1 DEF CallRec
<1>3. call' = [call EXCEPT ![t] = r]
  BY DEF Goto
<1> HIDE DEF r
<1> QED
  BY <1>2, <1>3

\* While code of this session runs alone, its threads use this session's entries.
LEMMA PresentEntry ==
  ASSUME Types, NEW t \in Threads, CallOk(t), Present(t),
         call[t].at \notin {"idle", "lookup"}
  PROVE  call[t].entry = <<call[t].guard, session>> /\ call[t].guard \in Guards
<1>1. call[t].entry \in Entries /\ call[t].entry[1] = call[t].guard
  BY DEF CallOk
<1>2. session <= call[t].entry[2] /\ call[t].entry[2] <= session
  BY DEF CallOk, Present
<1>3. session \in Nat /\ call[t].entry[2] \in Nat
  BY <1>1, EntryFacts, GuardConstants DEF Types, Sessions
<1>4. call[t].entry[2] = session
  BY <1>2, <1>3
<1> QED
  BY <1>1, <1>4, EntryFacts DEF CallOk

-----------------------------------------------------------------------------
(* Steps that change one call and nothing else.                            *)

Calm(t) ==
  /\ UNCHANGED <<table, place, inUse, done, loaded, bodies, sessions, constructed>>
  /\ Disturb(t)

\* What the new record of the call has to satisfy.
LEMMA CalmTurn ==
  ASSUME IInv, NEW t \in Threads, NEW r \in CallRec, call' = [call EXCEPT ![t] = r], Calm(t),
         call[t].at # "notify",
         CallOk(t)',
         r.at = "arm" => Unlocked(r.entry) /\ ~inUse[r.entry],
         r.at = "asleep" => inUse[r.entry],
         ~disturbed /\ Present(t) =>
           /\ r.at = "arm" => ~done[r.guard]
           /\ r.op \in {"release", "abort"} /\ r.at \in {"lookup", "enter"}
                => r.guard \in initializing[t]
  PROVE  IInv'
<1> USE DEF Calm, bodies, sessions
<1>1. Types
  BY DEF IInv
<1>2. /\ call' \in [Threads -> CallRec] /\ call'[t] = r
      /\ \A u \in Threads : u # t => call'[u] = call[u]
  BY <1>1, Turn
<1>3. Types'
  BY <1>1, <1>2 DEF Types, Disturb
<1>4. Calls'
  <2> SUFFICES ASSUME NEW u \in Threads
               PROVE  CallOk(u)'
    BY DEF Calls
  <2>1. CASE u = t
    BY <2>1
  <2>2. CASE u # t
    BY <1>2, <2>2 DEF IInv, Calls, CallOk
  <2> QED
    BY <2>1, <2>2
<1>5. Places'
  BY DEF IInv, Places, PlaceOk
<1>6. Armed'
  <2> SUFFICES ASSUME NEW u \in Threads, At(u, "arm")'
               PROVE  /\ ~inUse[call'[u].entry]
                      /\ \A v \in Threads : At(v, "arm")' /\ call'[v].entry = call'[u].entry => v = u
    BY DEF Armed, ArmedAt, At
  <2>1. CASE u = t
    BY <1>2, <2>1 DEF At, Unlocked
  <2>2. CASE u # t
    <3>1. At(u, "arm") /\ call'[u] = call[u] /\ ArmedAt(u)
      BY <1>2, <2>2 DEF IInv, Armed, At
    <3>2. ASSUME NEW v \in Threads, At(v, "arm")', call'[v].entry = call'[u].entry
          PROVE  v = u
      <4>1. CASE v = t
        BY <1>2, <3>1, <3>2, <4>1 DEF At, Unlocked
      <4>2. CASE v # t
        BY <1>2, <3>1, <3>2, <4>2 DEF At, ArmedAt
      <4> QED
        BY <4>1, <4>2
    <3> QED
      BY <3>1, <3>2 DEF ArmedAt
  <2> QED
    BY <2>1, <2>2
<1>7. Noted'
  <2> SUFFICES ASSUME NEW e \in Entries, ~inUse[e], NEW u \in Threads, At(u, "asleep")', call'[u].entry = e
               PROVE  Notified(e)'
    BY DEF Noted, Sleepers
  <2>1. u # t
    BY <1>2 DEF At
  <2>2. u \in Sleepers(e)
    BY <1>2, <2>1 DEF Sleepers, At
  <2>3. PICK v \in Threads : At(v, "notify") /\ call[v].entry = e
    BY <2>2 DEF IInv, Noted, Notified
  <2>4. v # t
    BY <2>3 DEF At
  <2> QED
    BY <1>2, <2>3, <2>4 DEF Notified, At
<1>8. ~disturbed' => Quiet'
  <2> SUFFICES ASSUME ~disturbed'
               PROVE  Quiet'
    OBVIOUS
  <2>1. ~disturbed /\ Present(t) /\ Quiet
    BY DEF Disturb, IInv, Present
  <2>2. ASSUME NEW u \in Threads, Present(u)'
        PROVE  QuietAt(u)'
    <3>1. Present(u) /\ QuietAt(u)
      BY <2>1, <2>2 DEF Present, Quiet
    <3>2. CASE u = t
      BY <1>2, <2>1, <3>1, <3>2 DEF QuietAt, At, Present
    <3>3. CASE u # t
      BY <1>2, <3>1, <3>3 DEF QuietAt, At, Present
    <3> QED
      BY <3>2, <3>3
  <2>3. (loaded # session => constructed = {} /\ \A u \in Threads : ~Present(u))'
    BY <2>1 DEF Quiet, Present
  <2>4. DoneIsConstructed'
    BY <2>1 DEF Quiet, DoneIsConstructed
  <2> QED
    BY <2>2, <2>3, <2>4 DEF Quiet
<1> QED
  BY <1>3, <1>4, <1>5, <1>6, <1>7, <1>8 DEF IInv

\* An acquire or the end of an initialiser begins.
LEMMA BeginSteps ==
  ASSUME IInv, NEW t \in Threads, NEW g \in Guards,
         Acquire(t, g) \/ Finish(t, g, "release") \/ Finish(t, g, "abort")
  PROVE  IInv'
<1>1. PICK op \in {"acquire", "release", "abort"} :
        /\ call' = [call EXCEPT ![t] = [op |-> op, at |-> "lookup", guard |-> g, entry |-> None]]
        /\ op # "acquire" => g \in initializing[t]
  BY DEF Acquire, Finish
<1> DEFINE r == [op |-> op, at |-> "lookup", guard |-> g, entry |-> None]
<1>2. r \in CallRec /\ r.at = "lookup" /\ r.op = op /\ r.guard = g /\ r.entry = None
  BY DEF CallRec
<1>3. call' = [call EXCEPT ![t] = r]
  BY <1>1
<1>4. Calm(t) /\ call[t].at = "idle"
  BY DEF Acquire, Finish, Calm, At
<1> HIDE DEF r
<1>5. call'[t] = r
  BY <1>2, <1>3, Turn DEF IInv
<1>6. CallOk(t)'
  BY <1>2, <1>4, <1>5 DEF IInv, Calls, CallOk, Calm, bodies, sessions
<1> QED
  BY <1>1, <1>2, <1>3, <1>4, <1>6, CalmTurn

\* What an acquirer finds under the entry's lock.
LEMMA ReadSteps ==
  ASSUME IInv, NEW t \in Threads, AcquireRead(t)
  PROVE  IInv'
<1>1. /\ Types /\ CallOk(t) /\ Calm(t) /\ call[t].op = "acquire" /\ call[t].at = "enter"
      /\ Unlocked(call[t].entry)
  BY DEF IInv, Calls, AcquireRead, Calm, Does, At
<1>2. CASE Return(t)
  <2>1. call' = [call EXCEPT ![t] = Idle] /\ call'[t] = Idle
    BY <1>1, <1>2, IdleFacts, Turn DEF Return
  <2>2. CallOk(t)'
    BY <1>1, <2>1, IdleFacts DEF CallOk, Calm, bodies, sessions
  <2> QED
    BY <1>1, <2>1, <2>2, IdleFacts, CalmTurn
<1>3. CASE inUse[call[t].entry] /\ Goto(t, "asleep")
  <2>1. PICK r \in CallRec :
           /\ call' = [call EXCEPT ![t] = r]
           /\ r.at = "asleep" /\ r.op = "acquire" /\ r.guard = call[t].guard /\ r.entry = call[t].entry
    BY <1>1, <1>3, GotoTurn
  <2>2. call'[t] = r
    BY <1>1, <2>1, Turn
  <2>3. CallOk(t)'
    BY <1>1, <2>1, <2>2 DEF CallOk, Calm, bodies, sessions
  <2> QED
    BY <1>1, <1>3, <2>1, <2>3, CalmTurn
<1>4. CASE ~inUse[call[t].entry] /\ MustInitialise(call[t].guard) /\ Goto(t, "arm")
  <2>1. PICK r \in CallRec :
           /\ call' = [call EXCEPT ![t] = r]
           /\ r.at = "arm" /\ r.op = "acquire" /\ r.guard = call[t].guard /\ r.entry = call[t].entry
    BY <1>1, <1>4, GotoTurn
  <2>2. call'[t] = r
    BY <1>1, <2>1, Turn
  <2>3. CallOk(t)'
    BY <1>1, <2>1, <2>2 DEF CallOk, Calm, bodies, sessions
  <2>4. ~done[r.guard]
    BY <1>4, <2>1 DEF MustInitialise
  <2> QED
    BY <1>1, <1>4, <2>1, <2>3, <2>4, CalmTurn
<1> QED
  BY <1>2, <1>3, <1>4 DEF AcquireRead

\* A sleeper wakes by itself.
LEMMA WakeSteps ==
  ASSUME IInv, NEW t \in Threads, SpuriousWake(t)
  PROVE  IInv'
<1>1. Types /\ CallOk(t) /\ Calm(t) /\ call[t].at = "asleep" /\ call[t].op = "acquire"
  BY DEF IInv, Calls, CallOk, SpuriousWake, Calm, At
<1>2. PICK r \in CallRec :
        /\ call' = [call EXCEPT ![t] = r]
        /\ r.at = "enter" /\ r.op = "acquire" /\ r.guard = call[t].guard /\ r.entry = call[t].entry
  BY <1>1, GotoTurn DEF SpuriousWake
<1>3. call'[t] = r
  BY <1>1, <1>2, Turn
<1>4. CallOk(t)'
  BY <1>1, <1>2, <1>3 DEF CallOk, Calm, bodies, sessions
<1> QED
  BY <1>1, <1>2, <1>4, CalmTurn

-----------------------------------------------------------------------------
(* The look-up, which may make an entry.                                   *)

LEMMA LookupSteps ==
  ASSUME IInv, NEW t \in Threads, GuardFor(t)
  PROVE  IInv'
<1> DEFINE g == call[t].guard
           r == [call[t] EXCEPT !.entry = <<g, session>>, !.at = "enter"]
<1>1. Types /\ CallOk(t) /\ Places /\ call[t].at = "lookup" /\ call[t] \in CallRec /\ session \in Sessions
  BY CallFields DEF IInv, Calls, GuardFor, At, Types
<1>2. g \in Guards /\ <<g, session>> \in Entries
  BY <1>1, EntryFacts DEF CallOk
<1>3. /\ table' \in [Guards -> Sessions \cup {None}] /\ table'[g] = session
      /\ \A h \in Guards : table'[h] \in {None, session} /\ (h # g => table'[h] = table[h])
  BY <1>1, <1>2 DEF GuardFor, Types, Places
<1>4. /\ place' \in [Entries -> {"unborn", "table", "grave", "gone"}]
      /\ \A e \in Entries : e # <<g, session>> => place'[e] = place[e]
      /\ place'[<<g, session>>] = "table"
  <2> DEFINE x == <<g, session>>
  <2>1. x \in Entries /\ x[1] = g /\ x[2] = session
    BY <1>1, <1>2, EntryFacts
  <2>2. place \in [Entries -> {"unborn", "table", "grave", "gone"}]
    BY <1>1 DEF Types
  <2>3. table[g] = session => place[x] = "table"
    BY <1>1, <2>1 DEF Places, PlaceOk
  <2>4. \/ table[g] = None /\ place' = [place EXCEPT ![x] = "table"]
        \/ table[g] # None /\ place' = place
    BY DEF GuardFor
  <2>5. table[g] \in {None, session}
    BY <1>1, <1>2 DEF Places
  <2> HIDE DEF x
  <2>6. /\ place' \in [Entries -> {"unborn", "table", "grave", "gone"}]
        /\ \A e \in Entries : e # x => place'[e] = place[e]
        /\ place'[x] = "table"
    BY <2>1, <2>2, <2>3, <2>4, <2>5
  <2> QED
    BY <2>6 DEF x
<1>5. /\ r \in CallRec /\ r.at = "enter" /\ r.op = call[t].op /\ r.guard = g
      /\ r.entry = <<g, session>>
  BY <1>1, <1>2 DEF CallRec
<1>6. call' = [call EXCEPT ![t] = r]
  BY <1>3 DEF GuardFor
<1>7. UNCHANGED <<inUse, done, loaded, era, initializing, session, condemned, constructed>> /\ Disturb(t)
  BY DEF GuardFor, bodies, sessions
<1> HIDE DEF g, r
<1>8. /\ call' \in [Threads -> CallRec] /\ call'[t] = r
      /\ \A u \in Threads : u # t => call'[u] = call[u]
  BY <1>1, <1>5, <1>6, Turn
<1>9. Types'
  BY <1>1, <1>3, <1>4, <1>7, <1>8 DEF Types, Disturb
<1>10. Calls'
  <2> SUFFICES ASSUME NEW u \in Threads
               PROVE  CallOk(u)'
    BY DEF Calls
  <2>1. CASE u = t
    <3>1. session <= session
      BY <1>1, EntryFacts
    <3>2. <<g, session>>[1] = g /\ <<g, session>>[2] = session
      OBVIOUS
    <3> QED
      BY <1>1, <1>2, <1>5, <1>7, <1>8, <2>1, <3>1, <3>2 DEF CallOk
  <2>2. CASE u # t
    BY <1>7, <1>8, <2>2 DEF IInv, Calls, CallOk
  <2> QED
    BY <2>1, <2>2
<1>11. Places'
  <2> SUFFICES ASSUME NEW e \in Entries
               PROVE  PlaceOk(e)'
    BY <1>3, <1>7 DEF Places
  <2>1. PlaceOk(e) /\ e[1] \in Guards /\ e = <<e[1], e[2]>>
    BY <1>1, EntryFacts DEF Places
  <2>2. CASE e = <<g, session>>
    <3>1. e[1] = g /\ e[2] = session
      BY <2>2
    <3>2. e \notin condemned
      BY <1>1, <2>1, <3>1, EntryFacts DEF PlaceOk
    <3> QED
      BY <1>3, <1>4, <1>7, <2>2, <3>1, <3>2 DEF PlaceOk
  <2>3. CASE e # <<g, session>>
    <3>1. place'[e] = place[e]
      BY <1>4, <2>3
    <3>2. e[1] = g => e[2] # session
      BY <2>1, <2>3
    <3>3. table'[e[1]] = e[2] <=> table[e[1]] = e[2]
      <4>1. CASE e[1] = g
        BY <1>1, <1>2, <1>3, <2>1, <3>2, <4>1, EntryFacts DEF Places
      <4>2. CASE e[1] # g
        BY <1>3, <2>1, <4>2
      <4> QED
        BY <4>1, <4>2
    <3> QED
      BY <1>7, <2>1, <3>1, <3>3 DEF PlaceOk
  <2> QED
    BY <2>2, <2>3
<1>12. Armed'
  <2> SUFFICES ASSUME NEW u \in Threads, At(u, "arm")'
               PROVE  /\ ~inUse[call'[u].entry]
                      /\ \A v \in Threads : At(v, "arm")' /\ call'[v].entry = call'[u].entry => v = u
    BY <1>7 DEF Armed, ArmedAt, At
  <2>1. u # t
    BY <1>5, <1>8 DEF At
  <2>2. At(u, "arm") /\ ArmedAt(u) /\ call'[u] = call[u]
    BY <1>8, <2>1 DEF IInv, Armed, At
  <2>3. \A v \in Threads : At(v, "arm")' => v # t /\ At(v, "arm") /\ call'[v] = call[v]
    BY <1>5, <1>8 DEF At
  <2> QED
    BY <2>2, <2>3 DEF ArmedAt
<1>13. Noted'
  <2> SUFFICES ASSUME NEW e \in Entries, ~inUse[e], NEW u \in Threads, At(u, "asleep")', call'[u].entry = e
               PROVE  Notified(e)'
    BY <1>7 DEF Noted, Sleepers
  <2>1. u \in Sleepers(e)
    BY <1>5, <1>8 DEF Sleepers, At
  <2>2. PICK v \in Threads : At(v, "notify") /\ call[v].entry = e
    BY <2>1 DEF IInv, Noted, Notified
  <2>3. v # t
    BY <1>1, <2>2 DEF At
  <2> QED
    BY <1>8, <2>2, <2>3 DEF Notified, At
<1>14. ~disturbed' => Quiet'
  <2> SUFFICES ASSUME ~disturbed'
               PROVE  Quiet'
    OBVIOUS
  <2>1. ~disturbed /\ Present(t) /\ Quiet
    BY <1>7 DEF Disturb, IInv, Present
  <2>2. ASSUME NEW u \in Threads, Present(u)'
        PROVE  QuietAt(u)'
    <3>1. Present(u) /\ QuietAt(u)
      BY <1>7, <2>1, <2>2 DEF Present, Quiet
    <3>2. CASE u = t
      BY <1>1, <1>5, <1>7, <1>8, <3>1, <3>2 DEF QuietAt, At, Present, g
    <3>3. CASE u # t
      BY <1>7, <1>8, <3>1, <3>3 DEF QuietAt, At, Present
    <3> QED
      BY <3>2, <3>3
  <2> QED
    BY <1>7, <2>1, <2>2 DEF Quiet, Present, DoneIsConstructed
<1> QED
  BY <1>9, <1>10, <1>11, <1>12, <1>13, <1>14 DEF IInv

-----------------------------------------------------------------------------
(* The caller is told to initialise.                                       *)

LEMMA ArmSteps ==
  ASSUME IInv, NEW t \in Threads, AcquireArm(t)
  PROVE  IInv'
<1> DEFINE g == call[t].guard
           e == call[t].entry
<1>1. /\ Types /\ CallOk(t) /\ ArmedAt(t) /\ At(t, "arm") /\ e \in Entries /\ g \in Guards
      /\ ~inUse[e]
  BY DEF IInv, Calls, CallOk, Armed, ArmedAt, AcquireArm, At
<1>2. /\ inUse' = [inUse EXCEPT ![e] = TRUE] /\ GuardWrite(g, FALSE)
      /\ initializing' = [initializing EXCEPT ![t] = @ \cup {g}]
      /\ call' = [call EXCEPT ![t] = Idle] /\ Disturb(t)
      /\ UNCHANGED <<table, place, loaded, era, session, condemned, constructed>>
  BY DEF AcquireArm, Return, sessions
<1> HIDE DEF g, e
<1>3. /\ call' \in [Threads -> CallRec] /\ call'[t] = Idle
      /\ \A u \in Threads : u # t => call'[u] = call[u]
  BY <1>1, <1>2, IdleFacts, Turn
<1>4. /\ inUse' \in [Entries -> BOOLEAN] /\ inUse'[e]
      /\ \A f \in Entries : f # e => inUse'[f] = inUse[f]
  BY <1>1, <1>2 DEF Types
<1>5. /\ done' \in [Guards -> BOOLEAN]
      /\ \A h \in Guards : (h # g => done'[h] = done[h]) /\ (~done[h] => ~done'[h])
  BY <1>1, <1>2 DEF Types, GuardWrite
<1>6. /\ initializing' \in [Threads -> SUBSET Guards] /\ initializing'[t] = initializing[t] \cup {g}
      /\ \A u \in Threads : u # t => initializing'[u] = initializing[u]
  BY <1>1, <1>2 DEF Types
<1>7. Types'
  BY <1>1, <1>2, <1>3, <1>4, <1>5, <1>6 DEF Types, Disturb
<1>8. Calls'
  <2> SUFFICES ASSUME NEW u \in Threads
               PROVE  CallOk(u)'
    BY DEF Calls
  <2>1. CASE u = t
    BY <1>1, <1>2, <1>3, <2>1, IdleFacts DEF CallOk
  <2>2. CASE u # t
    BY <1>2, <1>3, <2>2 DEF IInv, Calls, CallOk
  <2> QED
    BY <2>1, <2>2
<1>9. Places'
  BY <1>2 DEF IInv, Places, PlaceOk
<1>10. Armed'
  <2> SUFFICES ASSUME NEW u \in Threads, At(u, "arm")'
               PROVE  /\ ~inUse'[call'[u].entry]
                      /\ \A v \in Threads : At(v, "arm")' /\ call'[v].entry = call'[u].entry => v = u
    BY DEF Armed, ArmedAt, At
  <2>1. \A v \in Threads : At(v, "arm")' => v # t /\ At(v, "arm") /\ call'[v] = call[v]
    BY <1>3, IdleFacts DEF At
  <2>2. ArmedAt(u) /\ CallOk(u)
    BY DEF IInv, Armed, Calls
  <2>3. call[u].entry # e
    BY <1>1, <2>1 DEF ArmedAt, e
  <2>4. call[u].entry \in Entries
    BY <2>1, <2>2 DEF CallOk, At
  <2> QED
    BY <1>4, <2>1, <2>2, <2>3, <2>4 DEF ArmedAt
<1>11. Noted'
  <2> SUFFICES ASSUME NEW f \in Entries, ~inUse'[f], NEW u \in Threads, At(u, "asleep")', call'[u].entry = f
               PROVE  Notified(f)'
    BY DEF Noted, Sleepers
  <2>1. u \in Sleepers(f) /\ ~inUse[f]
    BY <1>3, <1>4, IdleFacts DEF Sleepers, At
  <2>2. PICK v \in Threads : At(v, "notify") /\ call[v].entry = f
    BY <2>1 DEF IInv, Noted, Notified
  <2>3. v # t
    BY <1>1, <2>2 DEF At
  <2> QED
    BY <1>3, <2>2, <2>3 DEF Notified, At
<1>12. ~disturbed' => Quiet'
  <2> SUFFICES ASSUME ~disturbed'
               PROVE  Quiet'
    OBVIOUS
  <2>1. ~disturbed /\ Present(t) /\ Quiet /\ loaded = session /\ QuietAt(t)
    BY <1>2 DEF Disturb, IInv, Present, Quiet
  <2>2. e = <<g, session>>
    BY <1>1, <2>1, PresentEntry DEF At, e, g
  <2>3. ~done[g] /\ g \notin constructed
    BY <1>1, <2>1 DEF QuietAt, Quiet, DoneIsConstructed, g
  <2>4. \A u \in Threads : Present(u) => g \notin initializing[u]
    BY <1>1, <2>1, <2>2 DEF Quiet, QuietAt
  <2>5. DoneIsConstructed'
    BY <1>2, <1>5, <2>1, <2>3 DEF Quiet, DoneIsConstructed
  <2>6. ASSUME NEW u \in Threads, Present(u)'
        PROVE  QuietAt(u)'
    <3>1. Present(u) /\ QuietAt(u)
      BY <1>2, <2>1, <2>6 DEF Present, Quiet
    <3>2. ASSUME NEW h \in initializing'[u]
          PROVE  /\ h \notin constructed' /\ inUse'[<<h, session>>]
                 /\ \A v \in Threads : Present(v)' /\ h \in initializing'[v] => v = u
      <4>1. h \in Guards /\ <<h, session>> \in Entries
        BY <1>1, <1>6, <3>2, EntryFacts DEF Types
      <4>2. CASE h = g
        BY <1>2, <1>4, <1>6, <2>2, <2>3, <2>4, <3>1, <3>2, <4>2 DEF Present
      <4>3. CASE h # g
        <5>1. h \in initializing[u]
          BY <1>6, <3>2, <4>3
        <5>2. h \notin constructed /\ inUse[<<h, session>>]
          BY <3>1, <5>1 DEF QuietAt
        <5>3. inUse'[<<h, session>>]
          BY <1>4, <4>1, <5>2
        <5>4. ASSUME NEW v \in Threads, Present(v)', h \in initializing'[v]
              PROVE  v = u
          BY <1>2, <1>6, <3>1, <4>3, <5>1, <5>4 DEF QuietAt, Present
        <5> QED
          BY <1>2, <5>2, <5>3, <5>4
      <4> QED
        BY <4>2, <4>3
    <3>3. At(u, "arm")' => ~done'[call'[u].guard]
      <4>1. ASSUME At(u, "arm")'
            PROVE  ~done'[call'[u].guard]
        <5>1. u # t /\ At(u, "arm") /\ call'[u] = call[u]
          BY <1>3, <4>1, IdleFacts DEF At
        <5>2. call[u].guard \in Guards /\ ~done[call[u].guard]
          BY <3>1, <5>1 DEF IInv, Calls, CallOk, QuietAt, At
        <5> QED
          BY <1>5, <5>1, <5>2
      <4> QED
        BY <4>1
    <3>4. call'[u].op \in {"release", "abort"} /\ call'[u].at \in {"lookup", "enter"}
            => call'[u].guard \in initializing'[u]
      BY <1>3, <1>6, <3>1, IdleFacts DEF QuietAt
    <3> QED
      BY <1>2, <3>2, <3>3, <3>4 DEF QuietAt
  <2> QED
    BY <1>2, <2>1, <2>5, <2>6 DEF Quiet
<1> QED
  BY <1>7, <1>8, <1>9, <1>10, <1>11, <1>12 DEF IInv

-----------------------------------------------------------------------------
(* The end of an initialiser.                                              *)

LEMMA CommitSteps ==
  ASSUME IInv, NEW t \in Threads, Commit(t)
  PROVE  IInv'
<1> DEFINE g == call[t].guard
           e == call[t].entry
           byte == ByteAfter(call[t].op)
<1>1. /\ Types /\ CallOk(t) /\ At(t, "enter") /\ e \in Entries /\ g \in Guards
      /\ call[t].op \in {"release", "abort"} /\ Unlocked(e) /\ byte \in BOOLEAN
      /\ byte <=> call[t].op = "release"
  BY DEF IInv, Calls, CallOk, Commit, At, ByteAfter
<1>2. /\ inUse' = [inUse EXCEPT ![e] = FALSE] /\ GuardWrite(g, byte)
      /\ initializing' = [initializing EXCEPT ![t] = @ \ {g}]
      /\ constructed' = IF call[t].op = "release" /\ era[t] = session
                        THEN constructed \cup {g} ELSE constructed
      /\ Goto(t, "notify") /\ Disturb(t)
      /\ UNCHANGED <<table, place, loaded, era, session, condemned>>
  BY DEF Commit, sessions
<1> HIDE DEF byte
<1>3. PICK r \in CallRec :
        /\ call' = [call EXCEPT ![t] = r]
        /\ r.at = "notify" /\ r.op = call[t].op /\ r.guard = g /\ r.entry = e
  BY <1>1, <1>2, GotoTurn
<1>4. /\ call' \in [Threads -> CallRec] /\ call'[t] = r
      /\ \A u \in Threads : u # t => call'[u] = call[u]
  BY <1>1, <1>3, Turn
<1> HIDE DEF g, e
<1>5. /\ inUse' \in [Entries -> BOOLEAN]
      /\ \A f \in Entries : f # e => inUse'[f] = inUse[f]
  BY <1>1, <1>2 DEF Types
<1>6. /\ done' \in [Guards -> BOOLEAN]
      /\ \A h \in Guards : h # g => done'[h] = done[h]
      /\ loaded # None => done'[g] = byte
  BY <1>1, <1>2 DEF Types, GuardWrite, Readable
<1>7. /\ initializing' \in [Threads -> SUBSET Guards] /\ initializing'[t] = initializing[t] \ {g}
      /\ \A u \in Threads : u # t => initializing'[u] = initializing[u]
  BY <1>1, <1>2 DEF Types
<1>8. Types'
  BY <1>1, <1>2, <1>4, <1>5, <1>6, <1>7 DEF Types, Disturb
<1>9. Calls'
  <2> SUFFICES ASSUME NEW u \in Threads
               PROVE  CallOk(u)'
    BY DEF Calls
  <2>1. CASE u = t
    BY <1>1, <1>2, <1>3, <1>4, <2>1 DEF CallOk, At, g, e
  <2>2. CASE u # t
    BY <1>2, <1>4, <2>2 DEF IInv, Calls, CallOk
  <2> QED
    BY <2>1, <2>2
<1>10. Places'
  BY <1>2 DEF IInv, Places, PlaceOk
<1>11. \A v \in Threads : At(v, "arm")' => v # t /\ At(v, "arm") /\ call'[v] = call[v] /\ call[v].entry # e
  BY <1>1, <1>3, <1>4 DEF At, Unlocked
<1>12. Armed'
  <2> SUFFICES ASSUME NEW u \in Threads, At(u, "arm")'
               PROVE  /\ ~inUse'[call'[u].entry]
                      /\ \A v \in Threads : At(v, "arm")' /\ call'[v].entry = call'[u].entry => v = u
    BY DEF Armed, ArmedAt, At
  <2>1. ArmedAt(u) /\ CallOk(u) /\ At(u, "arm")
    BY <1>11 DEF IInv, Armed, Calls
  <2>2. call[u].entry \in Entries
    BY <2>1 DEF CallOk, At
  <2> QED
    BY <1>5, <1>11, <2>1, <2>2 DEF ArmedAt
<1>13. Noted'
  <2> SUFFICES ASSUME NEW f \in Entries, ~inUse'[f], NEW u \in Threads, At(u, "asleep")', call'[u].entry = f
               PROVE  Notified(f)'
    BY DEF Noted, Sleepers
  <2>1. CASE f = e
    BY <1>3, <1>4, <2>1 DEF Notified, At
  <2>2. CASE f # e
    <3>1. u \in Sleepers(f) /\ ~inUse[f]
      BY <1>3, <1>4, <1>5, <2>2 DEF Sleepers, At
    <3>2. PICK v \in Threads : At(v, "notify") /\ call[v].entry = f
      BY <3>1 DEF IInv, Noted, Notified
    <3>3. v # t
      BY <1>1, <3>2 DEF At
    <3> QED
      BY <1>4, <3>2, <3>3 DEF Notified, At
  <2> QED
    BY <2>1, <2>2
<1>14. ~disturbed' => Quiet'
  <2> SUFFICES ASSUME ~disturbed'
               PROVE  Quiet'
    OBVIOUS
  <2>1. ~disturbed /\ Present(t) /\ Quiet /\ loaded = session /\ QuietAt(t)
    BY <1>2 DEF Disturb, IInv, Present, Quiet
  <2>2. e = <<g, session>>
    BY <1>1, <2>1, PresentEntry DEF At, e, g
  <2>3. g \in initializing[t] /\ g \notin constructed
    BY <1>1, <2>1 DEF QuietAt, At, g
  <2>4. \A u \in Threads : Present(u) /\ u # t => g \notin initializing[u]
    BY <2>1, <2>3 DEF QuietAt
  <2>5. loaded # None
    BY <1>1, <2>1, EntryFacts DEF Types
  <2>6. \A h \in Guards : h # g => (h \in constructed' <=> h \in constructed)
    BY <1>2
  <2>7. DoneIsConstructed'
    <3> SUFFICES ASSUME NEW h \in Guards
                 PROVE  done'[h] <=> h \in constructed'
      BY DEF DoneIsConstructed
    <3>1. done[h] <=> h \in constructed
      BY <2>1 DEF Quiet, DoneIsConstructed
    <3>2. CASE h = g
      <4>1. CASE byte
        BY <1>1, <1>2, <1>6, <2>1, <2>5, <3>2, <4>1 DEF Present
      <4>2. CASE ~byte
        BY <1>1, <1>2, <1>6, <2>3, <2>5, <3>2, <4>2
      <4> QED
        BY <4>1, <4>2
    <3>3. CASE h # g
      BY <1>6, <2>6, <3>1, <3>3
    <3> QED
      BY <3>2, <3>3
  <2>8. ASSUME NEW u \in Threads, Present(u)'
        PROVE  QuietAt(u)'
    <3>1. Present(u) /\ QuietAt(u)
      BY <1>2, <2>1, <2>8 DEF Present, Quiet
    <3>2. ASSUME NEW h \in initializing'[u]
          PROVE  /\ h \notin constructed' /\ inUse'[<<h, session>>]
                 /\ \A v \in Threads : Present(v)' /\ h \in initializing'[v] => v = u
      <4>1. h # g /\ h \in initializing[u]
        BY <1>7, <2>4, <3>1, <3>2
      <4>2. h \in Guards /\ <<h, session>> \in Entries /\ <<h, session>> # e
        BY <1>1, <2>2, <4>1, EntryFacts DEF Types
      <4>3. h \notin constructed' /\ inUse'[<<h, session>>]
        BY <1>5, <2>6, <3>1, <4>1, <4>2 DEF QuietAt
      <4>4. ASSUME NEW v \in Threads, Present(v)', h \in initializing'[v]
            PROVE  v = u
        BY <1>2, <1>7, <3>1, <4>1, <4>4 DEF QuietAt, Present
      <4> QED
        BY <4>3, <4>4
    <3>3. At(u, "arm")' => ~done'[call'[u].guard]
      <4>1. ASSUME At(u, "arm")'
            PROVE  ~done'[call'[u].guard]
        <5>1. u # t /\ At(u, "arm") /\ call'[u] = call[u] /\ call[u].entry # e
          BY <1>11, <4>1
        <5>2. call[u].guard \in Guards /\ ~done[call[u].guard]
          BY <3>1, <5>1 DEF IInv, Calls, CallOk, QuietAt, At
        <5>3. call[u].entry = <<call[u].guard, session>>
          BY <1>1, <3>1, <5>1, PresentEntry DEF IInv, Calls, At
        <5>4. call[u].guard # g
          BY <2>2, <5>1, <5>3
        <5> QED
          BY <1>6, <5>1, <5>2, <5>4
      <4> QED
        BY <4>1
    <3>4. call'[u].op \in {"release", "abort"} /\ call'[u].at \in {"lookup", "enter"}
            => call'[u].guard \in initializing'[u]
      BY <1>3, <1>4, <1>7, <3>1 DEF QuietAt
    <3> QED
      BY <1>2, <3>2, <3>3, <3>4 DEF QuietAt
  <2> QED
    BY <1>2, <2>1, <2>7, <2>8 DEF Quiet
<1> QED
  BY <1>8, <1>9, <1>10, <1>12, <1>13, <1>14 DEF IInv

\* The notification: all that sleep on the entry look again.
LEMMA NotifySteps ==
  ASSUME IInv, NEW t \in Threads, NotifyAll(t)
  PROVE  IInv'
<1> DEFINE woken == Sleepers(call[t].entry)
<1>1. Types /\ At(t, "notify") /\ woken \subseteq Threads /\ t \notin woken
  BY DEF IInv, NotifyAll, Sleepers, At
<1>2. /\ UNCHANGED <<table, place, inUse, done, loaded, era, initializing, session, condemned, constructed>>
      /\ Disturb(t)
  BY DEF NotifyAll, bodies, sessions
<1>3. /\ call' \in [Threads -> CallRec]
      /\ call'[t] = Idle
      /\ \A w \in woken : /\ call'[w].at = "enter" /\ call'[w].op = call[w].op
                           /\ call'[w].guard = call[w].guard /\ call'[w].entry = call[w].entry
      /\ \A w \in Threads : w # t /\ w \notin woken => call'[w] = call[w]
  <2>1. \A w \in Threads : call[w] \in CallRec
    BY <1>1, CallFields
  <2>2. \A w \in Threads : [call[w] EXCEPT !.at = "enter"] \in CallRec
    BY <2>1 DEF CallRec
  <2>3. call' = [w \in Threads |-> IF w = t THEN Idle ELSE IF w \in woken
                                   THEN [call[w] EXCEPT !.at = "enter"] ELSE call[w]]
    BY DEF NotifyAll
  <2> HIDE DEF woken
  <2>4. call' \in [Threads -> CallRec]
    BY <2>1, <2>2, <2>3, IdleFacts
  <2>5. \A w \in woken : call'[w] = [call[w] EXCEPT !.at = "enter"]
    BY <1>1, <2>3
  <2>6. \A w \in woken : /\ call'[w].at = "enter" /\ call'[w].op = call[w].op
                         /\ call'[w].guard = call[w].guard /\ call'[w].entry = call[w].entry
    <3> TAKE w \in woken
    <3> DEFINE r == call[w]
    <3>1. r \in CallRec /\ call'[w] = [r EXCEPT !.at = "enter"]
      BY <1>1, <2>1, <2>5
    <3> HIDE DEF r
    <3>2. /\ call'[w].at = "enter" /\ call'[w].op = r.op
          /\ call'[w].guard = r.guard /\ call'[w].entry = r.entry
      BY <3>1 DEF CallRec
    <3> QED
      BY <3>2 DEF r
  <2> QED
    BY <1>1, <2>3, <2>4, <2>6
<1>4. \A w \in woken : At(w, "asleep")
  BY DEF Sleepers
<1>5. Types'
  BY <1>1, <1>2, <1>3 DEF Types, Disturb
<1>6. Calls'
  <2> SUFFICES ASSUME NEW u \in Threads
               PROVE  CallOk(u)'
    BY DEF Calls
  <2>1. CallOk(u)
    BY DEF IInv, Calls
  <2>2. CASE u = t
    BY <1>2, <1>3, <2>1, <2>2, IdleFacts DEF CallOk
  <2>3. CASE u \in woken
    BY <1>2, <1>3, <1>4, <2>1, <2>3 DEF CallOk, At
  <2>4. CASE u # t /\ u \notin woken
    BY <1>2, <1>3, <2>1, <2>4 DEF CallOk
  <2> QED
    BY <2>2, <2>3, <2>4
<1>7. Places'
  BY <1>2 DEF IInv, Places, PlaceOk
<1> HIDE DEF woken
<1>8. \A v \in Threads : At(v, "arm")' => At(v, "arm") /\ call'[v] = call[v]
  BY <1>3, IdleFacts DEF At
<1>9. Armed'
  BY <1>2, <1>8 DEF IInv, Armed, ArmedAt
<1>10. Noted'
  <2> SUFFICES ASSUME NEW f \in Entries, ~inUse[f], NEW u \in Threads, At(u, "asleep")', call'[u].entry = f
               PROVE  Notified(f)'
    BY <1>2 DEF Noted, Sleepers
  <2>1. u # t /\ u \notin woken
    BY <1>3, IdleFacts DEF At
  <2>2. u \in Sleepers(f) /\ f # call[t].entry
    BY <1>3, <2>1 DEF Sleepers, At, woken
  <2>3. PICK v \in Threads : At(v, "notify") /\ call[v].entry = f
    BY <2>2 DEF IInv, Noted, Notified
  <2>4. v # t /\ v \notin woken
    BY <1>4, <2>2, <2>3 DEF At
  <2> QED
    BY <1>3, <2>3, <2>4 DEF Notified, At
<1>11. ~disturbed' => Quiet'
  <2> SUFFICES ASSUME ~disturbed'
               PROVE  Quiet'
    OBVIOUS
  <2>1. ~disturbed /\ Quiet
    BY <1>2 DEF Disturb, IInv
  <2>2. ASSUME NEW u \in Threads, Present(u)'
        PROVE  QuietAt(u)'
    <3>1. Present(u) /\ QuietAt(u)
      BY <1>2, <2>1, <2>2 DEF Present, Quiet
    <3>2. call'[u].op \in {"release", "abort"} /\ call'[u].at \in {"lookup", "enter"}
            => call'[u] = call[u]
      <4>1. CASE u = t
        BY <1>3, <4>1, IdleFacts
      <4>2. CASE u \in woken
        BY <1>3, <1>4, <4>2 DEF IInv, Calls, CallOk, At
      <4>3. CASE u # t /\ u \notin woken
        BY <1>3, <4>3
      <4> QED
        BY <4>1, <4>2, <4>3
    <3> QED
      BY <1>2, <1>8, <3>1, <3>2 DEF QuietAt, Present
  <2> QED
    BY <1>2, <2>1, <2>2 DEF Quiet, Present, DoneIsConstructed
<1> QED
  BY <1>5, <1>6, <1>7, <1>9, <1>10, <1>11 DEF IInv

-----------------------------------------------------------------------------
(* Sessions.                                                               *)

\* A host thread begins to run code of this session.
LEMMA BodySteps ==
  ASSUME IInv, NEW t \in Threads, NewBody(t)
  PROVE  IInv'
<1>1. /\ Types /\ At(t, "idle") /\ initializing[t] = {} /\ loaded = session
      /\ era' = [era EXCEPT ![t] = session] /\ session \in Sessions
      /\ UNCHANGED <<table, place, inUse, done, loaded, call, initializing, sessions, constructed, disturbed>>
  BY DEF IInv, NewBody, Types
<1> USE DEF sessions
<1>2. /\ era' \in [Threads -> Sessions] /\ era'[t] = session
      /\ \A u \in Threads : u # t => era'[u] = era[u]
  BY <1>1 DEF Types
<1>3. Types'
  BY <1>1, <1>2 DEF Types
<1>4. Calls'
  <2> SUFFICES ASSUME NEW u \in Threads
               PROVE  CallOk(u)'
    BY DEF Calls
  <2>1. CallOk(u)
    BY DEF IInv, Calls
  <2>2. CASE u = t
    <3>1. session <= session
      BY <1>1, EntryFacts
    <3> QED
      BY <1>1, <1>2, <2>1, <2>2, <3>1 DEF CallOk, At
  <2>3. CASE u # t
    BY <1>1, <1>2, <2>1, <2>3 DEF CallOk
  <2> QED
    BY <2>2, <2>3
<1>5. Places' /\ Armed' /\ Noted'
  BY <1>1 DEF IInv, Places, PlaceOk, Armed, ArmedAt, Noted, Notified, Sleepers, At
<1>6. ~disturbed' => Quiet'
  <2> SUFFICES ASSUME ~disturbed'
               PROVE  Quiet'
    OBVIOUS
  <2>1. Quiet
    BY <1>1 DEF IInv
  <2>2. ASSUME NEW u \in Threads, Present(u)'
        PROVE  QuietAt(u)'
    <3>1. CASE u = t
      BY <1>1, <3>1 DEF QuietAt, At
    <3>2. CASE u # t
      <4>1. QuietAt(u)
        BY <1>1, <1>2, <2>1, <2>2, <3>2 DEF Quiet, Present
      <4> QED
        BY <1>1, <1>2, <4>1 DEF QuietAt, At, Present
    <3> QED
      BY <3>1, <3>2
  <2> QED
    BY <1>1, <2>1, <2>2 DEF Quiet, DoneIsConstructed
<1> QED
  BY <1>3, <1>4, <1>5, <1>6 DEF IInv

\* The teardown empties the table.
LEMMA SwapSteps ==
  ASSUME IInv, ResetSwap
  PROVE  IInv'
<1>1. /\ Types /\ session < MaxSession /\ loaded = session /\ session' = session + 1
      /\ condemned' = InPlace("grave") /\ table' = [g \in Guards |-> None]
      /\ place' = [e \in Entries |-> IF place[e] = "table" THEN "grave" ELSE place[e]]
      /\ disturbed' = FALSE /\ constructed' = {}
      /\ UNCHANGED <<inUse, done, loaded, call, era, initializing>>
  BY DEF IInv, ResetSwap, bodies
<1>2. session \in Nat /\ session' \in Sessions /\ session' # session /\ session' # None
  BY <1>1, GuardConstants DEF Types, Sessions
<1>3. \A t \in Threads : era[t] \in Nat
  BY <1>1 DEF Types, Sessions
<1>4. \A e \in Entries : e[2] \in Nat /\ e[1] \in Guards
  BY EntryFacts
<1>5. Types'
  BY <1>1, <1>2 DEF Types, InPlace
<1>6. Calls'
  <2> SUFFICES ASSUME NEW u \in Threads
               PROVE  CallOk(u)'
    BY DEF Calls
  <2>1. CallOk(u)
    BY DEF IInv, Calls
  <2>2. era[u] <= session'
    BY <1>1, <1>2, <1>3, <2>1 DEF CallOk
  <2>3. call[u].at \notin {"idle", "lookup"} => call[u].entry[2] <= session'
    BY <1>1, <1>2, <1>4, <2>1 DEF CallOk
  <2> QED
    BY <1>1, <2>1, <2>2, <2>3 DEF CallOk
<1>7. Places'
  <2>1. ASSUME NEW e \in Entries
        PROVE  PlaceOk(e)'
    <3>1. PlaceOk(e) /\ table[e[1]] \in {None, session} /\ e[2] # None
      BY <1>4, EntryFacts DEF IInv, Places
    <3>2. place'[e] # "table" /\ table'[e[1]] # e[2]
      BY <1>1, <1>4, <3>1
    <3>3. place[e] = "table" => e[2] = session
      BY <3>1 DEF PlaceOk
    <3>4. place'[e] = "grave" => e[2] + 1 <= session'
      BY <1>1, <1>2, <1>4, <3>1, <3>3 DEF PlaceOk
    <3>5. e \in condemned' \/ place'[e] = "gone" => e[2] + 2 <= session'
      BY <1>1, <1>2, <1>4, <3>1 DEF PlaceOk, InPlace
    <3> QED
      BY <3>2, <3>4, <3>5 DEF PlaceOk
  <2> QED
    BY <1>1, <2>1 DEF Places
<1>8. Armed' /\ Noted'
  BY <1>1 DEF IInv, Armed, ArmedAt, Noted, Notified, Sleepers, At
<1>9. Quiet'
  <2>1. \A t \in Threads : ~Present(t)'
    BY <1>1, <1>2, <1>3 DEF IInv, Calls, CallOk, Present
  <2> QED
    BY <1>1, <1>2, <2>1 DEF Quiet, DoneIsConstructed
<1> QED
  BY <1>5, <1>6, <1>7, <1>8, <1>9 DEF IInv

\* The old graveyard is deleted.
LEMMA DeleteSteps ==
  ASSUME IInv, ResetDelete
  PROVE  IInv'
<1>1. /\ Types /\ condemned' = {}
      /\ place' = [e \in Entries |-> IF e \in condemned THEN "gone" ELSE place[e]]
      /\ UNCHANGED <<table, inUse, done, loaded, call, era, initializing, session, constructed, disturbed>>
  BY DEF IInv, ResetDelete, bodies
<1>2. Types'
  BY <1>1 DEF Types
<1>3. Places'
  <2>1. ASSUME NEW e \in Entries
        PROVE  PlaceOk(e)'
    <3>1. PlaceOk(e) /\ table[e[1]] \in {None, session} /\ e[2] # None /\ e[2] \in Nat
      BY EntryFacts DEF IInv, Places
    <3>2. e \in condemned => table[e[1]] # e[2]
      <4>1. session \in Nat
        BY <1>1, EntryFacts DEF Types
      <4> QED
        BY <3>1, <4>1 DEF PlaceOk
    <3> QED
      BY <1>1, <3>1, <3>2 DEF PlaceOk
  <2> QED
    BY <1>1, <2>1 DEF IInv, Places
<1>4. Calls' /\ Armed' /\ Noted'
  BY <1>1 DEF IInv, Calls, CallOk, Armed, ArmedAt, Noted, Notified, Sleepers, At
<1>5. ~disturbed' => Quiet'
  BY <1>1 DEF IInv, Quiet, QuietAt, Present, DoneIsConstructed, At
<1> QED
  BY <1>2, <1>3, <1>4, <1>5 DEF IInv

\* The guest's memory goes and comes back.
LEMMA MemorySteps ==
  ASSUME IInv, MemoryGoes \/ MemoryComes
  PROVE  IInv'
<1>1. /\ Types
      /\ UNCHANGED <<table, place, inUse, call, era, initializing, session, condemned, constructed, disturbed>>
      /\ loaded # session
  <2>1. session # None
    BY EntryFacts DEF IInv, Types
  <2> QED
    BY <2>1 DEF IInv, MemoryGoes, MemoryComes, bodies, sessions
<1>2. \/ loaded' = None /\ done' = done
      \/ loaded' = session /\ done' = [g \in Guards |-> FALSE]
  BY DEF MemoryGoes, MemoryComes
<1>3. Types'
  BY <1>1, <1>2 DEF Types
<1>4. Calls' /\ Places' /\ Armed' /\ Noted'
  BY <1>1 DEF IInv, Calls, CallOk, Places, PlaceOk, Armed, ArmedAt, Noted, Notified, Sleepers, At
<1>5. ~disturbed' => Quiet'
  <2> SUFFICES ASSUME ~disturbed'
               PROVE  Quiet'
    OBVIOUS
  <2>1. constructed = {} /\ \A t \in Threads : ~Present(t)
    BY <1>1 DEF IInv, Quiet
  <2>2. DoneIsConstructed'
    <3>1. session # None
      BY <1>1, EntryFacts DEF Types
    <3> QED
      BY <1>1, <1>2, <2>1, <3>1 DEF DoneIsConstructed
  <2> QED
    BY <1>1, <2>1, <2>2 DEF Quiet, Present
<1> QED
  BY <1>3, <1>4, <1>5 DEF IInv

-----------------------------------------------------------------------------
\* The invariant holds at first, and every step keeps it.
LEMMA Inductive == Spec => []IInv
<1>1. Init => IInv
  <2> SUFFICES ASSUME Init
               PROVE  IInv
    OBVIOUS
  <2>1. 0 \in Sessions /\ None \notin Sessions
    BY GuardConstants DEF Sessions
  <2>2. Types
    BY <2>1, IdleFacts DEF Init, Types
  <2>3. Calls
    <3> SUFFICES ASSUME NEW t \in Threads
                 PROVE  CallOk(t)
      BY DEF Calls
    <3>1. call[t] = Idle /\ era[t] = 0 /\ session = 0
      BY DEF Init
    <3>2. call[t].at = "idle" /\ call[t].entry = None
      BY <3>1, IdleFacts
    <3>3. era[t] <= session
      BY <3>1
    <3> QED
      BY <3>2, <3>3 DEF CallOk
  <2>4. Places
    BY EntryFacts DEF Init, Places, PlaceOk
  <2>5. Armed /\ Noted
    BY IdleFacts DEF Init, Armed, ArmedAt, Noted, Sleepers, At
  <2>6. Quiet
    BY IdleFacts DEF Init, Quiet, QuietAt, DoneIsConstructed, At
  <2> QED
    BY <2>2, <2>3, <2>4, <2>5, <2>6 DEF IInv
<1>2. IInv /\ [Next]_vars => IInv'
  <2> SUFFICES ASSUME IInv, [Next]_vars
               PROVE  IInv'
    OBVIOUS
  <2>1. CASE UNCHANGED vars
    <3> USE DEF vars, bodies, sessions
    <3>1. Types' /\ Calls' /\ Places'
      BY <2>1 DEF IInv, Types, Calls, CallOk, Places, PlaceOk
    <3>2. Armed' /\ Noted'
      BY <2>1 DEF IInv, Armed, ArmedAt, Noted, Notified, Sleepers, At
    <3>3. ~disturbed' => Quiet'
      BY <2>1 DEF IInv, Quiet, QuietAt, Present, DoneIsConstructed, At
    <3> QED
      BY <3>1, <3>2, <3>3 DEF IInv
  <2>2. ASSUME NEW t \in Threads, Step(t)
        PROVE  IInv'
    BY <2>2, BeginSteps, LookupSteps, ReadSteps, ArmSteps, WakeSteps, CommitSteps, NotifySteps,
       BodySteps DEF Step
  <2> QED
    BY <2>1, <2>2, SwapSteps, DeleteSteps, MemorySteps DEF Next
<1> QED
  BY <1>1, <1>2, PTL DEF Spec

\* One initialiser at a time and only once, as long as no code of an earlier session
\* runs, for any number of threads, guards and teardowns (HGuardAcquire, HGuardRelease,
\* HGuardAbort).
THEOREM OneInitialiser == Spec => []InitialisedOnce
<1>1. IInv => InitialisedOnce
  BY TypeOKFrom DEF IInv, InitialisedOnce, Quiet, QuietAt, Present
<1> QED
  BY <1>1, Inductive, PTL

\* No sleeper is forgotten, and no entry is deleted under code that is less than two
\* teardowns old (ResetForSession).
THEOREM SleepersAreNotified == Spec => []NoLostNotify
<1>1. IInv => NoLostNotify
  <2> SUFFICES ASSUME IInv
               PROVE  NoLostNotify
    OBVIOUS
  <2>1. OneSessionGrace
    <3> SUFFICES ASSUME NEW t \in Threads, call[t].entry # None, place[call[t].entry] = "gone"
                 PROVE  era[t] + 2 <= session
      BY DEF OneSessionGrace
    <3>1. /\ call[t].entry \in Entries /\ era[t] <= call[t].entry[2]
          /\ call[t].entry[2] + 2 <= session
      BY DEF IInv, Calls, CallOk, Places, PlaceOk
    <3>2. era[t] \in Nat /\ call[t].entry[2] \in Nat /\ session \in Nat
      BY <3>1, EntryFacts DEF IInv, Types, Sessions
    <3> QED
      BY <3>1, <3>2
  <2> QED
    BY <2>1 DEF IInv, Noted, Notified, NoLostNotify
<1> QED
  BY <1>1, Inductive, PTL
===============================================================================
