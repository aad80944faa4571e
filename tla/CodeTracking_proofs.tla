-------------------------- MODULE CodeTracking_proofs --------------------------
(***************************************************************************)
(* Proofs about CodeTracking, for any number of threads, pages and memory  *)
(* operations: translated code is closed to the guest's writes but for the *)
(* exceptions the model names, the registry keeps no page whose            *)
(* translations are gone, and a write that is refused is resumed unless it *)
(* raced.                                                                  *)
(*                                                                         *)
(* The invariant has three parts.  LookupInv says what a thread knows: who *)
(* has which lock, and that a lookup tells the truth unless a memory       *)
(* operation has overtaken it.  CodeInv says why a page may be open        *)
(* although code was translated from it; the mark may pass a page over,    *)
(* because it is registered or has lost its execute permission, and        *)
(* ClosedBehind says that such a page does not need the mark as an excuse. *)
(* FaultInv says why a page may be closed although it is not registered.   *)
(***************************************************************************)
EXTENDS CodeTracking, FiniteSetTheorems, TLAPS

AtRec == [pc : Places, page : Pages, flags : Flags, lost : BOOLEAN,
          hit : 0 .. NumPages, told : BOOLEAN, raced : BOOLEAN]

Marks     == {"mark", "markRead", "markClose", "markRegister"}
Exclusive == {"unprotect", "unprotectRead", "open"}
Looking   == {"markRead", "markClose", "unprotectRead", "open"}
Locked    == Looking \cup {"markRegister"}
Opening   == {"unprotectRead", "open"}

\* A thread's record says that code is to be invalidated.
Owes(r) == r.pc = "drop" \/ (r.pc = "publish" /\ r.lost)

\* A thread's record says that the page is about to get new flags.
Gives(r, p) == r.pc = "publish" /\ r.page = p

\* An entry that is to be read again is one of the snapshot's.
HitOk == \A u \in Threads : at[u].pc \in {"markRead", "unprotectRead"} => at[u].hit \in Pages

\* Where each lock is held; the invalidation mutex is held alone or shared.
LocksOk ==
  \A u \in Threads :
    /\ at[u].pc \in Exclusive <=> inval = u
    /\ at[u].pc \in Marks => inval = None
    /\ at[u].pc \in Locked <=> pageLock = u
    /\ at[u].pc = "publish" <=> memLock = u

\* A page that is marked has translations, one that is opened has none.
PagesOk ==
  \A u \in Threads :
    /\ at[u].pc \in Marks => at[u].page \in translated
    /\ at[u].pc \in Exclusive => at[u].page \notin translated \cup cached[u]
    /\ at[u].pc \in Locked => at[u].page \notin registry

\* The entry of every executable page says whether the guest may write it.
SlotsOk == \A p \in Exec(rec) : slots[Rank(rec, p)] = ("W" \in rec[p])

\* What a lookup that no memory operation has overtaken knows.
Informed(r) ==
  /\ memLock = None
  /\ "X" \in rec[r.page]
  /\ r.pc \in {"markRead", "unprotectRead"} => r.hit = Rank(rec, r.page)
  /\ r.pc = "open" => r.told = ("W" \in rec[r.page])

LookOk == \A u \in Threads : at[u].pc \in Looking /\ ~at[u].raced => Informed(at[u])

LookupInv == TypeOK /\ HitOk /\ LocksOk /\ PagesOk /\ SlotsOk /\ LookOk

\* What excuses an open page, but for a mark.
Excused(p) ==
  \/ p \in granted \/ p \in failedOpen \/ p \in overrun
  \/ \E u \in Threads : Owes(at[u]) /\ at[u].page = p

Marked(p) == \E u \in Threads : at[u].pc \in Marks /\ at[u].page = p

\* A page is open against its record only if an answer was overtaken, or while an
\* operation opens it.
OpenOk ==
  \A p \in Pages :
    "W" \in host[p] /\ "W" \notin rec[p] =>
      p \in overrun \/ \E u \in Threads : Gives(at[u], p) /\ "W" \in at[u].flags

\* A page is open while an operation opens it without a report, or against the operation.
GiveOk ==
  \A u \in Threads :
    at[u].pc = "publish" /\ "W" \in host[at[u].page] =>
      /\ "W" \in at[u].flags /\ ~at[u].lost /\ "W" \notin rec[at[u].page] =>
           at[u].page \in granted \cup overrun
      /\ "W" \notin at[u].flags => at[u].page \in overrun

Closed == \A p \in translated : "W" \in host[p] => Excused(p) \/ Marked(p)

ClosedBehind ==
  \A p \in translated :
    "W" \in host[p] /\ (p \in registry \/ "X" \notin rec[p]) => Excused(p)

\* A page that is about to be registered was closed.
RegisterOk ==
  \A u \in Threads :
    at[u].pc = "markRegister" /\ "W" \in host[at[u].page] => Excused(at[u].page)

CodeInv == OpenOk /\ GiveOk /\ Closed /\ ClosedBehind /\ RegisterOk /\ RegisteredIsTranslated

Opened(p) == \E u \in Threads : at[u].pc \in Opening /\ at[u].page = p
Entered(p) == \E u \in Threads : at[u].pc = "markRegister" /\ at[u].page = p
Given(p) == \E u \in Threads : Gives(at[u], p)

\* A page is closed against its record and not registered only while something is
\* done to it, or after a failure or an answer that was overtaken.
HeldOk ==
  \A p \in Pages :
    "W" \in rec[p] /\ "W" \notin host[p] =>
      /\ p \notin registry => p \in shut \/ Opened(p) \/ Given(p) \/ Entered(p)
      /\ "X" \notin rec[p] => p \in shut \/ Opened(p) \/ Given(p)

\* The same of a page that an operation is opening.
ShutOk ==
  \A u \in Threads :
    at[u].pc = "publish" /\ "W" \in at[u].flags /\ "W" \notin host[at[u].page] =>
      /\ at[u].page \notin registry =>
           at[u].page \in shut \/ Opened(at[u].page) \/ Entered(at[u].page)
      /\ "X" \notin at[u].flags \/ "X" \notin rec[at[u].page] =>
           at[u].page \in shut \/ Opened(at[u].page)

\* A fault that has not raced is on a page that is registered, or will be when the
\* lock is free.
FaultOk ==
  \A u \in Threads :
    /\ at[u].pc = "fault" /\ ~at[u].raced => at[u].page \in registry \/ Entered(at[u].page)
    /\ at[u].pc = "crash" => at[u].raced

FaultInv == HeldOk /\ ShutOk /\ FaultOk

IInv == LookupInv /\ CodeInv /\ FaultInv

-----------------------------------------------------------------------------
(* A thread's place.                                                       *)

\* There is a page.
LEMMA PageFacts == NumPages \in Nat \ {0} /\ 1 \in Pages /\ 0 \in 0 .. NumPages
BY TrackingConstants DEF Pages

\* The fields of a thread's record.
LEMMA AtFields ==
  ASSUME NEW r \in AtRec
  PROVE  /\ r.pc \in Places /\ r.page \in Pages /\ r.flags \in Flags
         /\ r.lost \in BOOLEAN /\ r.hit \in 0 .. NumPages /\ r.told \in BOOLEAN
         /\ r.raced \in BOOLEAN
BY DEF AtRec

\* Only the thread that takes a step moves.
LEMMA AtStep ==
  ASSUME NEW t \in Threads, at \in [Threads -> AtRec], NEW r \in AtRec,
         at' = [at EXCEPT ![t] = r]
  PROVE  /\ at' \in [Threads -> AtRec] /\ at'[t] = r
         /\ \A u \in Threads : u # t => at'[u] = at[u]
OBVIOUS

\* Goto changes the place only.
LEMMA GotoFacts ==
  ASSUME NEW t \in Threads, at \in [Threads -> AtRec], NEW w \in Places, Goto(t, w)
  PROVE  /\ at' \in [Threads -> AtRec]
         /\ at'[t].pc = w /\ at'[t].page = at[t].page /\ at'[t].lost = at[t].lost
         /\ at'[t].hit = at[t].hit /\ at'[t].raced = at[t].raced
         /\ \A u \in Threads : u # t => at'[u] = at[u]
<1> DEFINE r == [at[t] EXCEPT !.pc = w]
<1>1. at[t] \in AtRec
  OBVIOUS
<1>2. /\ r \in AtRec /\ r.pc = w /\ r.page = at[t].page /\ r.lost = at[t].lost
      /\ r.hit = at[t].hit /\ r.raced = at[t].raced
  BY <1>1 DEF AtRec
<1>3. at' = [at EXCEPT ![t] = r]
  BY DEF Goto
<1> QED BY <1>2, <1>3, AtStep

\* Start and Return forget what the thread did before.
LEMMA StartFacts ==
  ASSUME NEW t \in Threads, at \in [Threads -> AtRec], NEW w \in Places, NEW p \in Pages,
         Start(t, w, p)
  PROVE  /\ at' \in [Threads -> AtRec]
         /\ at'[t].pc = w /\ at'[t].page = p /\ ~at'[t].lost /\ ~at'[t].raced
         /\ \A u \in Threads : u # t => at'[u] = at[u]
<1> DEFINE r == [Running EXCEPT !.pc = w, !.page = p]
<1>1. Running \in AtRec /\ ~Running.lost /\ ~Running.raced
  BY PageFacts DEF AtRec, Flags, Running, Places
<1>2. r \in AtRec /\ r.pc = w /\ r.page = p /\ ~r.lost /\ ~r.raced
  BY <1>1 DEF AtRec
<1>3. at' = [at EXCEPT ![t] = r]
  BY DEF Start
<1> QED BY <1>2, <1>3, AtStep

\* As above.
LEMMA ReturnFacts ==
  ASSUME NEW t \in Threads, at \in [Threads -> AtRec], Return(t)
  PROVE  /\ at' \in [Threads -> AtRec]
         /\ at'[t].pc = "run" /\ ~at'[t].lost
         /\ \A u \in Threads : u # t => at'[u] = at[u]
<1>1. Running \in AtRec /\ Running.pc = "run" /\ ~Running.lost
  BY PageFacts DEF AtRec, Flags, Running, Places
<1>2. at' = [at EXCEPT ![t] = Running]
  BY DEF Return
<1> QED BY <1>1, <1>2, AtStep

\* The entry of an executable page is one of the snapshot's.
LEMMA RankFacts ==
  ASSUME NEW r \in [Pages -> Flags], NEW p \in Pages, "X" \in r[p]
  PROVE  Rank(r, p) \in Pages
<1> DEFINE below == {q \in Exec(r) : q <= p}
<1>1. IsFiniteSet(Pages) /\ Cardinality(Pages) = NumPages
  <2>1. NumPages \in Int /\ 1 \in Int /\ 1 <= NumPages
    BY PageFacts
  <2>2. IsFiniteSet(1 .. NumPages) /\ Cardinality(1 .. NumPages) = NumPages - 1 + 1
    BY <2>1, FS_Interval
  <2> QED BY <2>1, <2>2 DEF Pages
<1>2. below \subseteq Pages /\ p \in below
  BY DEF Exec, Pages
<1> HIDE DEF below
<1>3. IsFiniteSet(below) /\ Cardinality(below) \in Nat /\ Cardinality(below) <= NumPages
  BY <1>1, <1>2, FS_Subset, FS_CardinalityType
<1>4. Cardinality(below) # 0
  BY <1>2, <1>3, FS_EmptySet
<1>5. Rank(r, p) = Cardinality(below)
  BY DEF Rank, below
<1> QED BY <1>3, <1>4, <1>5, PageFacts DEF Pages

-----------------------------------------------------------------------------
(* Steps that only move a thread.                                          *)

\* A thread that does not take the step is where it was; it may learn that it raced.
Kept(r, s) ==
  /\ s.pc = r.pc /\ s.page = r.page /\ s.flags = r.flags /\ s.lost = r.lost
  /\ s.hit = r.hit /\ s.told = r.told /\ (r.raced => s.raced)

Moves(t) ==
  /\ at \in [Threads -> AtRec] /\ at' \in [Threads -> AtRec]
  /\ \A u \in Threads : u # t => Kept(at[u], at'[u])

\* What the others know stays true as long as the records do.
LEMMA LookupKept ==
  ASSUME LookupInv, NEW t \in Threads, Moves(t), UNCHANGED <<rec, slots, memLock>>,
         at'[t].pc \in {"markRead", "unprotectRead"} => at'[t].hit \in Pages,
         at'[t].pc \in Looking /\ ~at'[t].raced => Informed(at'[t])
  PROVE  HitOk' /\ SlotsOk' /\ LookOk'
<1>1. HitOk'
  BY DEF LookupInv, HitOk, Moves, Kept
<1>2. SlotsOk'
  BY DEF LookupInv, SlotsOk, Exec, Rank
<1>3. LookOk'
  <2> SUFFICES ASSUME NEW u \in Threads, at'[u].pc \in Looking, ~at'[u].raced
               PROVE  Informed(at[u])'
    BY DEF LookOk
  <2>1. Rank(rec', at'[u].page) = Rank(rec, at'[u].page)
    OBVIOUS
  <2>2. Informed(at'[u])
    <3>1. CASE u = t
      BY <3>1
    <3>2. CASE u # t
      <4>1. Kept(at[u], at'[u]) /\ Informed(at[u])
        BY <3>2 DEF Moves, Kept, LookupInv, LookOk
      <4> QED BY <4>1 DEF Kept, Informed
    <3> QED BY <3>1, <3>2
  <2> QED BY <2>1, <2>2 DEF Informed
<1> QED BY <1>1, <1>2, <1>3

\* A move that keeps what a thread has to invalidate and to mark.
LEMMA CodeKept ==
  ASSUME IInv, NEW t \in Threads, Moves(t),
         UNCHANGED <<rec, host, translated, granted, failedOpen, overrun>>,
         registry' \subseteq registry,
         at[t].pc # "publish", at'[t].pc \notin {"publish", "markRegister"},
         at[t].pc = "drop" => at'[t].pc = "drop" /\ at'[t].page = at[t].page,
         at[t].pc \in Marks => at'[t].pc \in Marks /\ at'[t].page = at[t].page,
         \A p \in registry' \ translated :
           \E u \in Threads : inval' = u /\ at'[u].pc = "unprotect" /\ at'[u].page = p
  PROVE  CodeInv'
<1>1. \A u \in Threads : Owes(at[u]) => Owes(at'[u]) /\ at'[u].page = at[u].page
  BY DEF Owes, Moves, Kept
<1>2. \A p \in Pages : Excused(p) => Excused(p)'
  BY <1>1 DEF Excused
<1>3. \A p \in Pages : Marked(p) => Marked(p)'
  BY DEF Marked, Moves, Kept
<1>4. translated \subseteq Pages /\ \A u \in Threads : at[u].page \in Pages
  BY AtFields DEF IInv, LookupInv, TypeOK, AtRec
<1>5. OpenOk'
  BY DEF IInv, CodeInv, OpenOk, Gives, Moves, Kept
<1>6. GiveOk'
  BY DEF IInv, CodeInv, GiveOk, Moves, Kept
<1>7. Closed'
  BY <1>2, <1>3, <1>4 DEF IInv, CodeInv, Closed
<1>8. ClosedBehind'
  BY <1>2, <1>4 DEF IInv, CodeInv, ClosedBehind
<1>9. RegisterOk'
  BY <1>2, <1>4 DEF IInv, CodeInv, RegisterOk, Moves, Kept
<1>10. RegisteredIsTranslated'
  BY DEF RegisteredIsTranslated, Is, Page
<1> QED BY <1>5, <1>6, <1>7, <1>8, <1>9, <1>10 DEF CodeInv

\* A step that changes no protection, and leaves or enters the registry as the code does.
LEMMA FaultKept ==
  ASSUME IInv, NEW t \in Threads, Moves(t), UNCHANGED <<rec, host, shut>>,
         at[t].pc # "publish", at'[t].pc # "publish",
         at[t].pc \in Opening => at'[t].pc \in Opening /\ at'[t].page = at[t].page,
         at[t].pc = "markRegister" => at[t].page \in registry',
         \A p \in registry : p \in registry' \/ "X" \notin rec[p] \/ Opened(p)',
         \A u \in Threads :
           u # t /\ at[u].pc = "fault" /\ at[u].page \in registry /\ ~at'[u].raced =>
             at[u].page \in registry',
         at'[t].pc = "fault" /\ ~at'[t].raced => at'[t].page \in registry' \/ Entered(at[t].page)',
         at'[t].pc = "crash" => at'[t].raced
  PROVE  FaultInv'
<1>1. \A u \in Threads : at[u].page \in Pages /\ at'[u].page \in Pages
  BY AtFields DEF Moves
<1>2. \A p \in Pages : Opened(p) => Opened(p)'
  BY DEF Opened, Moves, Kept
<1>3. \A p \in Pages : Given(p) => Given(p)'
  BY DEF Given, Gives, Moves, Kept
<1>4. \A p \in Pages : Entered(p) => p \in registry' \/ Entered(p)'
  BY DEF Entered, Moves, Kept
<1>5. HeldOk'
  <2> SUFFICES ASSUME NEW p \in Pages, "W" \in rec[p], "W" \notin host[p]
               PROVE  /\ p \notin registry' => p \in shut \/ Opened(p)' \/ Given(p)' \/ Entered(p)'
                      /\ "X" \notin rec[p] => p \in shut \/ Opened(p)' \/ Given(p)'
    BY DEF HeldOk
  <2>1. "X" \notin rec[p] => p \in shut \/ Opened(p)' \/ Given(p)'
    BY <1>2, <1>3 DEF IInv, FaultInv, HeldOk
  <2>2. CASE p \in registry
    BY <2>1, <2>2
  <2>3. CASE p \notin registry
    BY <1>2, <1>3, <1>4, <2>1, <2>3 DEF IInv, FaultInv, HeldOk
  <2> QED BY <2>1, <2>2, <2>3
<1>6. ShutOk'
  <2> SUFFICES ASSUME NEW u \in Threads, at'[u].pc = "publish", "W" \in at'[u].flags,
                      "W" \notin host[at'[u].page]
               PROVE  /\ at'[u].page \notin registry' =>
                           at'[u].page \in shut \/ Opened(at[u].page)' \/ Entered(at[u].page)'
                      /\ "X" \notin at'[u].flags \/ "X" \notin rec[at'[u].page] =>
                           at'[u].page \in shut \/ Opened(at[u].page)'
    BY DEF ShutOk
  <2> PICK p \in Pages : p = at'[u].page
    BY <1>1
  <2>1. at[u].pc = "publish" /\ at[u].page = p /\ at'[u].flags = at[u].flags
    BY DEF Moves, Kept
  <2>2. "X" \notin at[u].flags \/ "X" \notin rec[p] => p \in shut \/ Opened(p)'
    BY <1>2, <2>1 DEF IInv, FaultInv, ShutOk
  <2>3. p \notin registry' => p \in shut \/ Opened(p)' \/ Entered(p)'
    <3>1. CASE p \in registry
      BY <2>2, <3>1
    <3>2. CASE p \notin registry
      BY <1>2, <1>4, <2>1, <3>2 DEF IInv, FaultInv, ShutOk
    <3> QED BY <3>1, <3>2
  <2> QED BY <2>1, <2>2, <2>3
<1>7. FaultOk'
  <2> SUFFICES ASSUME NEW u \in Threads
               PROVE  /\ at'[u].pc = "fault" /\ ~at'[u].raced =>
                           at'[u].page \in registry' \/ Entered(at[u].page)'
                      /\ at'[u].pc = "crash" => at'[u].raced
    BY DEF FaultOk
  <2>1. CASE u = t
    BY <2>1
  <2>2. CASE u # t
    <3>1. Kept(at[u], at'[u])
      BY <2>2 DEF Moves
    <3>2. at'[u].pc = "crash" => at'[u].raced
      BY <3>1 DEF Kept, IInv, FaultInv, FaultOk
    <3>3. ASSUME at'[u].pc = "fault", ~at'[u].raced
          PROVE  at'[u].page \in registry' \/ Entered(at[u].page)'
      <4>1. at[u].pc = "fault" /\ ~at[u].raced /\ at'[u].page = at[u].page
        BY <3>1, <3>3 DEF Kept
      <4>2. at[u].page \in registry \/ Entered(at[u].page)
        BY <4>1 DEF IInv, FaultInv, FaultOk
      <4> QED BY <1>1, <1>4, <2>2, <3>3, <4>1, <4>2
    <3> QED BY <3>2, <3>3
  <2> QED BY <2>1, <2>2
<1> QED BY <1>5, <1>6, <1>7 DEF FaultInv

-----------------------------------------------------------------------------
(* A thread's place, and the places of the others.                         *)

\* Every page has a type.
LEMMA PagesTyped == LookupInv => \A u \in Threads : at[u].page \in Pages
BY AtFields DEF LookupInv, TypeOK, AtRec

\* Only the thread that takes a step moves.
LEMMA MovesAlone ==
  ASSUME NEW t \in Threads, at \in [Threads -> AtRec], at' \in [Threads -> AtRec],
         \A u \in Threads : u # t => at'[u] = at[u]
  PROVE  Moves(t)
BY DEF Moves, Kept

\* What each move of a thread does to its record.
LEMMA GotoMoves ==
  ASSUME IInv, NEW t \in Threads, NEW w \in Places, Goto(t, w)
  PROVE  /\ Moves(t)
         /\ at'[t].pc = w /\ at'[t].page = at[t].page /\ at'[t].lost = at[t].lost
         /\ at'[t].hit = at[t].hit /\ at'[t].raced = at[t].raced
BY GotoFacts, MovesAlone DEF IInv, LookupInv, TypeOK, AtRec

\* As above.
LEMMA StartMoves ==
  ASSUME IInv, NEW t \in Threads, NEW w \in Places, NEW p \in Pages, Start(t, w, p)
  PROVE  Moves(t) /\ at'[t].pc = w /\ at'[t].page = p /\ ~at'[t].raced
BY StartFacts, MovesAlone DEF IInv, LookupInv, TypeOK, AtRec

\* As above.
LEMMA ReturnMoves ==
  ASSUME IInv, NEW t \in Threads, Return(t)
  PROVE  Moves(t) /\ at'[t].pc = "run"
BY ReturnFacts, MovesAlone DEF IInv, LookupInv, TypeOK, AtRec

\* Threads that faulted on a page learn that it is not registered any more.
LEMMA RacedMoves ==
  ASSUME IInv, NEW t \in Threads, NEW p \in Pages, NEW r \in AtRec,
         at' = [Raced(p) EXCEPT ![t] = r]
  PROVE  /\ Moves(t) /\ at'[t] = r
         /\ \A u \in Threads : u # t /\ at[u].pc = "fault" /\ at[u].page = p => at'[u].raced
<1>1. at \in [Threads -> AtRec]
  BY DEF IInv, LookupInv, TypeOK, AtRec
<1> DEFINE s(u) == IF at[u].pc = "fault" /\ at[u].page = p
                   THEN [at[u] EXCEPT !.raced = TRUE] ELSE at[u]
<1>2. \A u \in Threads :
        /\ s(u) \in AtRec /\ Kept(at[u], s(u))
        /\ at[u].pc = "fault" /\ at[u].page = p => s(u).raced
  <2> SUFFICES ASSUME NEW u \in Threads
               PROVE  /\ s(u) \in AtRec /\ Kept(at[u], s(u))
                      /\ at[u].pc = "fault" /\ at[u].page = p => s(u).raced
    OBVIOUS
  <2>1. at[u] \in AtRec
    BY <1>1
  <2> DEFINE e == [at[u] EXCEPT !.raced = TRUE]
  <2>2. /\ e \in AtRec /\ e.pc = at[u].pc /\ e.page = at[u].page /\ e.flags = at[u].flags
        /\ e.lost = at[u].lost /\ e.hit = at[u].hit /\ e.told = at[u].told /\ e.raced
    BY <2>1 DEF AtRec
  <2>3. CASE at[u].pc = "fault" /\ at[u].page = p
    <3>1. s(u) = e
      BY <2>3
    <3> HIDE DEF s, e
    <3> QED BY <2>2, <3>1 DEF Kept
  <2>4. CASE ~(at[u].pc = "fault" /\ at[u].page = p)
    <3>1. s(u) = at[u]
      BY <2>4
    <3> HIDE DEF s
    <3> QED BY <2>1, <2>4, <3>1 DEF Kept
  <2> QED BY <2>3, <2>4
<1>3. Raced(p) = [u \in Threads |-> s(u)]
  BY DEF Raced, Is, Page
<1> HIDE DEF s
<1>4. /\ at' \in [Threads -> AtRec] /\ at'[t] = r
      /\ \A u \in Threads : u # t => at'[u] = s(u)
  BY <1>2, <1>3
<1> QED BY <1>1, <1>2, <1>4 DEF Moves

-----------------------------------------------------------------------------
(* The guest and its faults.                                               *)

\* A thread takes over a translation.
LEMMA LookupStep ==
  ASSUME IInv, NEW t \in Threads, NEW p \in Pages, Lookup(t, p)
  PROVE  IInv'
<1>1. /\ at[t].pc = "run" /\ cached' = [cached EXCEPT ![t] = @ \cup {p}]
      /\ UNCHANGED <<rec, host, slots, memLock, ops, registry, translated, pageLock, inval, at,
                     granted, failedOpen, overrun, shut>>
  BY DEF Lookup, Is, memory, locks, opened
<1>2. at \in [Threads -> AtRec] /\ Moves(t)
  BY <1>1 DEF IInv, LookupInv, TypeOK, AtRec, Moves, Kept
<1>3. cached' \in [Threads -> SUBSET Pages] /\ \A u \in Threads : u # t => cached'[u] = cached[u]
  BY <1>1 DEF IInv, LookupInv, TypeOK
<1>4. TypeOK'
  BY <1>1, <1>3 DEF IInv, LookupInv, TypeOK
<1>5. LocksOk'
  BY <1>1 DEF IInv, LookupInv, LocksOk
<1>6. PagesOk'
  BY <1>1, <1>3 DEF IInv, LookupInv, PagesOk, Exclusive
<1>7. HitOk' /\ SlotsOk' /\ LookOk'
  BY <1>1, <1>2, LookupKept DEF IInv, Looking
<1>8. CodeInv'
  <2>1. \A q \in registry' \ translated :
          \E u \in Threads : inval' = u /\ at'[u].pc = "unprotect" /\ at'[u].page = q
    BY <1>1 DEF IInv, CodeInv, RegisteredIsTranslated, Is, Page
  <2> QED BY <1>1, <1>2, <2>1, CodeKept DEF Marks
<1>9. FaultInv'
  BY <1>1, <1>2, FaultKept DEF Opening
<1> QED BY <1>4, <1>5, <1>6, <1>7, <1>8, <1>9 DEF IInv, LookupInv

\* A write that races with nothing faults on a page that is, or will be, registered.
LEMMA FaultStep ==
  ASSUME IInv, NEW t \in Threads, NEW p \in Pages, Fault(t, p)
  PROVE  IInv'
<1> DEFINE b == p \in shut \/ Changing(p)
           r == [Running EXCEPT !.pc = "fault", !.page = p, !.raced = b]
<1>1. /\ at[t].pc = "run" /\ at' = [at EXCEPT ![t] = r]
      /\ "W" \in rec[p] /\ "W" \notin host[p]
      /\ UNCHANGED <<rec, host, slots, memLock, ops, registry, translated, cached, pageLock, inval,
                     granted, failedOpen, overrun, shut>>
  BY DEF Fault, Is, memory, code, locks, opened
<1>2. b \in BOOLEAN
  BY DEF Changing
<1>3. b <=> p \in shut \/ Opened(p) \/ Given(p)
  BY DEF Changing, Opened, Given, Gives, Opening, Page
<1> HIDE DEF b
<1>4. r \in AtRec /\ r.pc = "fault" /\ r.page = p /\ (r.raced <=> b)
  <2>1. Running \in AtRec /\ "fault" \in Places
    BY PageFacts DEF AtRec, Flags, Running, Places
  <2> QED BY <1>2, <2>1 DEF AtRec
<1> HIDE DEF r
<1>5. at \in [Threads -> AtRec] /\ Moves(t) /\ at'[t] = r
  BY <1>1, <1>4, AtStep, MovesAlone DEF IInv, LookupInv, TypeOK, AtRec
<1>6. TypeOK'
  BY <1>1, <1>5 DEF IInv, LookupInv, TypeOK, Moves, AtRec
<1>7. LocksOk' /\ PagesOk'
  <2>1. LocksOk'
    BY <1>1, <1>4, <1>5 DEF IInv, LookupInv, LocksOk, Moves, Kept, Exclusive, Marks, Locked, Looking
  <2>2. PagesOk'
    BY <1>1, <1>4, <1>5 DEF IInv, LookupInv, PagesOk, Moves, Kept, Exclusive, Marks, Locked, Looking
  <2> QED BY <2>1, <2>2
<1>8. HitOk' /\ SlotsOk' /\ LookOk'
  BY <1>1, <1>4, <1>5, LookupKept DEF IInv, Looking
<1>9. CodeInv'
  <2>1. \A q \in registry' \ translated :
          \E u \in Threads : inval' = u /\ at'[u].pc = "unprotect" /\ at'[u].page = q
    BY <1>1, <1>5 DEF IInv, CodeInv, RegisteredIsTranslated, Is, Page, Moves, Kept
  <2> QED BY <1>1, <1>4, <1>5, <2>1, CodeKept DEF Marks
<1>10. FaultInv'
  <2>1. ~b => p \in registry \/ Entered(p)
    BY <1>1, <1>3 DEF IInv, FaultInv, HeldOk
  <2>2. Entered(p) => Entered(p)'
    BY <1>1, <1>5 DEF Entered, Moves, Kept
  <2>3. at'[t].pc = "fault" /\ ~at'[t].raced => at'[t].page \in registry' \/ Entered(at[t].page)'
    BY <1>1, <1>4, <1>5, <2>1, <2>2
  <2> QED BY <1>1, <1>4, <1>5, <2>3, FaultKept DEF Opening
<1> QED BY <1>6, <1>7, <1>8, <1>9, <1>10 DEF IInv, LookupInv

\* The handler asks the registry while nobody is about to enter the page.
LEMMA HandleSegvStep ==
  ASSUME IInv, NEW t \in Threads, HandleSegv(t)
  PROVE  IInv'
<1> PICK p \in Pages : p = at[t].page
  BY PagesTyped DEF IInv
<1>1. /\ at[t].pc = "fault" /\ pageLock = None
      /\ UNCHANGED <<rec, host, slots, memLock, ops, registry, translated, cached, pageLock, inval,
                     granted, failedOpen, overrun, shut>>
  BY DEF HandleSegv, Is, memory, code, locks, opened
<1>2. PICK w \in {"drop", "crash"} : Goto(t, w) /\ (w = "crash" => p \notin registry)
  BY DEF HandleSegv, Page
<1>3. /\ Moves(t) /\ at'[t].pc = w /\ at'[t].page = p /\ at'[t].raced = at[t].raced
  <2>1. w \in Places
    BY DEF Places
  <2> QED BY <1>2, <2>1, GotoMoves
<1>4. TypeOK'
  BY <1>1, <1>3 DEF IInv, LookupInv, TypeOK, Moves, AtRec
<1>5. LocksOk'
  BY <1>1, <1>3 DEF IInv, LookupInv, LocksOk, Moves, Kept, Exclusive, Marks, Locked, Looking
<1>6. PagesOk'
  BY <1>1, <1>3 DEF IInv, LookupInv, PagesOk, Moves, Kept, Exclusive, Marks, Locked, Looking
<1>7. HitOk' /\ SlotsOk' /\ LookOk'
  BY <1>1, <1>3, LookupKept DEF IInv, Looking
<1>8. CodeInv'
  <2>1. \A q \in registry' \ translated :
          \E u \in Threads : inval' = u /\ at'[u].pc = "unprotect" /\ at'[u].page = q
    BY <1>1, <1>3 DEF IInv, CodeInv, RegisteredIsTranslated, Is, Page, Moves, Kept
  <2> QED BY <1>1, <1>3, <2>1, CodeKept DEF Marks
<1>9. FaultInv'
  <2>1. ~Entered(p)
    BY <1>1, TrackingConstants DEF IInv, LookupInv, LocksOk, Entered, Locked
  <2>2. w = "crash" => at[t].raced
    BY <1>1, <1>2, <2>1 DEF IInv, FaultInv, FaultOk
  <2> QED BY <1>1, <1>3, <2>2, FaultKept DEF Opening
<1> QED BY <1>4, <1>5, <1>6, <1>7, <1>8, <1>9 DEF IInv, LookupInv

-----------------------------------------------------------------------------
(* The mark.                                                               *)

\* A compilation marks a page that is not registered, as no invalidation is under way.
LEMMA CompileStep ==
  ASSUME IInv, NEW t \in Threads, NEW p \in Pages, Compile(t, p)
  PROVE  IInv'
<1>1. /\ at[t].pc = "run" /\ inval = None /\ "X" \in rec[p] /\ p \notin translated
      /\ translated' = translated \cup {p} /\ cached' = [cached EXCEPT ![t] = @ \cup {p}]
      /\ UNCHANGED <<rec, host, slots, memLock, ops, registry, pageLock, inval,
                     granted, failedOpen, overrun, shut>>
  BY DEF Compile, Is, Known, memory, locks, opened
<1>2. Moves(t) /\ at'[t].pc = "mark" /\ at'[t].page = p
  <2>1. "mark" \in Places
    BY DEF Places
  <2> QED BY <2>1, StartMoves DEF Compile
<1>3. translated \subseteq Pages
  BY DEF IInv, LookupInv, TypeOK
<1>4. cached' \in [Threads -> SUBSET Pages] /\ \A u \in Threads : u # t => cached'[u] = cached[u]
  BY <1>1 DEF IInv, LookupInv, TypeOK
<1>5. \A u \in Threads : at[u].pc \notin Exclusive
  BY <1>1, TrackingConstants DEF IInv, LookupInv, LocksOk
<1>6. p \notin registry
  BY <1>1, <1>5 DEF IInv, CodeInv, RegisteredIsTranslated, Is, Exclusive
<1>7. TypeOK'
  BY <1>1, <1>2, <1>3, <1>4 DEF IInv, LookupInv, TypeOK, Moves, AtRec
<1>8. LocksOk'
  BY <1>1, <1>2, TrackingConstants
     DEF IInv, LookupInv, LocksOk, Moves, Kept, Exclusive, Marks, Locked, Looking
<1>9. PagesOk'
  BY <1>1, <1>2, <1>5 DEF IInv, LookupInv, PagesOk, Moves, Kept, Exclusive, Marks, Locked, Looking
<1>10. HitOk' /\ SlotsOk' /\ LookOk'
  BY <1>1, <1>2, LookupKept DEF IInv, Looking
<1>11. CodeInv'
  <2>1. \A q \in Pages : Excused(q) => Excused(q)'
    BY <1>1, <1>2 DEF Excused, Owes, Moves, Kept
  <2>2. \A q \in Pages : q = p \/ Marked(q) => Marked(q)'
    BY <1>1, <1>2 DEF Marked, Marks, Moves, Kept
  <2>3. OpenOk'
    BY <1>1, <1>2 DEF IInv, CodeInv, OpenOk, Gives, Moves, Kept
  <2>4. GiveOk'
    BY <1>1, <1>2 DEF IInv, CodeInv, GiveOk, Moves, Kept
  <2>5. Closed'
    BY <1>1, <1>3, <2>1, <2>2 DEF IInv, CodeInv, Closed
  <2>6. ClosedBehind'
    BY <1>1, <1>3, <1>6, <2>1 DEF IInv, CodeInv, ClosedBehind
  <2>7. RegisterOk'
    <3>1. \A u \in Threads : at[u].page \in Pages
      BY PagesTyped DEF IInv
    <3> QED BY <1>1, <1>2, <2>1, <3>1 DEF IInv, CodeInv, RegisterOk, Moves, Kept
  <2>8. RegisteredIsTranslated'
    BY <1>1, <1>2 DEF IInv, CodeInv, RegisteredIsTranslated, Is, Page, Moves, Kept
  <2> QED BY <2>3, <2>4, <2>5, <2>6, <2>7, <2>8 DEF CodeInv
<1>12. FaultInv'
  BY <1>1, <1>2, FaultKept DEF Opening
<1> QED BY <1>7, <1>8, <1>9, <1>10, <1>11, <1>12 DEF IInv, LookupInv

\* A mark comes back from its page, which is excused, closed, or was passed over.
LEMMA MarkReturns ==
  ASSUME IInv, NEW t \in Threads, at[t].pc \in Marks, Moves(t), at'[t].pc = "run",
         NEW p \in Pages, p = at[t].page,
         UNCHANGED <<rec, host, slots, memLock, ops, translated, cached, inval, granted, shut>>,
         registry' = IF at[t].pc = "markRegister" THEN registry \cup {p} ELSE registry,
         at[t].pc \in Locked => pageLock' = None,
         at[t].pc \notin Locked => pageLock' = pageLock,
         failedOpen \subseteq failedOpen', failedOpen' \subseteq failedOpen \cup {p},
         overrun \subseteq overrun', overrun' \subseteq overrun \cup {p},
         "W" \in host[p] => Excused(p)'
  PROVE  IInv'
<1>1. /\ translated \subseteq Pages /\ p \in translated /\ p = at[t].page
      /\ \A u \in Threads : at[u].page \in Pages
  BY PagesTyped DEF IInv, LookupInv, TypeOK, PagesOk
<1>2. TypeOK'
  <2>1. pageLock' \in Threads \cup {None}
    BY DEF IInv, LookupInv, TypeOK
  <2>2. registry' \subseteq Pages /\ failedOpen' \subseteq Pages /\ overrun' \subseteq Pages
    BY DEF IInv, LookupInv, TypeOK
  <2> QED BY <2>1, <2>2 DEF IInv, LookupInv, TypeOK, Moves, AtRec
<1>3. LocksOk'
  BY TrackingConstants DEF IInv, LookupInv, LocksOk, Moves, Kept, Exclusive, Marks, Locked, Looking
<1>4. PagesOk'
  <2>1. \A u \in Threads : u # t /\ at[u].pc \in Exclusive => FALSE
    BY TrackingConstants DEF IInv, LookupInv, LocksOk
  <2>2. \A u \in Threads : u # t /\ at[u].pc \in Locked => registry' = registry
    <3> SUFFICES ASSUME NEW u \in Threads, u # t, at[u].pc \in Locked
                 PROVE  registry' = registry
      OBVIOUS
    <3>1. pageLock = u
      BY DEF IInv, LookupInv, LocksOk
    <3>2. at[t].pc \notin Locked
      BY <3>1 DEF IInv, LookupInv, LocksOk
    <3>3. at[t].pc = "mark"
      BY <3>2 DEF Marks, Locked, Looking
    <3> QED BY <3>3
  <2> QED BY <2>1, <2>2 DEF IInv, LookupInv, PagesOk, Moves, Kept, Exclusive, Marks, Locked, Looking
<1>5. HitOk' /\ SlotsOk' /\ LookOk'
  BY LookupKept DEF IInv, Looking
<1>6. CodeInv'
  <2>1. \A u \in Threads : Owes(at[u]) => Owes(at'[u]) /\ at'[u].page = at[u].page
    BY DEF Owes, Moves, Kept, Marks
  <2>2. \A q \in Pages : Excused(q) => Excused(q)'
    BY <2>1 DEF Excused
  <2>3. \A q \in Pages : q # p /\ Marked(q) => Marked(q)'
    BY DEF Marked, Moves, Kept
  <2>4. OpenOk'
    BY DEF IInv, CodeInv, OpenOk, Gives, Moves, Kept, Marks
  <2>5. GiveOk'
    BY DEF IInv, CodeInv, GiveOk, Moves, Kept
  <2>6. Closed'
    BY <1>1, <2>2, <2>3 DEF IInv, CodeInv, Closed
  <2>7. ClosedBehind'
    BY <1>1, <2>2 DEF IInv, CodeInv, ClosedBehind
  <2>8. RegisterOk'
    BY <1>1, <2>2 DEF IInv, CodeInv, RegisterOk, Moves, Kept
  <2>9. RegisteredIsTranslated'
    BY <1>1 DEF IInv, CodeInv, RegisteredIsTranslated, Is, Page, Moves, Kept, Marks
  <2> QED BY <2>4, <2>5, <2>6, <2>7, <2>8, <2>9 DEF CodeInv
<1>7. FaultInv'
  BY FaultKept DEF Opening, Marks
<1> QED BY <1>2, <1>3, <1>4, <1>5, <1>6, <1>7 DEF IInv, LookupInv

\* A page that is registered or has lost its mapping is passed over.
LEMMA MarkSkipStep ==
  ASSUME IInv, NEW t \in Threads, MarkSkip(t)
  PROVE  IInv'
<1> PICK p \in Pages : p = at[t].page
  BY PagesTyped DEF IInv
<1>1. /\ at[t].pc = "mark" /\ (p \in registry \/ "X" \notin rec[p])
      /\ UNCHANGED <<rec, host, slots, memLock, ops, registry, translated, cached, pageLock, inval,
                     granted, failedOpen, overrun, shut>>
  BY DEF MarkSkip, Is, Skipped, Page, memory, code, locks, opened
<1>2. Moves(t) /\ at'[t].pc = "run"
  BY ReturnMoves DEF MarkSkip
<1>3. "W" \in host[p] => Excused(p)
  BY <1>1 DEF IInv, LookupInv, PagesOk, Marks, CodeInv, ClosedBehind
<1>4. Excused(p) => Excused(p)'
  BY <1>1, <1>2 DEF Excused, Owes, Moves, Kept
<1> QED BY <1>1, <1>2, <1>3, <1>4, MarkReturns DEF Marks, Locked, Looking

\* A mark begins to look for its page.
LEMMA MarkFindStep ==
  ASSUME IInv, NEW t \in Threads, MarkFind(t)
  PROVE  IInv'
<1> DEFINE b == memLock # None
           r == [at[t] EXCEPT !.pc = "markRead", !.hit = Found(t), !.raced = b]
<1> PICK p \in Pages : p = at[t].page
  BY PagesTyped DEF IInv
<1>1. /\ at[t].pc = "mark" /\ pageLock = None /\ p \notin registry /\ "X" \in rec[p]
      /\ pageLock' = t
      /\ UNCHANGED <<rec, host, slots, memLock, ops, registry, translated, cached, inval,
                     granted, failedOpen, overrun, shut>>
  BY DEF MarkFind, Is, Skipped, Page, memory, code, opened
<1>2. Found(t) = Rank(rec, p) /\ Found(t) \in Pages /\ Found(t) \in 0 .. NumPages
  <2>1. Found(t) \in Pages
    BY <1>1, RankFacts DEF Found, Page, IInv, LookupInv, TypeOK
  <2> QED BY <2>1, PageFacts DEF Found, Page, Pages
<1>3. at \in [Threads -> AtRec] /\ at[t] \in AtRec
  BY DEF IInv, LookupInv, TypeOK, AtRec
<1>4. /\ r \in AtRec /\ r.pc = "markRead" /\ r.page = p /\ r.hit = Found(t) /\ r.raced = b
      /\ b \in BOOLEAN
  BY <1>2, <1>3 DEF AtRec, Places
<1>5. at' = [at EXCEPT ![t] = r]
  BY DEF MarkFind
<1> HIDE DEF r
<1>6. Moves(t) /\ at'[t] = r
  BY <1>3, <1>4, <1>5, AtStep, MovesAlone
<1>7. TypeOK'
  BY <1>1, <1>6 DEF IInv, LookupInv, TypeOK, Moves, AtRec
<1>8. LocksOk'
  BY <1>1, <1>4, <1>6, TrackingConstants
     DEF IInv, LookupInv, LocksOk, Moves, Kept, Exclusive, Marks, Locked, Looking
<1>9. PagesOk'
  BY <1>1, <1>4, <1>6 DEF IInv, LookupInv, PagesOk, Moves, Kept, Exclusive, Marks, Locked, Looking
<1>10. HitOk' /\ SlotsOk' /\ LookOk'
  <2>1. ~at'[t].raced => Informed(at'[t])
    BY <1>1, <1>2, <1>4, <1>6 DEF Informed
  <2> QED BY <1>1, <1>2, <1>4, <1>6, <2>1, LookupKept DEF IInv
<1>11. CodeInv'
  <2>1. \A q \in registry' \ translated :
          \E u \in Threads : inval' = u /\ at'[u].pc = "unprotect" /\ at'[u].page = q
    BY <1>1, <1>4, <1>6 DEF IInv, CodeInv, RegisteredIsTranslated, Is, Page, Moves, Kept
  <2> QED BY <1>1, <1>4, <1>6, <2>1, CodeKept DEF Marks
<1>12. FaultInv'
  BY <1>1, <1>4, <1>6, FaultKept DEF Opening
<1> QED BY <1>7, <1>8, <1>9, <1>10, <1>11, <1>12 DEF IInv, LookupInv

\* A lookup that no operation has overtaken answers from the page's own entry.
LEMMA TrueAnswer ==
  ASSUME LookupInv, NEW t \in Threads, at[t].pc \in {"markRead", "unprotectRead"}
  PROVE  /\ Answer(t) \in BOOLEAN
         /\ ~at[t].raced => (Answer(t) <=> "W" \in rec[at[t].page])
<1>1. at[t].hit \in Pages /\ slots \in [Pages -> BOOLEAN]
  BY DEF LookupInv, HitOk, TypeOK
<1>2. ASSUME ~at[t].raced
      PROVE  Answer(t) <=> "W" \in rec[at[t].page]
  <2>1. at[t].hit = Rank(rec, at[t].page) /\ "X" \in rec[at[t].page]
    BY <1>2 DEF LookupInv, LookOk, Looking, Informed
  <2>2. at[t].page \in Exec(rec)
    BY <2>1, PagesTyped DEF Exec
  <2>3. slots[Rank(rec, at[t].page)] = ("W" \in rec[at[t].page])
    BY <2>2 DEF LookupInv, SlotsOk
  <2> QED BY <2>1, <2>3 DEF Answer
<1> QED BY <1>1, <1>2 DEF Answer

\* The entry is read again: a page that is said to be read-only is left as it is.
LEMMA MarkReadStep ==
  ASSUME IInv, NEW t \in Threads, MarkRead(t)
  PROVE  IInv'
<1> PICK p \in Pages : p = at[t].page
  BY PagesTyped DEF IInv
<1>1. /\ at[t].pc = "markRead"
      /\ UNCHANGED <<rec, host, slots, memLock, ops, registry, translated, cached, inval,
                     granted, failedOpen, shut>>
  BY DEF MarkRead, Is, memory, code
<1>2. ~at[t].raced => (Answer(t) <=> "W" \in rec[p])
  BY <1>1, TrueAnswer DEF IInv
<1>3. CASE Answer(t)
  <2>1. Moves(t) /\ at'[t].pc = "markClose" /\ at'[t].page = p /\ at'[t].raced = at[t].raced
    <3>1. "markClose" \in Places
      BY DEF Places
    <3> QED BY <1>3, <3>1, GotoMoves DEF MarkRead
  <2>2. UNCHANGED <<pageLock, overrun>>
    BY <1>3 DEF MarkRead
  <2>3. TypeOK'
    BY <1>1, <2>1, <2>2 DEF IInv, LookupInv, TypeOK, Moves, AtRec
  <2>4. LocksOk'
    BY <1>1, <2>1, <2>2 DEF IInv, LookupInv, LocksOk, Moves, Kept, Exclusive, Marks, Locked, Looking
  <2>5. PagesOk'
    BY <1>1, <2>1 DEF IInv, LookupInv, PagesOk, Moves, Kept, Exclusive, Marks, Locked, Looking
  <2>6. HitOk' /\ SlotsOk' /\ LookOk'
    <3>1. ~at'[t].raced => Informed(at'[t])
      BY <1>1, <2>1 DEF IInv, LookupInv, LookOk, Looking, Informed
    <3> QED BY <1>1, <2>1, <3>1, LookupKept DEF IInv
  <2>7. CodeInv'
    <3>1. \A q \in registry' \ translated :
            \E u \in Threads : inval' = u /\ at'[u].pc = "unprotect" /\ at'[u].page = q
      BY <1>1, <2>1 DEF IInv, CodeInv, RegisteredIsTranslated, Is, Page, Moves, Kept
    <3> QED BY <1>1, <2>1, <2>2, <3>1, CodeKept DEF Marks
  <2>8. FaultInv'
    BY <1>1, <2>1, FaultKept DEF Opening
  <2> QED BY <2>3, <2>4, <2>5, <2>6, <2>7, <2>8 DEF IInv, LookupInv
<1>4. CASE ~Answer(t)
  <2>1. Moves(t) /\ at'[t].pc = "run"
    BY <1>4, ReturnMoves DEF MarkRead
  <2>2. /\ pageLock' = None
        /\ overrun' = overrun \cup {q \in {p} : at[t].raced /\ "W" \in rec[q]}
    BY <1>4 DEF MarkRead, Page
  <2>3. "W" \in host[p] => Excused(p)'
    <3> SUFFICES ASSUME "W" \in host[p] PROVE Excused(p)'
      OBVIOUS
    <3>1. CASE "W" \in rec[p]
      BY <1>2, <1>4, <2>2, <3>1 DEF Excused
    <3>2. CASE "W" \notin rec[p] /\ p \in overrun
      BY <2>2, <3>2 DEF Excused
    <3>3. CASE "W" \notin rec[p] /\ p \notin overrun
      <4>1. PICK u \in Threads : Gives(at[u], p) /\ "W" \in at[u].flags
        BY <3>3 DEF IInv, CodeInv, OpenOk
      <4>2. u # t /\ at[u].pc = "publish" /\ at[u].page = p
        BY <1>1, <4>1 DEF Gives
      <4>3. ~at[u].lost => p \in granted
        BY <3>3, <4>1, <4>2 DEF IInv, CodeInv, GiveOk
      <4>4. CASE at[u].lost
        BY <2>1, <4>2, <4>4 DEF Excused, Owes, Moves, Kept
      <4>5. CASE ~at[u].lost
        BY <1>1, <4>3, <4>5 DEF Excused
      <4> QED BY <4>4, <4>5
    <3> QED BY <3>1, <3>2, <3>3
  <2>4. overrun \subseteq overrun' /\ overrun' \subseteq overrun \cup {p}
    BY <2>2
  <2> QED BY <1>1, <2>1, <2>2, <2>3, <2>4, MarkReturns DEF Marks, Locked, Looking
<1> QED BY <1>3, <1>4

\* The page is closed, or stays open and is known to be.
LEMMA MarkCloseStep ==
  ASSUME IInv, NEW t \in Threads, MarkClose(t)
  PROVE  IInv'
<1> PICK p \in Pages : p = at[t].page
  BY PagesTyped DEF IInv
<1>1. /\ at[t].pc = "markClose"
      /\ UNCHANGED <<rec, slots, memLock, ops, registry, translated, cached, inval>>
  BY DEF MarkClose, Is, code
<1>2. CASE UNCHANGED host /\ failedOpen' = failedOpen \cup {p} /\ pageLock' = None /\ Return(t)
           /\ UNCHANGED <<granted, overrun, shut>>
  <2>1. Moves(t) /\ at'[t].pc = "run"
    BY <1>2, ReturnMoves
  <2>2. Excused(p)'
    BY <1>2 DEF Excused
  <2> QED BY <1>1, <1>2, <2>1, <2>2, MarkReturns DEF Marks, Locked, Looking
<1>3. CASE /\ host' = [host EXCEPT ![p] = {"R", "X"}] /\ Goto(t, "markRegister")
           /\ granted' = granted \ {p} /\ overrun' = overrun \ {p}
           /\ shut' = shut \cup {q \in {p} : at[t].raced /\ TakenFrom(q, "X")}
           /\ UNCHANGED <<pageLock, failedOpen>>
  <2>1. Moves(t) /\ at'[t].pc = "markRegister" /\ at'[t].page = p
    <3>1. "markRegister" \in Places
      BY DEF Places
    <3> QED BY <1>3, <3>1, GotoMoves
  <2>2. /\ host' \in [Pages -> Flags] /\ "W" \notin host'[p]
        /\ \A q \in Pages : q # p => host'[q] = host[q]
    <3>1. {"R", "X"} \in Flags
      BY DEF Flags
    <3>2. host \in [Pages -> Flags]
      BY DEF IInv, LookupInv, TypeOK
    <3> QED BY <1>3, <3>1, <3>2
  <2>3. /\ shut \subseteq shut' /\ shut' \subseteq shut \cup {p}
        /\ at[t].raced /\ TakenFrom(p, "X") => p \in shut'
    BY <1>3
  <2>4. \A u \in Threads : at[u].page \in Pages
    BY PagesTyped DEF IInv
  <2>5. TypeOK'
    <3>1. granted' \subseteq Pages /\ overrun' \subseteq Pages /\ shut' \subseteq Pages
      BY <1>3, <2>3 DEF IInv, LookupInv, TypeOK
    <3> QED BY <1>1, <1>3, <2>1, <2>2, <3>1 DEF IInv, LookupInv, TypeOK, Moves, AtRec
  <2>6. LocksOk'
    BY <1>1, <1>3, <2>1
       DEF IInv, LookupInv, LocksOk, Moves, Kept, Exclusive, Marks, Locked, Looking
  <2>7. PagesOk'
    BY <1>1, <2>1 DEF IInv, LookupInv, PagesOk, Moves, Kept, Exclusive, Marks, Locked, Looking
  <2>8. HitOk' /\ SlotsOk' /\ LookOk'
    BY <1>1, <2>1, LookupKept DEF IInv, Looking
  <2>9. CodeInv'
    <3>1. \A q \in Pages : q # p /\ Excused(q) => Excused(q)'
      BY <1>1, <1>3, <2>1 DEF Excused, Owes, Moves, Kept
    <3>2. \A q \in Pages : Marked(q) => Marked(q)'
      BY <1>1, <2>1 DEF Marked, Marks, Moves, Kept
    <3>3. translated \subseteq Pages
      BY DEF IInv, LookupInv, TypeOK
    <3>4. OpenOk'
      BY <1>1, <1>3, <2>1, <2>2 DEF IInv, CodeInv, OpenOk, Gives, Moves, Kept
    <3>5. GiveOk'
      BY <1>1, <1>3, <2>1, <2>2, <2>4 DEF IInv, CodeInv, GiveOk, Moves, Kept
    <3>6. Closed'
      BY <1>1, <2>2, <3>1, <3>2, <3>3 DEF IInv, CodeInv, Closed
    <3>7. ClosedBehind'
      BY <1>1, <2>2, <3>1, <3>3 DEF IInv, CodeInv, ClosedBehind
    <3>8. RegisterOk'
      BY <2>1, <2>2, <2>4, <3>1 DEF IInv, CodeInv, RegisterOk, Moves, Kept
    <3>9. RegisteredIsTranslated'
      BY <1>1, <2>1 DEF IInv, CodeInv, RegisteredIsTranslated, Is, Page, Moves, Kept
    <3> QED BY <3>4, <3>5, <3>6, <3>7, <3>8, <3>9 DEF CodeInv
  <2>10. FaultInv'
    <3>1. \A q \in Pages :
            /\ Opened(q) => Opened(q)'
            /\ Given(q) => Given(q)'
            /\ Entered(q) => Entered(q)'
      BY <1>1, <2>1 DEF Opened, Opening, Given, Gives, Entered, Moves, Kept
    <3>2. Entered(p)'
      BY <2>1 DEF Entered
    <3>3. "X" \notin rec[p] => p \in shut'
      BY <1>1, <2>3 DEF IInv, LookupInv, LookOk, Looking, Informed, TakenFrom
    <3>4. ASSUME NEW u \in Threads, at[u].pc = "publish", at[u].page = p,
                 "X" \notin at[u].flags \/ "X" \notin rec[p]
          PROVE  p \in shut'
      <4>1. memLock # None
        BY <3>4, TrackingConstants DEF IInv, LookupInv, LocksOk
      <4>2. at[t].raced
        BY <1>1, <4>1 DEF IInv, LookupInv, LookOk, Looking, Informed
      <4>3. TakenFrom(p, "X")
        BY <3>4 DEF TakenFrom, Is, Page
      <4> QED BY <2>3, <4>2, <4>3
    <3>5. HeldOk'
      <4> SUFFICES ASSUME NEW q \in Pages, "W" \in rec'[q], "W" \notin host'[q]
                   PROVE  /\ q \notin registry' => q \in shut' \/ Opened(q)' \/ Given(q)' \/ Entered(q)'
                          /\ "X" \notin rec'[q] => q \in shut' \/ Opened(q)' \/ Given(q)'
        BY DEF HeldOk
      <4>1. CASE q = p
        BY <1>1, <3>2, <3>3, <4>1
      <4>2. CASE q # p
        BY <1>1, <2>2, <2>3, <3>1, <4>2 DEF IInv, FaultInv, HeldOk
      <4> QED BY <4>1, <4>2
    <3>6. ShutOk'
      <4> SUFFICES ASSUME NEW u \in Threads, at'[u].pc = "publish", "W" \in at'[u].flags,
                          "W" \notin host'[at'[u].page]
                   PROVE  /\ at'[u].page \notin registry' =>
                               at'[u].page \in shut' \/ Opened(at[u].page)' \/ Entered(at[u].page)'
                          /\ "X" \notin at'[u].flags \/ "X" \notin rec'[at'[u].page] =>
                               at'[u].page \in shut' \/ Opened(at[u].page)'
        BY DEF ShutOk
      <4> PICK q \in Pages : q = at[u].page
        BY <2>4
      <4>1. at[u].pc = "publish" /\ at'[u].page = q /\ at'[u].flags = at[u].flags
        BY <2>1 DEF Moves, Kept
      <4>2. CASE q = p
        BY <1>1, <3>2, <3>4, <4>1, <4>2
      <4>3. CASE q # p
        BY <1>1, <2>2, <2>3, <3>1, <4>1, <4>3 DEF IInv, FaultInv, ShutOk
      <4> QED BY <4>2, <4>3
    <3>7. FaultOk'
      BY <1>1, <2>1, <2>4, <3>1 DEF IInv, FaultInv, FaultOk, Moves, Kept
    <3> QED BY <3>5, <3>6, <3>7 DEF FaultInv
  <2> QED BY <2>5, <2>6, <2>7, <2>8, <2>9, <2>10 DEF IInv, LookupInv
<1> QED BY <1>2, <1>3 DEF MarkClose, Page

\* The page that was closed enters the registry.
LEMMA MarkRegisterStep ==
  ASSUME IInv, NEW t \in Threads, MarkRegister(t)
  PROVE  IInv'
<1> PICK p \in Pages : p = at[t].page
  BY PagesTyped DEF IInv
<1>1. /\ at[t].pc = "markRegister" /\ registry' = registry \cup {p} /\ pageLock' = None
      /\ UNCHANGED <<rec, host, slots, memLock, ops, translated, cached, inval,
                     granted, failedOpen, overrun, shut>>
  BY DEF MarkRegister, Is, Page, memory, code, opened
<1>2. Moves(t) /\ at'[t].pc = "run"
  BY ReturnMoves DEF MarkRegister
<1>3. "W" \in host[p] => Excused(p)
  BY <1>1 DEF IInv, CodeInv, RegisterOk
<1>4. Excused(p) => Excused(p)'
  BY <1>1, <1>2 DEF Excused, Owes, Moves, Kept
<1> QED BY <1>1, <1>2, <1>3, <1>4, MarkReturns DEF Marks, Locked, Looking

-----------------------------------------------------------------------------
(* The invalidation.                                                       *)

\* The translations of a page go while nobody compiles.
LEMMA InvalidateStep ==
  ASSUME IInv, NEW t \in Threads, InvalidateGuestCodeRange(t)
  PROVE  IInv'
<1> PICK p \in Pages : p = at[t].page
  BY PagesTyped DEF IInv
<1>1. /\ at[t].pc = "drop" /\ inval = None /\ inval' = t
      /\ \A u \in Threads : at[u].pc \notin Marks
      /\ translated' = translated \ {p} /\ failedOpen' = failedOpen \ {p}
      /\ cached' = [cached EXCEPT ![t] = @ \ {p}]
      /\ UNCHANGED <<rec, host, slots, memLock, ops, registry, pageLock, granted, overrun, shut>>
  BY DEF InvalidateGuestCodeRange, Drop, Is, Page, Compiling, Marks, memory
<1>2. Moves(t) /\ at'[t].pc = "unprotect" /\ at'[t].page = p
  <2>1. "unprotect" \in Places
    BY DEF Places
  <2> QED BY <2>1, GotoMoves DEF InvalidateGuestCodeRange
<1>3. /\ cached' \in [Threads -> SUBSET Pages] /\ p \notin cached'[t]
      /\ \A u \in Threads : u # t => cached'[u] = cached[u]
  BY <1>1 DEF IInv, LookupInv, TypeOK
<1>4. \A u \in Threads : at[u].pc \notin Exclusive
  BY <1>1, TrackingConstants DEF IInv, LookupInv, LocksOk
<1>5. translated \subseteq Pages /\ \A u \in Threads : at[u].page \in Pages
  BY PagesTyped DEF IInv, LookupInv, TypeOK
<1>6. TypeOK'
  BY <1>1, <1>2, <1>3 DEF IInv, LookupInv, TypeOK, Moves, AtRec
<1>7. LocksOk'
  BY <1>1, <1>2, <1>4, TrackingConstants
     DEF IInv, LookupInv, LocksOk, Moves, Kept, Exclusive, Marks, Locked, Looking
<1>8. PagesOk'
  BY <1>1, <1>2, <1>3, <1>4
     DEF IInv, LookupInv, PagesOk, Moves, Kept, Exclusive, Marks, Locked, Looking
<1>9. HitOk' /\ SlotsOk' /\ LookOk'
  BY <1>1, <1>2, LookupKept DEF IInv, Looking
<1>10. CodeInv'
  <2>1. \A q \in Pages : q # p /\ Excused(q) => Excused(q)'
    BY <1>1, <1>2 DEF Excused, Owes, Moves, Kept
  <2>2. \A q \in Pages : ~Marked(q)
    BY <1>1 DEF Marked
  <2>3. OpenOk'
    BY <1>1, <1>2 DEF IInv, CodeInv, OpenOk, Gives, Moves, Kept
  <2>4. GiveOk'
    BY <1>1, <1>2 DEF IInv, CodeInv, GiveOk, Moves, Kept
  <2>5. Closed'
    BY <1>1, <1>5, <2>1, <2>2 DEF IInv, CodeInv, Closed
  <2>6. ClosedBehind'
    BY <1>1, <1>5, <2>1 DEF IInv, CodeInv, ClosedBehind
  <2>7. RegisterOk'
    BY <1>1, <1>2 DEF RegisterOk, Moves, Kept, Marks
  <2>8. RegisteredIsTranslated'
    <3> SUFFICES ASSUME NEW q \in registry' \ translated'
                 PROVE  \E u \in Threads : inval' = u /\ at'[u].pc = "unprotect" /\ at'[u].page = q
      BY DEF RegisteredIsTranslated, Is, Page
    <3>1. q = p
      <4>1. \A u \in Threads : inval # u
        BY <1>1, TrackingConstants
      <4> QED BY <1>1, <4>1 DEF IInv, CodeInv, RegisteredIsTranslated
    <3> QED BY <1>1, <1>2, <3>1
  <2> QED BY <2>3, <2>4, <2>5, <2>6, <2>7, <2>8 DEF CodeInv
<1>11. FaultInv'
  BY <1>1, <1>2, FaultKept DEF Opening
<1> QED BY <1>6, <1>7, <1>8, <1>9, <1>10, <1>11 DEF IInv, LookupInv

-----------------------------------------------------------------------------
(* The page is opened again.                                               *)

\* The page leaves the registry; there is nothing to open.
LEMMA UnprotectSkipStep ==
  ASSUME IInv, NEW t \in Threads, UnprotectSkip(t)
  PROVE  IInv'
<1> PICK p \in Pages : p = at[t].page
  BY PagesTyped DEF IInv
<1>1. /\ at[t].pc = "unprotect" /\ pageLock = None /\ (p \notin registry \/ "X" \notin rec[p])
      /\ registry' = registry \ {p} /\ inval' = None
      /\ at' = [Raced(p) EXCEPT ![t] = Running]
      /\ UNCHANGED <<rec, host, slots, memLock, ops, translated, cached, pageLock,
                     granted, failedOpen, overrun, shut>>
  BY DEF UnprotectSkip, Is, Opens, Page, memory, code, opened
<1>2. Running \in AtRec /\ Running.pc = "run"
  BY PageFacts DEF AtRec, Flags, Running, Places
<1>3. /\ Moves(t) /\ at'[t].pc = "run"
      /\ \A u \in Threads : u # t /\ at[u].pc = "fault" /\ at[u].page = p => at'[u].raced
  BY <1>1, <1>2, RacedMoves
<1>4. inval = t /\ \A u \in Threads : u # t => at[u].pc \notin Exclusive
  BY <1>1 DEF IInv, LookupInv, LocksOk, Exclusive
<1>5. TypeOK'
  BY <1>1, <1>3 DEF IInv, LookupInv, TypeOK, Moves, AtRec
<1>6. LocksOk'
  BY <1>1, <1>3, <1>4, TrackingConstants
     DEF IInv, LookupInv, LocksOk, Moves, Kept, Exclusive, Marks, Locked, Looking
<1>7. PagesOk'
  BY <1>1, <1>3 DEF IInv, LookupInv, PagesOk, Moves, Kept, Exclusive, Marks, Locked, Looking
<1>8. HitOk' /\ SlotsOk' /\ LookOk'
  BY <1>1, <1>3, LookupKept DEF IInv, Looking
<1>9. CodeInv'
  <2>1. \A q \in registry' \ translated :
          \E u \in Threads : inval' = u /\ at'[u].pc = "unprotect" /\ at'[u].page = q
    BY <1>1, <1>4 DEF IInv, CodeInv, RegisteredIsTranslated, Is, Page
  <2> QED BY <1>1, <1>3, <2>1, CodeKept DEF Marks
<1>10. FaultInv'
  BY <1>1, <1>3, FaultKept DEF Opening
<1> QED BY <1>5, <1>6, <1>7, <1>8, <1>9, <1>10 DEF IInv, LookupInv

\* The page leaves the registry and is looked for.
LEMMA UnprotectFindStep ==
  ASSUME IInv, NEW t \in Threads, UnprotectFind(t)
  PROVE  IInv'
<1> DEFINE b == memLock # None
           r == [at[t] EXCEPT !.pc = "unprotectRead", !.hit = Found(t), !.raced = b]
<1> PICK p \in Pages : p = at[t].page
  BY PagesTyped DEF IInv
<1>1. /\ at[t].pc = "unprotect" /\ pageLock = None /\ p \in registry /\ "X" \in rec[p]
      /\ registry' = registry \ {p} /\ pageLock' = t
      /\ UNCHANGED <<rec, host, slots, memLock, ops, translated, cached, inval,
                     granted, failedOpen, overrun, shut>>
  BY DEF UnprotectFind, Is, Opens, Page, memory, code, opened
<1>2. Found(t) = Rank(rec, p) /\ Found(t) \in Pages /\ Found(t) \in 0 .. NumPages
  <2>1. Found(t) \in Pages
    BY <1>1, RankFacts DEF Found, Page, IInv, LookupInv, TypeOK
  <2> QED BY <2>1, PageFacts DEF Found, Page, Pages
<1>3. at \in [Threads -> AtRec] /\ at[t] \in AtRec
  BY DEF IInv, LookupInv, TypeOK, AtRec
<1>4. /\ r \in AtRec /\ r.pc = "unprotectRead" /\ r.page = p /\ r.hit = Found(t) /\ r.raced = b
      /\ b \in BOOLEAN
  BY <1>2, <1>3 DEF AtRec, Places
<1>5. at' = [Raced(p) EXCEPT ![t] = r]
  <2>1. Raced(p)[t] = at[t] /\ Raced(p) = [u \in Threads |-> Raced(p)[u]]
    BY <1>1 DEF Raced, Is
  <2>2. at' = [Raced(p) EXCEPT ![t].pc = "unprotectRead", ![t].hit = Found(t), ![t].raced = b]
    BY DEF UnprotectFind, Page
  <2> QED BY <2>1, <2>2
<1> HIDE DEF r
<1>6. /\ Moves(t) /\ at'[t] = r
      /\ \A u \in Threads : u # t /\ at[u].pc = "fault" /\ at[u].page = p => at'[u].raced
  BY <1>4, <1>5, RacedMoves
<1>7. TypeOK'
  BY <1>1, <1>6 DEF IInv, LookupInv, TypeOK, Moves, AtRec
<1>8. LocksOk'
  BY <1>1, <1>4, <1>6, TrackingConstants
     DEF IInv, LookupInv, LocksOk, Moves, Kept, Exclusive, Marks, Locked, Looking
<1>9. PagesOk'
  BY <1>1, <1>4, <1>6 DEF IInv, LookupInv, PagesOk, Moves, Kept, Exclusive, Marks, Locked, Looking
<1>10. HitOk' /\ SlotsOk' /\ LookOk'
  <2>1. ~at'[t].raced => Informed(at'[t])
    BY <1>1, <1>2, <1>4, <1>6 DEF Informed
  <2> QED BY <1>1, <1>2, <1>4, <1>6, <2>1, LookupKept DEF IInv
<1>11. CodeInv'
  <2>1. inval = t
    BY <1>1 DEF IInv, LookupInv, LocksOk, Exclusive
  <2>2. \A q \in registry' \ translated :
          \E u \in Threads : inval' = u /\ at'[u].pc = "unprotect" /\ at'[u].page = q
    BY <1>1, <2>1 DEF IInv, CodeInv, RegisteredIsTranslated, Is, Page
  <2> QED BY <1>1, <1>4, <1>6, <2>2, CodeKept DEF Marks
<1>12. FaultInv'
  <2>1. Opened(p)'
    BY <1>4, <1>6 DEF Opened, Opening
  <2>2. \A q \in registry : q \in registry' \/ "X" \notin rec[q] \/ Opened(q)'
    BY <1>1, <2>1
  <2>3. \A u \in Threads :
          u # t /\ at[u].pc = "fault" /\ at[u].page \in registry /\ ~at'[u].raced =>
            at[u].page \in registry'
    BY <1>1, <1>6
  <2> QED BY <1>1, <1>4, <1>6, <2>2, <2>3, FaultKept DEF Opening
<1> QED BY <1>7, <1>8, <1>9, <1>10, <1>11, <1>12 DEF IInv, LookupInv

\* The entry is read again.
LEMMA UnprotectReadStep ==
  ASSUME IInv, NEW t \in Threads, UnprotectRead(t)
  PROVE  IInv'
<1> DEFINE r == [at[t] EXCEPT !.pc = "open", !.hit = 0, !.told = Answer(t)]
<1> PICK p \in Pages : p = at[t].page
  BY PagesTyped DEF IInv
<1>1. /\ at[t].pc = "unprotectRead" /\ at' = [at EXCEPT ![t] = r]
      /\ UNCHANGED <<rec, host, slots, memLock, ops, registry, translated, cached, pageLock, inval,
                     granted, failedOpen, overrun, shut>>
  BY DEF UnprotectRead, Is, memory, code, locks, opened
<1>2. Answer(t) \in BOOLEAN /\ (~at[t].raced => (Answer(t) <=> "W" \in rec[p]))
  BY <1>1, TrueAnswer DEF IInv
<1>3. at \in [Threads -> AtRec] /\ at[t] \in AtRec
  BY DEF IInv, LookupInv, TypeOK, AtRec
<1>4. /\ r \in AtRec /\ r.pc = "open" /\ r.page = p /\ r.told = Answer(t)
      /\ r.raced = at[t].raced
  BY <1>2, <1>3, PageFacts DEF AtRec, Places
<1> HIDE DEF r
<1>5. Moves(t) /\ at'[t] = r
  BY <1>1, <1>3, <1>4, AtStep, MovesAlone
<1>6. TypeOK'
  BY <1>1, <1>5 DEF IInv, LookupInv, TypeOK, Moves, AtRec
<1>7. LocksOk'
  BY <1>1, <1>4, <1>5 DEF IInv, LookupInv, LocksOk, Moves, Kept, Exclusive, Marks, Locked, Looking
<1>8. PagesOk'
  BY <1>1, <1>4, <1>5 DEF IInv, LookupInv, PagesOk, Moves, Kept, Exclusive, Marks, Locked, Looking
<1>9. HitOk' /\ SlotsOk' /\ LookOk'
  <2>1. ~at'[t].raced => Informed(at'[t])
    <3>1. ~at[t].raced => memLock = None /\ "X" \in rec[p]
      BY <1>1 DEF IInv, LookupInv, LookOk, Looking, Informed
    <3>2. ~at[t].raced => r.told = ("W" \in rec[p])
      BY <1>2, <1>4
    <3> QED BY <1>4, <1>5, <3>1, <3>2 DEF Informed
  <2> QED BY <1>1, <1>4, <1>5, <2>1, LookupKept DEF IInv
<1>10. CodeInv'
  <2>1. \A q \in registry' \ translated :
          \E u \in Threads : inval' = u /\ at'[u].pc = "unprotect" /\ at'[u].page = q
    BY <1>1, <1>5 DEF IInv, CodeInv, RegisteredIsTranslated, Is, Page, Moves, Kept
  <2> QED BY <1>1, <1>4, <1>5, <2>1, CodeKept DEF Marks
<1>11. FaultInv'
  BY <1>1, <1>4, <1>5, FaultKept DEF Opening
<1> QED BY <1>6, <1>7, <1>8, <1>9, <1>10, <1>11 DEF IInv, LookupInv

\* The page gets its protection back, or does not and is known to be shut.
LEMMA UnprotectOpenStep ==
  ASSUME IInv, NEW t \in Threads, UnprotectOpen(t)
  PROVE  IInv'
<1> PICK p \in Pages : p = at[t].page
  BY PagesTyped DEF IInv
<1>1. /\ at[t].pc = "open" /\ pageLock' = None /\ inval' = None
      /\ UNCHANGED <<rec, slots, memLock, ops, registry, translated, cached, granted, failedOpen>>
  BY DEF UnprotectOpen, Is, code
<1>2. Moves(t) /\ at'[t].pc = "run"
  BY ReturnMoves DEF UnprotectOpen
<1>3. p \notin translated /\ p \notin registry /\ \A u \in Threads : at[u].page \in Pages
  BY <1>1, PagesTyped DEF IInv, LookupInv, PagesOk, Exclusive, Locked, Looking
<1>4. inval = t /\ pageLock = t
  BY <1>1 DEF IInv, LookupInv, LocksOk, Exclusive, Locked, Looking
<1>5. ~at[t].raced => memLock = None /\ at[t].told = ("W" \in rec[p])
  BY <1>1 DEF IInv, LookupInv, LookOk, Looking, Informed
<1>6. /\ host' \in [Pages -> Flags] /\ overrun' \subseteq Pages /\ shut' \subseteq Pages
      /\ \A q \in Pages : q # p =>
           /\ host'[q] = host[q]
           /\ q \in overrun' <=> q \in overrun
           /\ q \in shut' <=> q \in shut
  <2>1. {"R", "X"} \in Flags /\ {"R", "W", "X"} \in Flags
    BY DEF Flags
  <2>2. host \in [Pages -> Flags] /\ overrun \subseteq Pages /\ shut \subseteq Pages
    BY DEF IInv, LookupInv, TypeOK
  <2> QED BY <2>1, <2>2 DEF UnprotectOpen, Page
<1>7. \/ /\ at[t].told /\ "W" \in host'[p]
         /\ at[t].raced /\ TakenFrom(p, "W") => p \in overrun'
      \/ ~at[t].told /\ "W" \notin host'[p] /\ (at[t].raced => p \in shut')
      \/ UNCHANGED <<host, overrun>> /\ p \in shut'
  <2>1. host \in [Pages -> Flags]
    BY DEF IInv, LookupInv, TypeOK
  <2> QED BY <2>1 DEF UnprotectOpen, Page
<1>8. /\ "W" \in host'[p] /\ "W" \notin rec[p] =>
           p \in overrun' \/ \E u \in Threads : Gives(at[u], p) /\ "W" \in at[u].flags
      /\ \A u \in Threads :
           at[u].pc = "publish" /\ at[u].page = p /\ "W" \in host'[p] =>
             /\ "W" \in at[u].flags /\ ~at[u].lost /\ "W" \notin rec[p] =>
                  p \in granted \cup overrun'
             /\ "W" \notin at[u].flags => p \in overrun'
  <2>1. CASE /\ at[t].told /\ "W" \in host'[p]
             /\ at[t].raced /\ TakenFrom(p, "W") => p \in overrun'
    <3>1. "W" \notin rec[p] => p \in overrun'
      BY <1>5, <2>1 DEF TakenFrom
    <3>2. ASSUME NEW u \in Threads, at[u].pc = "publish", at[u].page = p, "W" \notin at[u].flags
          PROVE  p \in overrun'
      <4>1. memLock # None
        BY <3>2, TrackingConstants DEF IInv, LookupInv, LocksOk
      <4>2. TakenFrom(p, "W")
        BY <3>2 DEF TakenFrom, Is, Page
      <4> QED BY <1>5, <2>1, <4>1, <4>2
    <3> QED BY <3>1, <3>2
  <2>2. CASE "W" \notin host'[p]
    BY <2>2
  <2>3. CASE UNCHANGED <<host, overrun>>
    BY <2>3 DEF IInv, CodeInv, OpenOk, GiveOk
  <2> QED BY <1>7, <2>1, <2>2, <2>3
<1>9. "W" \notin host'[p] /\ ("W" \in rec[p] \/ memLock # None) => p \in shut'
  BY <1>5, <1>7
<1> HIDE <1>7
<1>10. TypeOK'
  BY <1>1, <1>2, <1>6 DEF IInv, LookupInv, TypeOK, Moves, AtRec
<1>11. LocksOk'
  BY <1>1, <1>2, <1>4, TrackingConstants
     DEF IInv, LookupInv, LocksOk, Moves, Kept, Exclusive, Marks, Locked, Looking
<1>12. PagesOk'
  BY <1>1, <1>2 DEF IInv, LookupInv, PagesOk, Moves, Kept, Exclusive, Marks, Locked, Looking
<1>13. HitOk' /\ SlotsOk' /\ LookOk'
  BY <1>1, <1>2, LookupKept DEF IInv, Looking
<1>14. CodeInv'
  <2>1. \A q \in Pages : q # p /\ Excused(q) => Excused(q)'
    BY <1>1, <1>2, <1>6 DEF Excused, Owes, Moves, Kept
  <2>2. \A q \in Pages : Marked(q) => Marked(q)'
    BY <1>1, <1>2 DEF Marked, Marks, Moves, Kept
  <2>3. translated \subseteq Pages
    BY DEF IInv, LookupInv, TypeOK
  <2>4. OpenOk'
    <3> SUFFICES ASSUME NEW q \in Pages, "W" \in host'[q], "W" \notin rec[q]
                 PROVE  q \in overrun' \/ \E u \in Threads : Gives(at'[u], q) /\ "W" \in at'[u].flags
      BY <1>1 DEF OpenOk
    <3>1. q \in overrun' \/ \E u \in Threads : Gives(at[u], q) /\ "W" \in at[u].flags
      BY <1>6, <1>8 DEF IInv, CodeInv, OpenOk
    <3> QED BY <1>1, <1>2, <3>1 DEF Gives, Moves, Kept
  <2>5. GiveOk'
    <3> SUFFICES ASSUME NEW u \in Threads, at'[u].pc = "publish", "W" \in host'[at'[u].page]
                 PROVE  /\ "W" \in at'[u].flags /\ ~at'[u].lost /\ "W" \notin rec[at'[u].page] =>
                             at'[u].page \in granted \cup overrun'
                        /\ "W" \notin at'[u].flags => at'[u].page \in overrun'
      BY <1>1 DEF GiveOk
    <3> PICK q \in Pages : q = at[u].page
      BY <1>3
    <3>1. /\ at[u].pc = "publish" /\ at'[u].page = q /\ at'[u].flags = at[u].flags
          /\ at'[u].lost = at[u].lost
      BY <1>2 DEF Moves, Kept
    <3>2. CASE q = p
      BY <1>8, <3>1, <3>2
    <3>3. CASE q # p
      BY <1>6, <3>1, <3>3 DEF IInv, CodeInv, GiveOk
    <3> QED BY <3>2, <3>3
  <2>6. Closed'
    BY <1>1, <1>3, <1>6, <2>1, <2>2, <2>3 DEF IInv, CodeInv, Closed
  <2>7. ClosedBehind'
    BY <1>1, <1>3, <1>6, <2>1, <2>3 DEF IInv, CodeInv, ClosedBehind
  <2>8. RegisterOk'
    BY <1>2, <1>4 DEF IInv, LookupInv, LocksOk, RegisterOk, Moves, Kept, Locked
  <2>9. RegisteredIsTranslated'
    BY <1>1, <1>4 DEF IInv, CodeInv, RegisteredIsTranslated, Is, Page
  <2> QED BY <2>4, <2>5, <2>6, <2>7, <2>8, <2>9 DEF CodeInv
<1>15. FaultInv'
  <2>1. \A q \in Pages :
          /\ q # p /\ Opened(q) => Opened(q)'
          /\ Given(q) => Given(q)'
          /\ Entered(q) => Entered(q)'
    BY <1>1, <1>2 DEF Opened, Given, Gives, Entered, Moves, Kept
  <2>2. HeldOk'
    <3> SUFFICES ASSUME NEW q \in Pages, "W" \in rec[q], "W" \notin host'[q]
                 PROVE  /\ q \notin registry => q \in shut' \/ Opened(q)' \/ Given(q)' \/ Entered(q)'
                        /\ "X" \notin rec[q] => q \in shut' \/ Opened(q)' \/ Given(q)'
      BY <1>1 DEF HeldOk
    <3>1. CASE q = p
      BY <1>9, <3>1
    <3>2. CASE q # p
      BY <1>6, <2>1, <3>2 DEF IInv, FaultInv, HeldOk
    <3> QED BY <3>1, <3>2
  <2>3. ShutOk'
    <3> SUFFICES ASSUME NEW u \in Threads, at'[u].pc = "publish", "W" \in at'[u].flags,
                        "W" \notin host'[at'[u].page]
                 PROVE  /\ at'[u].page \notin registry =>
                             at'[u].page \in shut' \/ Opened(at[u].page)' \/ Entered(at[u].page)'
                        /\ "X" \notin at'[u].flags \/ "X" \notin rec[at'[u].page] =>
                             at'[u].page \in shut' \/ Opened(at[u].page)'
      BY <1>1 DEF ShutOk
    <3> PICK q \in Pages : q = at[u].page
      BY <1>3
    <3>1. at[u].pc = "publish" /\ at'[u].page = q /\ at'[u].flags = at[u].flags
      BY <1>2 DEF Moves, Kept
    <3>2. memLock # None
      BY <3>1, TrackingConstants DEF IInv, LookupInv, LocksOk
    <3>3. CASE q = p
      BY <1>9, <3>1, <3>2, <3>3
    <3>4. CASE q # p
      BY <1>6, <2>1, <3>1, <3>4 DEF IInv, FaultInv, ShutOk
    <3> QED BY <3>3, <3>4
  <2>4. FaultOk'
    BY <1>1, <1>2, <1>3, <2>1 DEF IInv, FaultInv, FaultOk, Moves, Kept
  <2> QED BY <2>2, <2>3, <2>4 DEF FaultInv
<1> QED BY <1>10, <1>11, <1>12, <1>13, <1>14, <1>15 DEF IInv, LookupInv

-----------------------------------------------------------------------------
(* Operations of the window.                                               *)

\* The operation collects the code that is lost and changes the host's protection.
LEMMA ChangeMapStep ==
  ASSUME IInv, NEW t \in Threads, NEW p \in Pages, NEW kind \in {"map", "unmap", "protect"},
         NEW flags \in Flags, ChangeMap(t, kind, p, flags)
  PROVE  IInv'
<1> DEFINE l == Loses(kind, p, flags)
           r == [Running EXCEPT !.pc = "publish", !.page = p, !.flags = flags, !.lost = l]
<1>1. /\ at[t].pc = "run" /\ memLock = None /\ ops < MaxOps /\ memLock' = t /\ ops' = ops + 1
      /\ host' = [host EXCEPT ![p] = flags] /\ granted' = granted \cup Grants(p, flags, l)
      /\ overrun' = overrun \ {p} /\ shut' = shut \ {p}
      /\ at' = [u \in Threads |-> IF u = t THEN r ELSE Overtaken(at[u])]
      /\ UNCHANGED <<rec, slots, registry, translated, cached, pageLock, inval, failedOpen>>
  BY DEF ChangeMap, Is, code, locks
<1>2. l \in BOOLEAN
  BY DEF Loses
<1> HIDE DEF l
<1>3. r \in AtRec /\ r.pc = "publish" /\ r.page = p /\ r.flags = flags /\ r.lost = l
  <2>1. Running \in AtRec /\ "publish" \in Places
    BY PageFacts DEF AtRec, Flags, Running, Places
  <2> QED BY <1>2, <2>1 DEF AtRec
<1> HIDE DEF r
<1>4. at \in [Threads -> AtRec]
  BY DEF IInv, LookupInv, TypeOK, AtRec
<1>5. \A u \in Threads :
        /\ Overtaken(at[u]) \in AtRec /\ Kept(at[u], Overtaken(at[u]))
        /\ at[u].pc \in Looking => Overtaken(at[u]).raced
        /\ at[u].pc \notin Looking => Overtaken(at[u]) = at[u]
  <2> SUFFICES ASSUME NEW u \in Threads
               PROVE  /\ Overtaken(at[u]) \in AtRec /\ Kept(at[u], Overtaken(at[u]))
                      /\ at[u].pc \in Looking => Overtaken(at[u]).raced
                      /\ at[u].pc \notin Looking => Overtaken(at[u]) = at[u]
    OBVIOUS
  <2> DEFINE e == [at[u] EXCEPT !.raced = TRUE]
  <2>1. at[u] \in AtRec
    BY <1>4
  <2>2. /\ e \in AtRec /\ e.pc = at[u].pc /\ e.page = at[u].page /\ e.flags = at[u].flags
        /\ e.lost = at[u].lost /\ e.hit = at[u].hit /\ e.told = at[u].told /\ e.raced
    BY <2>1 DEF AtRec
  <2>3. Overtaken(at[u]) = IF at[u].pc \in Looking THEN e ELSE at[u]
    BY DEF Overtaken, Looking
  <2> HIDE DEF e
  <2> QED BY <2>1, <2>2, <2>3 DEF Kept
<1>6. /\ at' \in [Threads -> AtRec] /\ at'[t] = r
      /\ \A u \in Threads : u # t => at'[u] = Overtaken(at[u])
  BY <1>1, <1>3, <1>5
<1>7. /\ Moves(t) /\ at'[t].pc = "publish" /\ at'[t].page = p /\ at'[t].flags = flags
      /\ at'[t].lost = l
      /\ \A u \in Threads : u # t /\ at[u].pc \in Looking => at'[u].raced
      /\ \A u \in Threads : u # t /\ at[u].pc \notin Looking => at'[u] = at[u]
  BY <1>3, <1>4, <1>5, <1>6 DEF Moves
<1>8. /\ \A u \in Threads : at[u].pc # "publish"
      /\ \A u \in Threads : at[u].page \in Pages
  BY <1>1, TrackingConstants, PagesTyped DEF IInv, LookupInv, LocksOk
<1>9. /\ host' \in [Pages -> Flags] /\ host'[p] = flags
      /\ \A q \in Pages : q # p => host'[q] = host[q]
  BY <1>1 DEF IInv, LookupInv, TypeOK
<1>10. \/ l
       \/ p \in granted' \/ "W" \notin flags
  BY <1>1 DEF Grants
<1>11. granted \subseteq granted' /\ granted' \subseteq Pages
  BY <1>1 DEF Grants, IInv, LookupInv, TypeOK
<1>12. TypeOK'
  <2>1. ops' \in 0 .. MaxOps
    BY <1>1, TrackingConstants DEF IInv, LookupInv, TypeOK
  <2>2. overrun' \subseteq Pages /\ shut' \subseteq Pages
    BY <1>1 DEF IInv, LookupInv, TypeOK
  <2> QED BY <1>1, <1>6, <1>9, <1>11, <2>1, <2>2 DEF IInv, LookupInv, TypeOK, AtRec
<1>13. LocksOk'
  BY <1>1, <1>7, <1>8, TrackingConstants
     DEF IInv, LookupInv, LocksOk, Moves, Kept, Exclusive, Marks, Locked, Looking
<1>14. PagesOk'
  BY <1>1, <1>7 DEF IInv, LookupInv, PagesOk, Moves, Kept, Exclusive, Marks, Locked, Looking
<1>15. HitOk' /\ SlotsOk'
  BY <1>1, <1>7 DEF IInv, LookupInv, HitOk, SlotsOk, Exec, Rank, Moves, Kept
<1>16. LookOk'
  BY <1>7 DEF LookOk, Looking
<1>17. CodeInv'
  <2>1. \A q \in Pages : q # p /\ Excused(q) => Excused(q)'
    BY <1>1, <1>7, <1>11 DEF Excused, Owes, Moves, Kept
  <2>2. "W" \in flags => Excused(p)'
    BY <1>7, <1>10 DEF Excused, Owes
  <2>3. \A q \in Pages : Marked(q) => Marked(q)'
    BY <1>1, <1>7 DEF Marked, Marks, Moves, Kept
  <2>4. translated \subseteq Pages
    BY DEF IInv, LookupInv, TypeOK
  <2>5. OpenOk'
    BY <1>1, <1>7, <1>8, <1>9 DEF IInv, CodeInv, OpenOk, Gives
  <2>6. GiveOk'
    <3>1. \A u \in Threads : at'[u].pc = "publish" => u = t
      BY <1>7, <1>8 DEF Moves, Kept
    <3> QED BY <1>7, <1>9, <1>10, <3>1 DEF GiveOk
  <2>7. Closed'
    BY <1>1, <1>9, <2>1, <2>2, <2>3, <2>4 DEF IInv, CodeInv, Closed
  <2>8. ClosedBehind'
    BY <1>1, <1>9, <2>1, <2>2, <2>4 DEF IInv, CodeInv, ClosedBehind
  <2>9. RegisterOk'
    <3> SUFFICES ASSUME NEW u \in Threads, at'[u].pc = "markRegister", "W" \in host'[at'[u].page]
                 PROVE  Excused(at[u].page)'
      BY DEF RegisterOk
    <3> PICK q \in Pages : q = at[u].page
      BY <1>8
    <3>1. at[u].pc = "markRegister" /\ at'[u].page = q
      BY <1>7 DEF Moves, Kept
    <3>2. Excused(q)'
      BY <1>9, <2>1, <2>2, <3>1 DEF IInv, CodeInv, RegisterOk
    <3> QED BY <3>1, <3>2
  <2>10. RegisteredIsTranslated'
    BY <1>1, <1>7 DEF IInv, CodeInv, RegisteredIsTranslated, Is, Page, Moves, Kept
  <2> QED BY <2>5, <2>6, <2>7, <2>8, <2>9, <2>10 DEF CodeInv
<1>18. FaultInv'
  <2>1. \A q \in Pages :
          /\ Opened(q) => Opened(q)'
          /\ Given(q) => Given(q)'
          /\ Entered(q) => Entered(q)'
    BY <1>1, <1>7 DEF Opened, Opening, Given, Gives, Entered, Moves, Kept
  <2>2. HeldOk'
    <3> SUFFICES ASSUME NEW q \in Pages, "W" \in rec[q], "W" \notin host'[q]
                 PROVE  /\ q \notin registry => q \in shut' \/ Opened(q)' \/ Given(q)' \/ Entered(q)'
                        /\ "X" \notin rec[q] => q \in shut' \/ Opened(q)' \/ Given(q)'
      BY <1>1 DEF HeldOk
    <3>1. CASE q = p
      BY <1>7, <3>1 DEF Given, Gives
    <3>2. CASE q # p
      BY <1>1, <1>9, <2>1, <3>2 DEF IInv, FaultInv, HeldOk
    <3> QED BY <3>1, <3>2
  <2>3. ShutOk'
    <3>1. \A u \in Threads : at'[u].pc = "publish" => u = t
      BY <1>7, <1>8 DEF Moves, Kept
    <3> QED BY <1>7, <1>9, <3>1 DEF ShutOk
  <2>4. FaultOk'
    BY <1>1, <1>7, <1>8, <2>1 DEF IInv, FaultInv, FaultOk, Looking, Moves, Kept
  <2> QED BY <2>2, <2>3, <2>4 DEF FaultInv
<1> QED BY <1>12, <1>13, <1>14, <1>15, <1>16, <1>17, <1>18 DEF IInv, LookupInv

\* No two executable pages have the same entry.
LEMMA RankInjective ==
  ASSUME NEW r \in [Pages -> Flags], NEW p \in Exec(r), NEW q \in Exec(r), Rank(r, p) = Rank(r, q)
  PROVE  p = q
<1> DEFINE below(x) == {y \in Exec(r) : y <= x}
<1>1. \A x \in Exec(r), y \in Exec(r) : x < y => Cardinality(below(x)) # Cardinality(below(y))
  <2> SUFFICES ASSUME NEW x \in Exec(r), NEW y \in Exec(r), x < y,
                      Cardinality(below(x)) = Cardinality(below(y))
               PROVE  FALSE
    OBVIOUS
  <2>1. \A z \in Exec(r) : z \in Int
    BY DEF Exec, Pages
  <2>2. below(x) \subseteq below(y) /\ y \in below(y) /\ y \notin below(x)
    BY <2>1
  <2>3. IsFiniteSet(below(y))
    <3>1. NumPages \in Int /\ 1 \in Int
      BY PageFacts
    <3>2. IsFiniteSet(Pages)
      BY <3>1, FS_Interval DEF Pages
    <3>3. below(y) \subseteq Pages
      BY DEF Exec
    <3> QED BY <3>2, <3>3, FS_Subset
  <2> HIDE DEF below
  <2> QED BY <2>2, <2>3, FS_Subset
<1>2. Cardinality(below(p)) = Cardinality(below(q))
  BY DEF Rank
<1>3. p \in Int /\ q \in Int
  BY DEF Exec, Pages
<1> HIDE DEF below
<1> QED BY <1>1, <1>2, <1>3

\* A rebuild gives every executable page an entry that speaks of it.
LEMMA RebuiltFacts ==
  ASSUME slots \in [Pages -> BOOLEAN], NEW r \in [Pages -> Flags]
  PROVE  /\ Rebuilt(r) \in [Pages -> BOOLEAN]
         /\ \A p \in Exec(r) : Rebuilt(r)[Rank(r, p)] = ("W" \in r[p])
<1>1. Rebuilt(r) \in [Pages -> BOOLEAN]
  <2>1. ASSUME NEW i \in Pages
        PROVE  (IF \E q \in Exec(r) : Rank(r, q) = i
                THEN \E q \in Exec(r) : Rank(r, q) = i /\ "W" \in r[q]
                ELSE slots[i]) \in BOOLEAN
    OBVIOUS
  <2> QED BY <2>1, Zenon DEF Rebuilt
<1>2. ASSUME NEW p \in Exec(r)
      PROVE  Rebuilt(r)[Rank(r, p)] = ("W" \in r[p])
  <2>1. Rank(r, p) \in Pages
    <3>1. p \in Pages /\ "X" \in r[p]
      BY DEF Exec
    <3> QED BY <3>1, RankFacts
  <2>2. Rebuilt(r)[Rank(r, p)] = (\E q \in Exec(r) : Rank(r, q) = Rank(r, p) /\ "W" \in r[q])
    <3> DEFINE i == Rank(r, p)
    <3>1. \E q \in Exec(r) : Rank(r, q) = i
      OBVIOUS
    <3>2. i \in Pages
      BY <2>1
    <3> HIDE DEF i
    <3>3. Rebuilt(r)[i] = IF \E q \in Exec(r) : Rank(r, q) = i
                          THEN \E q \in Exec(r) : Rank(r, q) = i /\ "W" \in r[q]
                          ELSE slots[i]
      BY <3>2, Zenon DEF Rebuilt
    <3>4. Rebuilt(r)[i] = (\E q \in Exec(r) : Rank(r, q) = i /\ "W" \in r[q])
      BY <3>1, <3>3
    <3> QED BY <3>4 DEF i
  <2>3. (\E q \in Exec(r) : Rank(r, q) = Rank(r, p) /\ "W" \in r[q]) <=> "W" \in r[p]
    BY RankInjective
  <2>4. (\E q \in Exec(r) : Rank(r, q) = Rank(r, p) /\ "W" \in r[q]) = ("W" \in r[p])
    <3>1. CASE "W" \in r[p]
      <4>1. ("W" \in r[p]) = TRUE
        BY <3>1
      <4>2. (\E q \in Exec(r) : Rank(r, q) = Rank(r, p) /\ "W" \in r[q]) = TRUE
        BY <2>3, <3>1, Zenon
      <4> QED BY <4>1, <4>2, Zenon
    <3>2. CASE ~("W" \in r[p])
      <4>1. ("W" \in r[p]) = FALSE
        BY <3>2
      <4>2. (\E q \in Exec(r) : Rank(r, q) = Rank(r, p) /\ "W" \in r[q]) = FALSE
        BY <2>3, <3>2, Zenon
      <4> QED BY <4>1, <4>2, Zenon
    <3> QED BY <3>1, <3>2
  <2> QED BY <2>2, <2>4
<1> QED BY <1>1, <1>2

\* The record follows the host, and what is lost is to be invalidated.
LEMMA PublishStep ==
  ASSUME IInv, NEW t \in Threads, Publish(t)
  PROVE  IInv'
<1> PICK p \in Pages : p = at[t].page
  BY PagesTyped DEF IInv
<1> PICK flags \in Flags : flags = at[t].flags
  BY AtFields DEF IInv, LookupInv, TypeOK, AtRec
<1>1. /\ at[t].pc = "publish" /\ at[t].lost \in BOOLEAN
      /\ rec \in [Pages -> Flags] /\ slots \in [Pages -> BOOLEAN]
      /\ rec' = [rec EXCEPT ![p] = flags] /\ slots' = Rebuilt(rec') /\ memLock' = None
      /\ granted' = granted \cup Grants(p, flags, at[t].lost)
      /\ IF at[t].lost THEN Start(t, "drop", p) ELSE Return(t)
      /\ UNCHANGED <<host, ops, registry, translated, cached, pageLock, inval,
                     failedOpen, overrun, shut>>
  BY AtFields DEF Publish, Is, Page, code, locks, IInv, LookupInv, TypeOK, AtRec
<1>2. /\ Moves(t) /\ at'[t].pc \in {"run", "drop"}
      /\ at[t].lost => at'[t].pc = "drop" /\ at'[t].page = p
  <2>1. "drop" \in Places
    BY DEF Places
  <2> QED BY <1>1, <2>1, StartMoves, ReturnMoves
<1>3. /\ rec' \in [Pages -> Flags] /\ rec'[p] = flags
      /\ \A q \in Pages : q # p => rec'[q] = rec[q]
  BY <1>1
<1>4. /\ memLock = t /\ \A u \in Threads : u # t => at[u].pc # "publish"
      /\ \A u \in Threads : at[u].page \in Pages
  BY <1>1, PagesTyped DEF IInv, LookupInv, LocksOk
<1>5. /\ granted \subseteq granted' /\ granted' \subseteq Pages
      /\ "W" \in flags /\ ~at[t].lost => p \in granted'
  BY <1>1 DEF Grants, IInv, LookupInv, TypeOK
<1>6. slots' \in [Pages -> BOOLEAN] /\ SlotsOk'
  <2> DEFINE r == rec'
  <2>1. r \in [Pages -> Flags]
    BY <1>3
  <2> HIDE DEF r
  <2>2. /\ Rebuilt(r) \in [Pages -> BOOLEAN]
        /\ \A q \in Exec(r) : Rebuilt(r)[Rank(r, q)] = ("W" \in r[q])
    BY <1>1, <2>1, RebuiltFacts
  <2>3. slots' = Rebuilt(r)
    BY <1>1 DEF r
  <2> QED BY <2>2, <2>3 DEF SlotsOk, r, Exec, Rank
<1>7. TypeOK'
  BY <1>1, <1>2, <1>3, <1>5, <1>6 DEF IInv, LookupInv, TypeOK, Moves, AtRec
<1>8. LocksOk'
  BY <1>1, <1>2, <1>4, TrackingConstants
     DEF IInv, LookupInv, LocksOk, Moves, Kept, Exclusive, Marks, Locked, Looking
<1>9. PagesOk'
  BY <1>1, <1>2 DEF IInv, LookupInv, PagesOk, Moves, Kept, Exclusive, Marks, Locked, Looking
<1>10. HitOk'
  BY <1>2 DEF IInv, LookupInv, HitOk, Moves, Kept
<1>11. LookOk'
  <2> SUFFICES ASSUME NEW u \in Threads, at'[u].pc \in Looking PROVE at'[u].raced
    BY DEF LookOk
  <2>1. u # t
    BY <1>2 DEF Looking
  <2>2. Kept(at[u], at'[u])
    BY <2>1, <1>2 DEF Moves
  <2>3. at[u].pc \in Looking
    BY <2>2 DEF Kept
  <2>4. memLock # None
    BY <1>4, TrackingConstants
  <2>5. at[u].raced
    BY <2>3, <2>4 DEF IInv, LookupInv, LookOk, Informed
  <2> QED BY <2>2, <2>5 DEF Kept
<1>12. CodeInv'
  <2>1. \A q \in Pages : Excused(q) => Excused(q)'
    BY <1>1, <1>2, <1>5 DEF Excused, Owes, Moves, Kept
  <2>2. at[t].lost => Excused(p)'
    BY <1>2 DEF Excused, Owes
  <2>3. \A q \in Pages : Marked(q) => Marked(q)'
    BY <1>1, <1>2 DEF Marked, Marks, Moves, Kept
  <2>4. "W" \in host[p] /\ "W" \notin flags => p \in overrun
    BY <1>1 DEF IInv, CodeInv, GiveOk
  <2>5. translated \subseteq Pages
    BY DEF IInv, LookupInv, TypeOK
  <2>6. OpenOk'
    BY <1>1, <1>2, <1>3, <2>4 DEF IInv, CodeInv, OpenOk, Gives, Moves, Kept
  <2>7. GiveOk'
    BY <1>2, <1>4 DEF GiveOk, Moves, Kept
  <2>8. Closed'
    BY <1>1, <2>1, <2>3, <2>5 DEF IInv, CodeInv, Closed
  <2>9. ClosedBehind'
    <3> SUFFICES ASSUME NEW q \in translated, "W" \in host[q], q \in registry \/ "X" \notin rec'[q]
                 PROVE  Excused(q)'
      BY <1>1 DEF ClosedBehind
    <3>1. CASE q \in registry \/ q # p
      BY <1>3, <2>1, <2>5, <3>1 DEF IInv, CodeInv, ClosedBehind
    <3>2. CASE q = p
      BY <1>1, <1>5, <2>2, <2>4, <3>2 DEF Excused
    <3> QED BY <3>1, <3>2
  <2>10. RegisterOk'
    BY <1>1, <1>2, <1>4, <2>1 DEF IInv, CodeInv, RegisterOk, Moves, Kept
  <2>11. RegisteredIsTranslated'
    BY <1>1, <1>2 DEF IInv, CodeInv, RegisteredIsTranslated, Is, Page, Moves, Kept
  <2> QED BY <2>6, <2>7, <2>8, <2>9, <2>10, <2>11 DEF CodeInv
<1>13. FaultInv'
  <2>1. \A q \in Pages :
          /\ Opened(q) => Opened(q)'
          /\ Entered(q) => Entered(q)'
          /\ q # p /\ Given(q) => Given(q)'
    BY <1>1, <1>2 DEF Opened, Opening, Entered, Given, Gives, Moves, Kept
  <2>2. HeldOk'
    <3> SUFFICES ASSUME NEW q \in Pages, "W" \in rec'[q], "W" \notin host[q]
                 PROVE  /\ q \notin registry => q \in shut \/ Opened(q)' \/ Given(q)' \/ Entered(q)'
                        /\ "X" \notin rec'[q] => q \in shut \/ Opened(q)' \/ Given(q)'
      BY <1>1 DEF HeldOk
    <3>1. CASE q = p
      BY <1>1, <1>3, <2>1, <3>1 DEF IInv, FaultInv, ShutOk
    <3>2. CASE q # p
      BY <1>3, <2>1, <3>2 DEF IInv, FaultInv, HeldOk
    <3> QED BY <3>1, <3>2
  <2>3. ShutOk'
    <3>1. \A u \in Threads : at'[u].pc # "publish"
      BY <1>2, <1>4 DEF Moves, Kept
    <3> QED BY <3>1 DEF ShutOk
  <2>4. FaultOk'
    BY <1>1, <1>2, <1>4, <2>1 DEF IInv, FaultInv, FaultOk, Moves, Kept
  <2> QED BY <2>2, <2>3, <2>4 DEF FaultInv
<1> QED BY <1>6, <1>7, <1>8, <1>9, <1>10, <1>11, <1>12, <1>13 DEF IInv, LookupInv

-----------------------------------------------------------------------------
(* The theorems.                                                           *)

\* At first every page is executable, as the host has it, and nothing is translated.
LEMMA InitIInv == Init => IInv
<1> SUFFICES ASSUME Init PROVE IInv
  OBVIOUS
<1>1. at = [t \in Threads |-> Running] /\ Running \in AtRec /\ Running.pc = "run"
  BY PageFacts DEF Init, AtRec, Flags, Running, Places
<1>2. at \in [Threads -> AtRec] /\ \A u \in Threads : at[u].pc = "run"
  BY <1>1
<1>3. TypeOK
  <2>1. rec \in [Pages -> Flags] /\ host \in [Pages -> Flags]
    BY DEF Init, Flags
  <2>2. slots \in [Pages -> BOOLEAN] /\ cached \in [Threads -> SUBSET Pages]
    BY DEF Init
  <2>3. ops \in 0 .. MaxOps
    BY TrackingConstants DEF Init
  <2> QED BY <1>2, <2>1, <2>2, <2>3 DEF Init, TypeOK, AtRec
<1>4. HitOk /\ PagesOk /\ LookOk
  BY <1>2 DEF HitOk, PagesOk, LookOk, Marks, Exclusive, Locked, Looking
<1>5. LocksOk
  BY <1>2, TrackingConstants DEF Init, LocksOk, Marks, Exclusive, Locked, Looking
<1>6. SlotsOk
  <2> SUFFICES ASSUME NEW p \in Exec(rec) PROVE slots[Rank(rec, p)] = ("W" \in rec[p])
    BY DEF SlotsOk
  <2>1. Exec(rec) = 1 .. NumPages
    BY DEF Init, Exec, Pages
  <2>2. NumPages \in Nat /\ p \in 1 .. NumPages
    BY <2>1, PageFacts
  <2>3. {q \in Exec(rec) : q <= p} = 1 .. p
    BY <2>1, <2>2
  <2>4. Cardinality(1 .. p) = p
    <3>1. 1 \in Int /\ p \in Int /\ p >= 1
      BY <2>2
    <3>2. Cardinality(1 .. p) = IF 1 > p THEN 0 ELSE p - 1 + 1
      BY <3>1, FS_Interval
    <3> QED BY <3>1, <3>2
  <2>5. Rank(rec, p) = p
    BY <2>3, <2>4 DEF Rank
  <2>6. slots = [i \in Pages |-> "W" \in rec[i]] /\ p \in Pages
    BY <2>2 DEF Init, Pages
  <2> QED BY <2>5, <2>6
<1>7. CodeInv
  BY <1>2 DEF Init, CodeInv, OpenOk, GiveOk, Closed, ClosedBehind, RegisterOk, RegisteredIsTranslated
<1>8. FaultInv
  BY <1>2 DEF Init, FaultInv, HeldOk, ShutOk, FaultOk
<1> QED BY <1>3, <1>4, <1>5, <1>6, <1>7, <1>8 DEF IInv, LookupInv

\* Nothing happens.
LEMMA StutterStep == IInv /\ UNCHANGED vars => IInv'
<1> SUFFICES ASSUME IInv, UNCHANGED vars PROVE IInv'
  OBVIOUS
<1>1. UNCHANGED <<rec, host, slots, memLock, ops, registry, translated, cached, pageLock, inval, at,
                  granted, failedOpen, overrun, shut>>
  BY DEF vars, memory, locks, code, opened
<1>2. TypeOK' /\ HitOk' /\ LocksOk' /\ PagesOk' /\ SlotsOk' /\ LookOk'
  BY <1>1 DEF IInv, LookupInv, TypeOK, HitOk, LocksOk, PagesOk, SlotsOk, LookOk, Informed, Exec, Rank
<1>3. CodeInv'
  <2>1. RegisteredIsTranslated'
    BY <1>1 DEF IInv, CodeInv, RegisteredIsTranslated, Is, Page
  <2> QED BY <1>1, <2>1 DEF IInv, CodeInv, OpenOk, GiveOk, Closed, ClosedBehind, RegisterOk,
                            Excused, Marked, Gives
<1>4. FaultInv'
  BY <1>1 DEF IInv, FaultInv, HeldOk, ShutOk, FaultOk, Opened, Given, Gives, Entered
<1> QED BY <1>2, <1>3, <1>4 DEF IInv, LookupInv

\* Every step keeps the invariant.
LEMMA NextIInv == IInv /\ [Next]_vars => IInv'
<1> SUFFICES ASSUME IInv, [Next]_vars PROVE IInv'
  OBVIOUS
<1>1. ASSUME NEW t \in Threads, HostStep(t)
      PROVE  IInv'
  BY <1>1, MarkSkipStep, MarkFindStep, MarkReadStep, MarkCloseStep, MarkRegisterStep,
     HandleSegvStep, InvalidateStep, UnprotectSkipStep, UnprotectFindStep, UnprotectReadStep,
     UnprotectOpenStep, PublishStep DEF HostStep
<1>2. ASSUME NEW t \in Threads, GuestStep(t)
      PROVE  IInv'
  <2>1. CASE Run(t)
    BY <2>1, StutterStep DEF Run
  <2>2. CASE \E p \in Pages : Compile(t, p) \/ Lookup(t, p) \/ Fault(t, p)
    BY <2>2, CompileStep, LookupStep, FaultStep
  <2>3. CASE \E p \in Pages, kind \in {"map", "unmap", "protect"}, flags \in Flags :
               ChangeMap(t, kind, p, flags)
    BY <2>3, ChangeMapStep
  <2> QED BY <1>2, <2>1, <2>2, <2>3 DEF GuestStep
<1>3. CASE UNCHANGED vars
  BY <1>3, StutterStep
<1> QED BY <1>1, <1>2, <1>3 DEF Next

\* The invariant holds throughout.
LEMMA Invariance == Spec => []IInv
BY InitIInv, NextIInv, PTL DEF Spec

\* For any number of threads and pages: a page the shared code buffers hold
\* translations of is closed to the guest's writes, unless it is being marked, waits for
\* an invalidation that was asked for, was opened without a report, its mark failed, or a
\* mark or an invalidation acted on an answer that was overtaken; and an invalidation
\* opens no page that its own thread still has a translation of
\* (MarkGuestExecutableRange, InvalidateGuestCodeRange, UnprotectRange).
THEOREM TranslatedCodeIsClosed == Spec => []TranslatedIsClosed
<1>1. IInv => TranslatedIsClosed
  <2> SUFFICES ASSUME IInv PROVE TranslatedIsClosed
    OBVIOUS
  <2>1. ASSUME NEW p \in translated, "W" \in host[p]
        PROVE  p \in Unprotected
    <3>1. Excused(p) \/ Marked(p)
      BY <2>1 DEF IInv, CodeInv, Closed
    <3>2. Marked(p) => p \in BeingMarked
      BY DEF Marked, Marks, BeingMarked, Compiling, Page
    <3>3. Excused(p) => p \in granted \cup failedOpen \cup overrun \cup Reported
      BY DEF Excused, Owes, Reported, Is, Page
    <3> QED BY <3>1, <3>2, <3>3 DEF Unprotected
  <2>2. \A t \in Threads : at[t].pc \in Exclusive => Page(t) \notin Known(t)
    BY DEF IInv, LookupInv, PagesOk, Page, Known
  <2> QED BY <2>1, <2>2 DEF TranslatedIsClosed, Exclusive, IInv, LookupInv
<1> QED BY <1>1, Invariance, PTL

\* No page stays registered when its translations are gone, which would make the next
\* mark pass it over (InvalidateGuestCodeRange, UnprotectRange).
THEOREM RegistryIsNotStale == Spec => []RegisteredIsTranslated
<1>1. IInv => RegisteredIsTranslated
  BY DEF IInv, CodeInv
<1> QED BY <1>1, Invariance, PTL

\* No fault on a page the guest may write is taken for a genuine one unless it raced,
\* and who waits for a mutex waits for a thread that goes on (HandleSegv,
\* InvalidateGuestCodeRange, UnprotectRange).
THEOREM FaultsAreNotMistaken == Spec => []FaultsAreResumed
<1>1. IInv => FaultsAreResumed
  <2> SUFFICES ASSUME IInv, NEW t \in Threads
               PROVE  /\ Is(t, "crash") => at[t].raced
                      /\ Waits(t) => \E u \in Threads : ~Is(u, "run") /\ ~Waits(u)
    BY DEF FaultsAreResumed
  <2>1. Is(t, "crash") => at[t].raced
    BY DEF IInv, FaultInv, FaultOk, Is
  <2>2. ASSUME pageLock # None
        PROVE  \E u \in Threads : ~Is(u, "run") /\ ~Waits(u)
    <3> PICK u \in Threads : u = pageLock
      BY <2>2 DEF IInv, LookupInv, TypeOK
    <3>1. at[u].pc \in Locked
      BY DEF IInv, LookupInv, LocksOk
    <3> QED BY <3>1 DEF Waits, Is, Locked, Looking
  <2>3. ASSUME Waits(t), pageLock = None
        PROVE  \E u \in Threads : ~Is(u, "run") /\ ~Waits(u)
    <3>1. inval # None \/ Compiling # {}
      BY <2>3 DEF Waits
    <3>2. PICK u \in Threads : at[u].pc \in Exclusive \cup Marks
      <4>1. CASE inval # None
        BY <4>1 DEF IInv, LookupInv, TypeOK, LocksOk
      <4>2. CASE Compiling # {}
        BY <4>2 DEF Compiling, Marks
      <4> QED BY <3>1, <4>1, <4>2
    <3> QED BY <2>3, <3>2 DEF Waits, Is, Exclusive, Marks
  <2> QED BY <2>1, <2>2, <2>3
<1> QED BY <1>1, Invariance, PTL

================================================================================
