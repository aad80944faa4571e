------------------------- MODULE EngineSession_proofs -------------------------
(***************************************************************************)
(* Proofs about EngineSession, for any number of coroutines, overrides and *)
(* polls.                                                                  *)
(*                                                                         *)
(* The invariants are not inductive alone.  Whoever builds the context or  *)
(* runs in it holds g_mutex (Locked); a child that still has the engine of *)
(* its parent has the rebuild before it (Inherited); a child that has      *)
(* ended by itself has sent its report (Sent).                             *)
(***************************************************************************)
EXTENDS EngineSession, TLAPS

Pcs == {"idle", "init", "build", "shutdown", "stop", "unmap", "apply", "defer", "set",
        "restarted", "load", "test", "conform", "loading", "write", "launch", "running",
        "leave", "drain", "wait", "kill"} \cup Verdicts
Nexts  == {"idle", "restarted", "write"}
AtRec  == [pc : Pcs, then : Nexts, value : Configs, polls : 0 .. MaxPolls]
Lives  == {"none", "works", "exited", "signaled", "reaped"}
ChildRec == [pc : Lives, todo : Stages, g : BOOLEAN, r : BOOLEAN,
             engine : {"none", "parent", "child"}, sent : BOOLEAN, got : BOOLEAN]

\* Scalars, and the two functions.
Scalars ==
  /\ core \in BOOLEAN /\ window \in BOOLEAN /\ hooks \in BOOLEAN /\ crashed \in BOOLEAN
  /\ store \in Configs /\ pending \in Values \cup {None} /\ ctx \in Configs \cup {None}
  /\ gOwner \in Apps \cup {None} /\ runOwner \in Apps \cup {None}

\* Whoever builds the context, or runs in it, holds g_mutex; a run has a context.
LockedBy(a) ==
  /\ Is(a, "build") => gOwner = a
  /\ Is(a, "running") => gOwner = a /\ ctx # None
Locked == \A a \in Apps : LockedBy(a)

\* What a child still has to do while its engine is the parent's.
Untouched == {<<"rebuild", "load", "run">>, <<"rebuild", "run">>}
Inherited == \A a \in Apps : child[a].engine = "parent" => child[a].todo \in Untouched

\* A child ends by itself after its report; a verdict comes when it is reaped.
Sent == \A a \in Apps : child[a].pc = "exited" => child[a].sent
Told(a) ==
  /\ at[a].pc \in {"report", "crash", "timeout"} => child[a].pc = "reaped"
  /\ Is(a, "report") => child[a].got
Read == \A a \in Apps : Told(a)

\* Whoever is on the way to apply a preset has one.
Presets == {"shutdown", "stop", "unmap", "apply", "defer", "set"}
Chosen == \A a \in Apps : at[a].pc \in Presets => at[a].value \in Values

IInv ==
  /\ Chosen /\ Scalars /\ at \in [Apps -> AtRec] /\ child \in [Apps -> ChildRec]
  /\ HooksFollowContext /\ Locked /\ Inherited /\ Sent /\ Read

-----------------------------------------------------------------------------
(* Data.                                                                   *)

\* TypeOK is the typing part of the invariant.
LEMMA TypeOKFrom == Scalars /\ at \in [Apps -> AtRec] /\ child \in [Apps -> ChildRec] => TypeOK
BY DEF TypeOK, Scalars, AtRec, ChildRec, Pcs, Nexts, Lives

\* A step of one coroutine that takes it somewhere.
Moves(a, w) ==
  /\ at' \in [Apps -> AtRec] /\ at'[a].pc = w
  /\ w \in Presets => at'[a].value \in Values
  /\ \A b \in Apps : b # a => at'[b] = at[b]

\* A record put in place of another.
LEMMA PutMoves ==
  ASSUME at \in [Apps -> AtRec], NEW a \in Apps, NEW r \in AtRec, at' = [at EXCEPT ![a] = r],
         r.pc \in Presets => r.value \in Values
  PROVE  Moves(a, r.pc)
BY DEF Moves

\* Where a coroutine goes within its call.
LEMMA GotoMoves ==
  ASSUME at \in [Apps -> AtRec], NEW a \in Apps, NEW w \in Pcs, Goto(a, w),
         w \in Presets => at[a].value \in Values
  PROVE  Moves(a, w)
<1> DEFINE r == [at[a] EXCEPT !.pc = w]
<1>1. at[a] \in AtRec
  OBVIOUS
<1>2. r \in AtRec /\ r.pc = w /\ r.value = at[a].value
  BY <1>1 DEF AtRec
<1>3. at' = [at EXCEPT ![a] = r]
  BY DEF Goto
<1> HIDE DEF r
<1> QED
  BY <1>2, <1>3, PutMoves

\* A coroutine with nothing to do.
LEMMA IdleType == Idle \in AtRec /\ Idle.pc = "idle"
<1>1. Default \in Configs /\ 0 \in 0 .. MaxPolls
  BY SessionConstants DEF Configs
<1> QED
  BY <1>1 DEF Idle, AtRec, Pcs, Nexts

\* The end of a call.
LEMMA ReturnMoves ==
  ASSUME at \in [Apps -> AtRec], NEW a \in Apps, Return(a)
  PROVE  Moves(a, "idle")
BY IdleType, PutMoves DEF Return, Presets

\* The beginning of a call, with or without a preset.
LEMMA CallMoves ==
  ASSUME at \in [Apps -> AtRec], NEW a \in Apps, NEW w \in Pcs \ Presets, Call(a, w, "idle")
  PROVE  Moves(a, w)
<1> DEFINE r == [Idle EXCEPT !.pc = w, !.then = "idle"]
<1>1. r \in AtRec /\ r.pc = w
  BY IdleType DEF AtRec, Nexts
<1>2. at' = [at EXCEPT ![a] = r]
  BY DEF Call
<1> HIDE DEF r
<1> QED
  BY <1>1, <1>2, PutMoves

LEMMA PresetMoves ==
  ASSUME at \in [Apps -> AtRec], NEW a \in Apps, NEW v \in Values, NEW w \in Pcs, NEW n \in Nexts,
         at' = [at EXCEPT ![a] = [Idle EXCEPT !.value = v, !.pc = w, !.then = n]]
  PROVE  Moves(a, w)
<1> DEFINE r == [Idle EXCEPT !.value = v, !.pc = w, !.then = n]
<1>1. v \in Configs
  BY DEF Configs
<1>2. r \in AtRec /\ r.pc = w /\ r.value = v
  BY <1>1, IdleType DEF AtRec
<1>3. at' = [at EXCEPT ![a] = r]
  OBVIOUS
<1> HIDE DEF r
<1> QED
  BY <1>2, <1>3, PutMoves

\* Fields of a record.
LEMMA AtFields ==
  ASSUME at \in [Apps -> AtRec], NEW a \in Apps
  PROVE  /\ at[a] \in AtRec /\ at[a].pc \in Pcs /\ at[a].then \in Nexts
         /\ at[a].value \in Configs /\ at[a].polls \in 0 .. MaxPolls
BY DEF AtRec

LEMMA ChildFields ==
  ASSUME child \in [Apps -> ChildRec], NEW a \in Apps
  PROVE  /\ child[a] \in ChildRec /\ child[a].pc \in Lives /\ child[a].todo \in Stages
         /\ child[a].engine \in {"none", "parent", "child"}
         /\ child[a].sent \in BOOLEAN /\ child[a].got \in BOOLEAN
         /\ child[a].g \in BOOLEAN /\ child[a].r \in BOOLEAN
BY DEF ChildRec

\* What remains to be done is a stage again; the rebuild is first if it is there.
LEMMA StageTails ==
  ASSUME NEW s \in Stages, s # <<>>
  PROVE  Tail(s) \in Stages
<1>1. CASE s = <<"rebuild", "load", "run">>
  <2>1. Tail(s) = <<"load", "run">>
    BY <1>1
  <2> QED
    BY <2>1 DEF Stages
<1>2. CASE s = <<"rebuild", "run">>
  <2>1. Tail(s) = <<"run">>
    BY <1>2
  <2> QED
    BY <2>1 DEF Stages
<1>3. CASE s = <<"load", "run">>
  <2>1. Tail(s) = <<"run">>
    BY <1>3
  <2> QED
    BY <2>1 DEF Stages
<1>4. CASE s = <<"load">>
  <2>1. Tail(s) = <<>>
    BY <1>4
  <2> QED
    BY <2>1 DEF Stages, Probes
<1>5. CASE s = <<"run">>
  <2>1. Tail(s) = <<>>
    BY <1>5
  <2> QED
    BY <2>1 DEF Stages, Probes
<1> QED
  BY <1>1, <1>2, <1>3, <1>4, <1>5 DEF Stages, Probes

\* The two that begin with the rebuild are the ones that a run ends.
LEMMA UntouchedBegins == \A s \in Untouched : Head(s) = "rebuild" /\ s # <<>>
BY DEF Untouched

LEMMA InheritedRuns ==
  ASSUME NEW s \in Probes, Will("run", s)
  PROVE  s \in Untouched
BY DEF Probes, Untouched, Will

-----------------------------------------------------------------------------
(* What a move preserves.                                                  *)

Told3 == {"report", "crash", "timeout"}

\* Nobody else builds or runs while a holds g_mutex or nobody does.
LEMMA LockedMoved ==
  ASSUME Locked, NEW a \in Apps, NEW w, Moves(a, w),
         \/ gOwner \in {None, a}
         \/ gOwner' = gOwner /\ ctx' = ctx,
         w \in {"build", "running"} => gOwner' = a,
         w = "running" => ctx' # None
  PROVE  Locked'
<1> SUFFICES ASSUME NEW b \in Apps
             PROVE  LockedBy(b)'
  BY DEF Locked
<1>1. CASE b = a
  BY <1>1 DEF Moves, LockedBy, Is
<1>2. CASE b # a
  <2>1. at'[b] = at[b] /\ LockedBy(b)
    BY <1>2 DEF Moves, Locked
  <2>2. b # None
    BY SessionConstants
  <2> QED
    BY <1>2, <2>1, <2>2 DEF LockedBy, Is
<1> QED
  BY <1>1, <1>2

\* Verdicts of the others stand.
LEMMA ReadMoved ==
  ASSUME Read, NEW a \in Apps, NEW w, Moves(a, w),
         \A b \in Apps : b # a => child'[b] = child[b],
         w \in Told3 => child'[a].pc = "reaped",
         w = "report" => child'[a].got
  PROVE  Read'
<1> SUFFICES ASSUME NEW b \in Apps
             PROVE  Told(b)'
  BY DEF Read
<1>1. CASE b = a
  BY <1>1 DEF Moves, Told, Told3, Is
<1>2. CASE b # a
  <2>1. at'[b] = at[b] /\ Told(b) /\ child'[b] = child[b]
    BY <1>2 DEF Moves, Read
  <2> QED
    BY <2>1 DEF Told, Is
<1> QED
  BY <1>1, <1>2

\* Children other than one's own are left alone.
LEMMA ChildMoved ==
  ASSUME child \in [Apps -> ChildRec], Inherited, Sent,
         NEW a \in Apps, NEW c \in ChildRec, child' = [child EXCEPT ![a] = c],
         c.engine = "parent" => c.todo \in Untouched,
         c.pc = "exited" => c.sent
  PROVE  /\ child' \in [Apps -> ChildRec] /\ Inherited' /\ Sent'
         /\ child'[a] = c
         /\ \A b \in Apps : b # a => child'[b] = child[b]
<1>1. child' \in [Apps -> ChildRec] /\ child'[a] = c
  OBVIOUS
<1>2. \A b \in Apps : b # a => child'[b] = child[b]
  OBVIOUS
<1>3. Inherited'
  BY <1>1, <1>2 DEF Inherited
<1>4. Sent'
  BY <1>1, <1>2 DEF Sent
<1> QED
  BY <1>1, <1>2, <1>3, <1>4

\* A move away from the engine and from the verdicts disturbs nothing.
LEMMA CalmMove ==
  ASSUME IInv, NEW a \in Apps, NEW w, Moves(a, w), Scalars',
         UNCHANGED <<gOwner, ctx, hooks, child>>,
         w \notin Told3 \cup {"build", "running"}
  PROVE  IInv'
<1>1. Locked'
  BY LockedMoved DEF IInv
<1>2. Read'
  BY ReadMoved DEF IInv, Told3
<1>3. at' \in [Apps -> AtRec]
  BY DEF Moves
<1>5. Chosen'
  BY DEF IInv, Chosen, Moves
<1>4. HooksFollowContext' /\ Inherited' /\ Sent' /\ child' \in [Apps -> ChildRec]
  BY DEF IInv, HooksFollowContext, Inherited, Sent
<1> QED
  BY <1>1, <1>2, <1>3, <1>4, <1>5 DEF IInv
-----------------------------------------------------------------------------
(* Steps of the application.                                               *)

\* What the invariant says of a coroutine, for the steps below.
LEMMA AtOf ==
  ASSUME IInv, NEW a \in Apps
  PROVE  /\ at \in [Apps -> AtRec] /\ child \in [Apps -> ChildRec]
         /\ at[a] \in AtRec /\ at[a].pc \in Pcs /\ at[a].then \in Nexts
         /\ at[a].value \in Configs /\ at[a].polls \in 0 .. MaxPolls
BY AtFields DEF IInv

\* What one coroutine does next is a place of the calm kind.
LEMMA NextsAreCalm == Nexts \subseteq Pcs /\ Nexts \cap (Told3 \cup Presets \cup {"build", "running"}) = {}
BY DEF Nexts, Pcs, Told3, Presets

\* Goto to a calm place.
LEMMA CalmGoto ==
  ASSUME IInv, NEW a \in Apps, NEW w \in Pcs, Goto(a, w), Scalars',
         w \in Presets => at[a].pc \in Presets,
         UNCHANGED <<gOwner, ctx, hooks, child>>,
         w \notin Told3 \cup {"build", "running"}
  PROVE  IInv'
<1>1. at[a].pc \in Presets => at[a].value \in Values
  BY DEF IInv, Chosen
<1> QED
  BY <1>1, AtOf, GotoMoves, CalmMove

\* Starting and stopping, but for the parts under g_mutex.
LEMMA CalmSteps ==
  ASSUME IInv, NEW a \in Apps,
         \/ AlreadyUp(a) \/ ShutdownNothing(a) \/ ShutdownCore(a) \/ DropWindow(a)
         \/ ApplyLook(a) \/ Defer(a) \/ SetNow(a) \/ Restarted(a)
         \/ LockRun(a) \/ Loaded(a) \/ Conform(a) \/ WriteCode(a) \/ NoEngine(a)
         \/ LeaveTest(a) \/ GiveUp(a)
  PROVE  IInv'
<1> USE DEF engine
<1>1. Scalars
  BY DEF IInv
<1>2. CASE AlreadyUp(a)
  <2>1. at[a].then \in Nexts
    BY AtOf
  <2>2. Scalars'
    BY <1>1, <1>2 DEF Scalars, AlreadyUp
  <2> QED
    BY <1>2, <2>1, <2>2, NextsAreCalm, CalmGoto DEF AlreadyUp
<1>3. CASE ShutdownNothing(a)
  BY <1>1, <1>3, CalmGoto DEF Scalars, ShutdownNothing, Pcs, Told3, Presets, Is
<1>4. CASE ShutdownCore(a)
  <2>1. Scalars'
    BY <1>1, <1>4 DEF Scalars, ShutdownCore
  <2>2. "stop" \in Pcs /\ "stop" \notin Told3 \cup {"build", "running"}
    BY DEF Pcs, Told3
  <2>3. "stop" \in Presets => at[a].pc \in Presets
    BY <1>4 DEF ShutdownCore, Is, Presets
  <2> QED
    BY <1>4, <2>1, <2>2, <2>3, CalmGoto DEF ShutdownCore
<1>5. CASE DropWindow(a)
  <2>1. Scalars'
    BY <1>1, <1>5 DEF Scalars, DropWindow
  <2>2. "apply" \in Pcs /\ "apply" \notin Told3 \cup {"build", "running"}
    BY DEF Pcs, Told3
  <2>3. "apply" \in Presets => at[a].pc \in Presets
    BY <1>5 DEF DropWindow, Is, Presets
  <2> QED
    BY <1>5, <2>1, <2>2, <2>3, CalmGoto DEF DropWindow
<1>6. CASE ApplyLook(a)
  <2>1. Scalars'
    BY <1>1, <1>6 DEF Scalars, ApplyLook
  <2>2. Goto(a, "defer") \/ Goto(a, "set")
    BY <1>6 DEF ApplyLook
  <2> QED
    BY <1>6, <2>1, <2>2, CalmGoto DEF ApplyLook, Pcs, Told3, Presets, Is
<1>7. CASE Defer(a) \/ SetNow(a)
  <2>1. at[a].value \in Values
    BY <1>7 DEF IInv, Chosen, Presets, Defer, SetNow, Is
  <2>2. Goto(a, "init") \/ Goto(a, "idle")
    BY <1>7 DEF Defer, SetNow
  <2>3. Scalars'
    BY <1>1, <1>7, <2>1 DEF Scalars, Defer, SetNow, Configs
  <2>4. UNCHANGED <<gOwner, ctx, hooks, child>>
    BY <1>7 DEF Defer, SetNow
  <2> QED
    BY <2>2, <2>3, <2>4, CalmGoto DEF Pcs, Told3, Presets
<1>8. CASE Restarted(a) \/ Loaded(a) \/ LeaveTest(a)
  <2>1. Moves(a, "idle")
    BY <1>8, AtOf, ReturnMoves DEF Restarted, Loaded, LeaveTest
  <2>2. Scalars' /\ UNCHANGED <<gOwner, ctx, hooks, child>>
    BY <1>1, <1>8 DEF Scalars, Restarted, Loaded, LeaveTest
  <2> QED
    BY <2>1, <2>2, CalmMove DEF Told3
<1>9. CASE Conform(a)
  BY <1>1, <1>9, CalmGoto DEF Scalars, Conform, Pcs, Told3, Presets
<1>10. CASE NoEngine(a)
  BY <1>1, <1>10, CalmGoto DEF Scalars, NoEngine, Pcs, Told3, Presets
<1>11. CASE WriteCode(a)
  <2>1. Scalars' /\ UNCHANGED <<gOwner, ctx, hooks, child>>
    BY <1>1, <1>11 DEF Scalars, WriteCode
  <2>2. CASE Goto(a, "launch") \/ Goto(a, "leave")
    BY <2>1, <2>2, CalmGoto DEF Pcs, Told3, Presets
  <2>3. CASE at' = at
    <3>1. Locked' /\ Read'
      BY <2>1, <2>3 DEF IInv, Locked, LockedBy, Read, Told, Is
    <3> QED
      BY <2>1, <2>3, <3>1 DEF IInv, HooksFollowContext, Inherited, Sent, Chosen
  <2> QED
    BY <1>11, <2>2, <2>3 DEF WriteCode
<1>12. CASE LockRun(a)
  <2>1. PICK w \in {"loading", "init", "leave"} :
          at' = [at EXCEPT ![a].pc = w, ![a].then = "write"]
    BY <1>12 DEF LockRun
  <2> DEFINE r == [at[a] EXCEPT !.pc = w, !.then = "write"]
  <2>2. r \in AtRec /\ r.pc = w
    BY AtOf DEF AtRec, Pcs, Nexts
  <2>3. at' = [at EXCEPT ![a] = r]
    BY <2>1
  <2>4. Scalars' /\ UNCHANGED <<gOwner, ctx, hooks, child>>
    BY <1>1, <1>12 DEF Scalars, LockRun
  <2> HIDE DEF r
  <2>5. Moves(a, w)
    BY <2>2, <2>3, AtOf, PutMoves DEF Presets
  <2> QED
    BY <2>4, <2>5, CalmMove DEF Told3
<1>13. CASE GiveUp(a)
  BY <1>1, <1>13, CalmGoto DEF Scalars, GiveUp, Pcs, Told3, Verdicts, Presets
<1> QED
  BY <1>2, <1>3, <1>4, <1>5, <1>6, <1>7, <1>8, <1>9, <1>10, <1>11, <1>12, <1>13

\* The beginning of a call.
LEMMA CallSteps ==
  ASSUME IInv, NEW a \in Apps, AppCalls(a), ~Fork(a)
  PROVE  IInv'
<1>1. Scalars
  BY DEF IInv
<1>2. CASE /\ UNCHANGED <<core, window, engine, gOwner, runOwner, child, crashed>>
           /\ \E w \in {"init", "load", "test", "conform"} : Call(a, w, "idle")
  <2>1. PICK w \in {"init", "load", "test", "conform"} : Call(a, w, "idle")
    BY <1>2
  <2>2. Moves(a, w)
    BY <2>1, AtOf, CallMoves DEF Pcs, Presets
  <2>3. Scalars' /\ UNCHANGED <<gOwner, ctx, hooks, child>>
    BY <1>1, <1>2 DEF Scalars, engine
  <2> QED
    BY <2>2, <2>3, CalmMove DEF Told3
<1>3. CASE \E v \in Values : ChoosePreset(a, v)
  <2>1. PICK v \in Values : ChoosePreset(a, v)
    BY <1>3
  <2> DEFINE w == IF ctx # None THEN "shutdown" ELSE "apply"
             n == IF ctx # None THEN "restarted" ELSE "idle"
  <2>2. w \in Pcs /\ n \in Nexts /\ w \notin Told3 \cup {"build", "running"}
    BY DEF Pcs, Nexts, Told3
  <2>3. at' = [at EXCEPT ![a] = [Idle EXCEPT !.value = v, !.pc = w, !.then = n]]
    BY <2>1 DEF ChoosePreset
  <2>4. Scalars' /\ UNCHANGED <<gOwner, ctx, hooks, child>>
    BY <1>1, <2>1 DEF Scalars, ChoosePreset, engine
  <2> HIDE DEF w, n
  <2>5. Moves(a, w)
    BY <2>2, <2>3, AtOf, PresetMoves
  <2> QED
    BY <2>2, <2>4, <2>5, CalmMove
<1> QED
  BY <1>2, <1>3 DEF AppCalls
-----------------------------------------------------------------------------
(* Steps that take, hold or release g_mutex.                               *)

\* What such a step keeps as it leaves the children alone.
LEMMA EngineMove ==
  ASSUME IInv, NEW a \in Apps, NEW w, Moves(a, w), Scalars', Locked', HooksFollowContext',
         UNCHANGED child, w \notin Told3
  PROVE  IInv'
<1>1. Read'
  BY ReadMoved DEF IInv, Told3
<1>2. Inherited' /\ Sent' /\ child' \in [Apps -> ChildRec]
  BY DEF IInv, Inherited, Sent
<1>3. at' \in [Apps -> AtRec] /\ Chosen'
  BY DEF IInv, Chosen, Moves
<1> QED
  BY <1>1, <1>2, <1>3 DEF IInv

\* A start takes the mutex that is free.
LEMMA StartSteps ==
  ASSUME IInv, NEW a \in Apps, StartConfig(a)
  PROVE  IInv'
<1> USE DEF engine
<1>1. Moves(a, "build")
  BY AtOf, GotoMoves DEF StartConfig, Pcs, Presets
<1>2. Scalars'
  BY DEF IInv, Scalars, StartConfig, Configs
<1>3. Locked'
  BY <1>1, LockedMoved DEF IInv, StartConfig
<1>4. HooksFollowContext'
  BY DEF IInv, HooksFollowContext, StartConfig
<1> QED
  BY <1>1, <1>2, <1>3, <1>4, EngineMove DEF Told3, StartConfig

\* The context is built by the holder of the mutex, which then releases it.
LEMMA BuildSteps ==
  ASSUME IInv, NEW a \in Apps, BuildContext(a)
  PROVE  IInv'
<1> DEFINE next == at[a].then
<1>1. gOwner = a /\ next \in Nexts
  BY AtOf DEF IInv, Locked, LockedBy, BuildContext
<1>2. PICK w \in {next, "leave"} : Goto(a, w)
  BY DEF BuildContext
<1>3. w \in Pcs /\ w \notin Told3 \cup Presets \cup {"build", "running"}
  BY <1>1, <1>2, NextsAreCalm DEF Pcs, Told3, Presets
<1> HIDE DEF next
<1>4. Moves(a, w)
  BY <1>2, <1>3, AtOf, GotoMoves
<1>5. Scalars'
  BY DEF IInv, Scalars, BuildContext, Configs
<1>6. Locked'
  BY <1>1, <1>3, <1>4, LockedMoved DEF IInv
<1>7. HooksFollowContext'
  <2>1. store # None
    BY SessionConstants DEF IInv, Scalars, Configs
  <2> QED
    BY <2>1 DEF IInv, HooksFollowContext, BuildContext
<1> QED
  BY <1>3, <1>4, <1>5, <1>6, <1>7, EngineMove DEF BuildContext

\* A stop waits for the mutex: nobody builds or runs meanwhile.
LEMMA StopSteps ==
  ASSUME IInv, NEW a \in Apps, StopEngine(a)
  PROVE  IInv'
<1>1. Moves(a, "unmap")
  <2>1. at[a].value \in Values
    BY DEF IInv, Chosen, StopEngine, Is, Presets
  <2> QED
    BY <2>1, AtOf, GotoMoves DEF StopEngine, Pcs
<1>2. Scalars'
  BY DEF IInv, Scalars, StopEngine, Configs
<1>3. Locked'
  BY <1>1, LockedMoved DEF IInv, StopEngine
<1>4. HooksFollowContext'
  BY DEF HooksFollowContext, StopEngine
<1> QED
  BY <1>1, <1>2, <1>3, <1>4, EngineMove DEF Told3, StopEngine

\* A run takes the mutex and finds a context; its end gives the mutex back.
LEMMA RunSteps ==
  ASSUME IInv, NEW a \in Apps, Execute(a) \/ RunEnds(a)
  PROVE  IInv'
<1> USE DEF engine
<1>1. CASE Execute(a)
  <2>1. Moves(a, "running")
    BY <1>1, AtOf, GotoMoves DEF Execute, Pcs, Presets
  <2>2. Scalars'
    BY <1>1 DEF IInv, Scalars, Execute
  <2>3. Locked'
    BY <1>1, <2>1, LockedMoved DEF IInv, Execute
  <2>4. HooksFollowContext'
    BY <1>1 DEF IInv, HooksFollowContext, Execute
  <2> QED
    BY <1>1, <2>1, <2>2, <2>3, <2>4, EngineMove DEF Told3, Execute
<1>2. CASE RunEnds(a)
  <2>1. Moves(a, "leave")
    BY <1>2, AtOf, GotoMoves DEF RunEnds, Pcs, Presets
  <2>2. Scalars'
    BY <1>2 DEF IInv, Scalars, RunEnds
  <2>3. gOwner = a
    BY <1>2 DEF IInv, Locked, LockedBy, RunEnds
  <2>4. Locked'
    BY <1>2, <2>1, <2>3, LockedMoved DEF IInv, RunEnds
  <2>5. HooksFollowContext'
    BY <1>2 DEF IInv, HooksFollowContext, RunEnds
  <2> QED
    BY <1>2, <2>1, <2>2, <2>4, <2>5, EngineMove DEF Told3, RunEnds
<1> QED
  BY <1>1, <1>2

-----------------------------------------------------------------------------
(* Children and their parents.                                             *)

\* A step that changes one child and where its parent is.
LEMMA ParentMove ==
  ASSUME IInv, NEW a \in Apps, NEW w, Moves(a, w),
         UNCHANGED <<core, window, engine, gOwner, runOwner, crashed>>,
         NEW c \in ChildRec, child' = [child EXCEPT ![a] = c],
         c.engine = "parent" => c.todo \in Untouched,
         c.pc = "exited" => c.sent,
         w \notin {"build", "running"},
         w \in Told3 => c.pc = "reaped",
         w = "report" => c.got
  PROVE  IInv'
<1>1. /\ child' \in [Apps -> ChildRec] /\ Inherited' /\ Sent' /\ child'[a] = c
      /\ \A b \in Apps : b # a => child'[b] = child[b]
  BY ChildMoved DEF IInv
<1>2. Read'
  BY <1>1, ReadMoved DEF IInv
<1>3. Locked'
  BY LockedMoved DEF IInv, engine
<1>4. Scalars' /\ HooksFollowContext'
  BY DEF IInv, Scalars, HooksFollowContext, engine
<1>5. at' \in [Apps -> AtRec] /\ Chosen'
  BY DEF IInv, Chosen, Moves
<1> QED
  BY <1>1, <1>2, <1>3, <1>4, <1>5 DEF IInv

\* What a child inherits; it rebuilds the engine before it runs.
LEMMA ForkSteps ==
  ASSUME IInv, NEW a \in Apps, Fork(a)
  PROVE  IInv'
<1>1. Moves(a, "drain")
  BY AtOf, CallMoves DEF Fork, Pcs, Presets
<1>2. PICK todo \in Probes : child' = [child EXCEPT ![a] = Inherits(todo)]
  BY DEF Fork
<1> DEFINE c == Inherits(todo)
<1>3. NoChild \in ChildRec
  BY DEF NoChild, ChildRec, Lives, Stages, Probes
<1>4. Will("rebuild", todo) \in BOOLEAN /\ Will("load", todo) \in BOOLEAN
  BY DEF Will
<1>5. todo \in Stages
  BY DEF Stages
<1>6. /\ c \in ChildRec /\ c.pc = "works" /\ c.todo = todo
      /\ c.engine = "parent" => Will("run", todo)
  BY <1>3, <1>4, <1>5 DEF Inherits, ChildRec, Lives
<1>7. c.engine = "parent" => c.todo \in Untouched
  BY <1>6, InheritedRuns
<1>8. child' = [child EXCEPT ![a] = c]
  BY <1>2
<1> HIDE DEF c
<1>9. /\ UNCHANGED <<core, window, engine, gOwner, runOwner, crashed>>
      /\ c.pc = "exited" => c.sent
      /\ "drain" \notin Told3 \cup {"build", "running", "report"}
  BY <1>6 DEF Fork, Told3
<1> QED
  BY <1>1, <1>6, <1>7, <1>8, <1>9, ParentMove

\* What a child does changes its own record only, and nobody has been told of it.
LEMMA ChildMove ==
  ASSUME IInv, NEW a \in Apps, child[a].pc = "works", InChild,
         NEW c \in ChildRec, child' = [child EXCEPT ![a] = c],
         c.engine = "parent" => c.todo \in Untouched,
         c.pc = "exited" => c.sent
  PROVE  IInv'
<1>1. /\ child' \in [Apps -> ChildRec] /\ Inherited' /\ Sent'
      /\ \A b \in Apps : b # a => child'[b] = child[b]
  BY ChildMoved DEF IInv
<1>2. Read'
  <2> SUFFICES ASSUME NEW b \in Apps
               PROVE  Told(b)'
    BY DEF Read
  <2>1. at'[b] = at[b] /\ Told(b)
    BY DEF IInv, Read, InChild
  <2> QED
    BY <1>1, <2>1 DEF Told, Is
<1>3. Locked' /\ Chosen' /\ HooksFollowContext' /\ at' \in [Apps -> AtRec]
  BY DEF IInv, Locked, LockedBy, Is, Chosen, HooksFollowContext, InChild, engine
<1>4. Scalars'
  BY DEF IInv, Scalars, InChild, engine
<1> QED
  BY <1>1, <1>2, <1>3, <1>4 DEF IInv

\* What a child has done, and how it ends.
LEMMA ChildData ==
  ASSUME child \in [Apps -> ChildRec], NEW a \in Apps
  PROVE  /\ child[a].todo # <<>> =>
              LET d == Done(a)
              IN  d \in ChildRec /\ d.pc = child[a].pc /\ d.engine = child[a].engine
         /\ LET f == Fails(a)
            IN  f \in ChildRec /\ f.pc = child[a].pc /\ f.engine = "none"
<1>1. child[a] \in ChildRec /\ child[a].todo \in Stages
  BY ChildFields
<1>3. Fails(a) \in ChildRec /\ Fails(a).pc = child[a].pc /\ Fails(a).engine = "none"
  <2>1. <<>> \in Stages
    BY DEF Stages, Probes
  <2> QED
    BY <1>1, <2>1 DEF Fails, ChildRec
<1>4. child[a].todo # <<>> =>
        LET d == Done(a)
        IN  d \in ChildRec /\ d.pc = child[a].pc /\ d.engine = child[a].engine
  BY <1>1, StageTails DEF Done, ChildRec
<1> QED
  BY <1>3, <1>4

\* The engine is the parent's only until the rebuild.
LEMMA ChildSteps ==
  ASSUME IInv, NEW a \in Apps, ChildStep(a)
  PROVE  IInv'
<1>1. /\ child \in [Apps -> ChildRec] /\ child[a] \in ChildRec
      /\ child[a].engine = "parent" => child[a].todo \in Untouched
  BY AtOf, ChildFields DEF IInv, Inherited
<1>2. CASE Rebuild(a)
  <2>1. PICK built \in {"child", "none"} : child' = [child EXCEPT ![a] = [Done(a) EXCEPT !.engine = built]]
    BY <1>2 DEF Rebuild
  <2> DEFINE c == [Done(a) EXCEPT !.engine = built]
  <2>2. Done(a) \in ChildRec /\ Done(a).pc = "works" /\ child[a].pc = "works"
    BY <1>1, <1>2, ChildData DEF Rebuild, Does
  <2>3. c \in ChildRec /\ c.pc = "works" /\ c.engine # "parent"
    BY <2>2 DEF ChildRec
  <2>4. child' = [child EXCEPT ![a] = c] /\ InChild
    BY <1>2, <2>1 DEF Rebuild
  <2> HIDE DEF c
  <2> QED
    BY <2>2, <2>3, <2>4, ChildMove
<1>6. child[a].pc = "works" => Dies(a) \in ChildRec /\ Dies(a).pc = "signaled" /\ Dies(a).engine = "none"
  <2>1. Fails(a) \in ChildRec /\ Fails(a).engine = "none"
    BY <1>1, ChildData
  <2> QED
    BY <2>1 DEF Dies, ChildRec, Lives
<1>3. CASE ChildLoad(a)
  <2>1. /\ child[a].pc = "works" /\ child[a].todo # <<>> /\ Head(child[a].todo) = "load" /\ InChild
        /\ \E c \in {Done(a), Fails(a), Dies(a)} : child' = [child EXCEPT ![a] = c]
    BY <1>3 DEF ChildLoad, Does
  <2>2. child[a].engine # "parent"
    BY <1>1, <2>1, UntouchedBegins
  <2>3. /\ Done(a) \in ChildRec /\ Done(a).pc = "works" /\ Done(a).engine # "parent"
        /\ Fails(a) \in ChildRec /\ Fails(a).pc = "works" /\ Fails(a).engine = "none"
    BY <1>1, <2>1, <2>2, ChildData
  <2> QED
    BY <1>6, <2>1, <2>3, ChildMove
<1>4. CASE ChildRun(a)
  <2>1. /\ child[a].pc = "works" /\ InChild
        /\ child' = [child EXCEPT ![a] = Dies(a)] \/ child' = [child EXCEPT ![a] = Fails(a)]
    BY <1>4 DEF ChildRun, Does
  <2>2. Fails(a) \in ChildRec /\ Fails(a).pc = "works" /\ Fails(a).engine = "none"
    BY <1>1, <2>1, ChildData
  <2> QED
    BY <1>6, <2>1, <2>2, ChildMove
<1>5. CASE ChildReport(a)
  <2> DEFINE c == [Fails(a) EXCEPT !.pc = "exited", !.sent = TRUE]
  <2>1. child[a].pc = "works" /\ InChild /\ child' = [child EXCEPT ![a] = c]
    BY <1>5 DEF ChildReport
  <2>2. Fails(a) \in ChildRec /\ Fails(a).engine = "none"
    BY <1>1, ChildData
  <2>3. c \in ChildRec /\ c.sent /\ c.engine = "none"
    BY <2>2 DEF ChildRec, Lives
  <2> HIDE DEF c
  <2> QED
    BY <2>1, <2>3, ChildMove
<1> QED
  BY <1>2, <1>3, <1>4, <1>5 DEF ChildStep

\* The parent's loop.
LEMMA ParentSteps ==
  ASSUME IInv, NEW a \in Apps, Parent(a)
  PROVE  IInv'
<1>1. /\ at \in [Apps -> AtRec] /\ child[a] \in ChildRec
      /\ child[a].engine = "parent" => child[a].todo \in Untouched
      /\ child[a].pc = "exited" => child[a].sent
      /\ child[a].sent \in BOOLEAN
  BY AtOf, ChildFields DEF IInv, Inherited, Sent
<1>2. CASE Drain(a)
  <2> DEFINE c == [child[a] EXCEPT !.got = child[a].sent]
  <2>1. c \in ChildRec /\ c.pc = child[a].pc /\ c.engine = child[a].engine
        /\ c.todo = child[a].todo /\ c.sent = child[a].sent
    BY <1>1 DEF ChildRec
  <2>2. child' = [child EXCEPT ![a] = c]
    BY <1>2 DEF Drain
  <2>3. Moves(a, "wait")
    BY <1>1, <1>2, GotoMoves DEF Drain, Pcs, Presets
  <2> HIDE DEF c
  <2>4. /\ UNCHANGED <<core, window, engine, gOwner, runOwner, crashed>>
        /\ c.engine = "parent" => c.todo \in Untouched
        /\ c.pc = "exited" => c.sent
        /\ "wait" \notin Told3 \cup {"build", "running", "report"}
    BY <1>1, <1>2, <2>1 DEF Drain, Told3
  <2> QED
    BY <2>1, <2>2, <2>3, <2>4, ParentMove
<1>3. CASE Reap(a)
  <2> DEFINE c == [child[a] EXCEPT !.pc = "reaped", !.got = LastRead(a)]
             w == IF child[a].pc = "exited" THEN "report" ELSE "crash"
  <2>1. c \in ChildRec /\ c.pc = "reaped" /\ c.engine = child[a].engine
        /\ c.todo = child[a].todo /\ c.got = child[a].sent
    BY <1>1 DEF ChildRec, LastRead, Lives
  <2>2. child' = [child EXCEPT ![a] = c]
    BY <1>3 DEF Reap
  <2>3. /\ w \in Pcs /\ w \in {"report", "crash"}
        /\ w = "report" => child[a].pc = "exited"
    BY DEF Pcs, Verdicts
  <2>4. Goto(a, w)
    BY <1>3 DEF Reap
  <2>5. UNCHANGED <<core, window, engine, gOwner, runOwner, crashed>>
    BY <1>3 DEF Reap
  <2> HIDE DEF c, w
  <2>6. w \notin Presets \cup {"build", "running"}
    BY <2>3 DEF Presets
  <2>7. Moves(a, w)
    BY <1>1, <2>3, <2>4, <2>6, GotoMoves
  <2>8. /\ c.engine = "parent" => c.todo \in Untouched
        /\ c.pc = "exited" => c.sent
        /\ w = "report" => c.got
    BY <1>1, <2>1, <2>3
  <2> QED
    BY <2>1, <2>2, <2>5, <2>6, <2>7, <2>8, ParentMove
<1>4. CASE PollAgain(a)
  <2> DEFINE r == [at[a] EXCEPT !.pc = "drain", !.polls = @ + 1]
  <2>1. at[a] \in AtRec /\ at[a].polls \in 0 .. MaxPolls /\ at[a].polls < MaxPolls
    BY <1>4, AtOf DEF PollAgain
  <2>2. at[a].polls + 1 \in 0 .. MaxPolls
    BY <2>1, SessionConstants
  <2>3. r \in AtRec /\ r.pc = "drain"
    BY <2>1, <2>2 DEF AtRec, Pcs
  <2>4. at' = [at EXCEPT ![a] = r]
    BY <1>4 DEF PollAgain
  <2>5. Scalars' /\ UNCHANGED <<gOwner, ctx, hooks, child>>
    BY <1>4 DEF IInv, Scalars, PollAgain, engine
  <2> HIDE DEF r
  <2>6. Moves(a, "drain")
    BY <1>1, <2>3, <2>4, PutMoves DEF Presets
  <2> QED
    BY <2>5, <2>6, CalmMove DEF Told3
<1>5. CASE Overdue(a)
  <2>1. Scalars' /\ UNCHANGED <<gOwner, ctx, hooks, child>>
    BY <1>5 DEF IInv, Scalars, Overdue, engine
  <2> QED
    BY <1>5, <2>1, CalmGoto DEF Overdue, Pcs, Told3, Presets
<1>6. CASE Kill(a)
  <2> DEFINE c == [child[a] EXCEPT !.pc = "reaped", !.got = LastRead(a)]
  <2>1. c \in ChildRec /\ c.pc = "reaped" /\ c.engine = child[a].engine
        /\ c.todo = child[a].todo
    BY <1>1 DEF ChildRec, LastRead, Lives
  <2>2. child' = [child EXCEPT ![a] = c]
    BY <1>6 DEF Kill
  <2>3. Moves(a, "timeout")
    BY <1>1, <1>6, GotoMoves DEF Kill, Pcs, Presets, Verdicts
  <2> HIDE DEF c
  <2>4. /\ UNCHANGED <<core, window, engine, gOwner, runOwner, crashed>>
        /\ c.engine = "parent" => c.todo \in Untouched
        /\ c.pc = "exited" => c.sent
        /\ "timeout" \notin {"build", "running", "report"}
    BY <1>1, <1>6, <2>1 DEF Kill
  <2> QED
    BY <2>1, <2>2, <2>3, <2>4, ParentMove
<1>7. CASE Verdict(a)
  <2>1. Moves(a, "idle")
    BY <1>1, <1>7, ReturnMoves DEF Verdict
  <2>2. NoChild \in ChildRec /\ NoChild.engine = "none" /\ NoChild.pc = "none"
    BY DEF NoChild, ChildRec, Lives, Stages, Probes
  <2>3. /\ UNCHANGED <<core, window, engine, gOwner, runOwner, crashed>>
        /\ child' = [child EXCEPT ![a] = NoChild]
        /\ NoChild.engine = "parent" => NoChild.todo \in Untouched
        /\ NoChild.pc = "exited" => NoChild.sent
        /\ "idle" \notin Told3 \cup {"build", "running", "report"}
    BY <1>7, <2>2 DEF Verdict, Told3
  <2> QED
    BY <2>1, <2>2, <2>3, ParentMove
<1> QED
  BY <1>2, <1>3, <1>4, <1>5, <1>6, <1>7 DEF Parent

-----------------------------------------------------------------------------
\* The invariant holds at first, and every step keeps it.
LEMMA Inductive == Spec => []IInv
<1>1. Init => IInv
  <2> SUFFICES ASSUME Init
               PROVE  IInv
    OBVIOUS
  <2>1. Scalars /\ HooksFollowContext
    BY SessionConstants DEF Init, Scalars, HooksFollowContext, Configs
  <2>2. NoChild \in ChildRec /\ NoChild.engine = "none" /\ NoChild.pc = "none"
    BY DEF NoChild, ChildRec, Lives, Stages, Probes
  <2>3. child \in [Apps -> ChildRec] /\ Inherited /\ Sent
    BY <2>2 DEF Init, Inherited, Sent
  <2>4. at \in [Apps -> AtRec] /\ Chosen /\ Locked /\ Read
    BY IdleType DEF Init, Chosen, Presets, Locked, LockedBy, Read, Told, Is
  <2> QED
    BY <2>1, <2>3, <2>4 DEF IInv
<1>2. IInv /\ [Next]_vars => IInv'
  <2> SUFFICES ASSUME IInv, [Next]_vars
               PROVE  IInv'
    OBVIOUS
  <2>1. CASE UNCHANGED vars
    <3>1. Scalars' /\ Chosen' /\ HooksFollowContext' /\ Inherited' /\ Sent'
      BY <2>1 DEF vars, engine, IInv, Scalars, Chosen, HooksFollowContext, Inherited, Sent
    <3>2. Locked' /\ Read'
      BY <2>1 DEF vars, engine, IInv, Locked, LockedBy, Read, Told, Is
    <3> QED
      BY <2>1, <3>1, <3>2 DEF IInv, vars
  <2>2. ASSUME NEW a \in Apps, AppCalls(a) \/ AppGoesOn(a) \/ RunEnds(a) \/ Parent(a) \/ GiveUp(a) \/ ChildStep(a)
        PROVE  IInv'
    BY <2>2, CalmSteps, CallSteps, StartSteps, BuildSteps, StopSteps, RunSteps, ForkSteps,
       ChildSteps, ParentSteps DEF AppGoesOn
  <2> QED
    BY <2>1, <2>2 DEF Next
<1> QED
  BY <1>1, <1>2, PTL DEF Spec

\* A run keeps its context and the hooks follow the context, for any number of
\* coroutines (g_mutex in Initialize, Shutdown and ExecuteAtHostRip).
THEOREM RunsKeepTheirContext == Spec => []ContextOutlivesRun
<1>1. IInv => ContextOutlivesRun
  BY TypeOKFrom DEF IInv, ContextOutlivesRun, Locked, LockedBy
<1> QED
  BY <1>1, Inductive, PTL

\* No child runs guest code in an engine it inherited (ResetForChild).
THEOREM ChildrenRebuildTheEngine == Spec => []ChildRebuildsEngine
<1>1. IInv => ChildRebuildsEngine
  BY UntouchedBegins DEF IInv, ChildRebuildsEngine, Inherited, Does
<1> QED
  BY <1>1, Inductive, PTL

\* A verdict leaves no child behind, and a report is read in full (RunIsolated).
THEOREM ReportsAreRead == Spec => []ReportIsRead
<1>1. IInv => ReportIsRead
  BY DEF IInv, ReportIsRead, NoChildLeft, Read, Told, Verdicts, Is
<1> QED
  BY <1>1, Inductive, PTL
===============================================================================
