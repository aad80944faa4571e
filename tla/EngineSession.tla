----------------------------- MODULE EngineSession -----------------------------
(***************************************************************************)
(* The life of the engine: FexCoreIntegration (fexcore_integration.cpp),   *)
(* the emulator core above it (core/emulator.cpp) and the entry points of  *)
(* the application (fexcore_wrapper.cpp), called by several of its         *)
(* coroutines at once.                                                     *)
(*                                                                         *)
(* The engine has one context, built from a layered configuration.  An     *)
(* override of the configuration reaches the store while there is no       *)
(* context and is deferred to the next start of the engine otherwise.      *)
(* Starting and stopping the engine and every run in it hold g_mutex;      *)
(* loading an executable and the self-test hold m_runMutex.  Probes run in *)
(* a forked child, which inherits the memory of the process and the locked *)
(* mutexes of threads that do not exist in it; the parent polls the child, *)
(* reads its report from a pipe and kills it when its time is over.        *)
(*                                                                         *)
(* Guest code, and what the translator does inside a call, are external: a *)
(* run ends, traps or goes on for ever.                                    *)
(***************************************************************************)
EXTENDS Naturals, Sequences

CONSTANTS
  Apps,      \* coroutines of the application that call the native side
  Values,    \* values of an override
  Default,   \* the configuration without overrides
  None,      \* no context, no owner
  MaxPolls,  \* polls before a probe is over (timeoutMs / 20 ms)
  CoreUp     \* whether Emulator::Initialize has been called; the Android
             \* application calls the other entry points only

ASSUME SessionConstants ==
  /\ MaxPolls \in Nat
  /\ CoreUp \in BOOLEAN
  /\ None \notin Apps /\ None \notin Values /\ Default \notin Values /\ Default # None

Configs == Values \cup {Default}

VARIABLES
  core,     \* Emulator::m_initialized
  window,   \* the memory window is reserved
  store,    \* the layered configuration
  pending,  \* the last deferred override, if any (PendingOverrides)
  ctx,      \* the configuration the context was built with, or None
  hooks,    \* fault intercept and code-invalidation notification installed
  gOwner,   \* holder of g_mutex
  runOwner, \* holder of m_runMutex
  at,       \* what every coroutine does
  child,    \* the probe child of every coroutine
  crashed   \* native code has written to a window that is gone

engine == <<store, pending, ctx, hooks>>
vars == <<core, window, engine, gOwner, runOwner, at, child, crashed>>

\* `then' is where a call goes on when the engine has been started.
Idle == [pc |-> "idle", then |-> "idle", value |-> Default, polls |-> 0]

\* `todo' is what the child has still to do, `g' and `r' the mutexes that were locked
\* at the fork, `engine' whose engine it has; `sent' says that its report is in the
\* pipe, `got' that the parent has read it.
NoChild == [pc |-> "none", todo |-> <<>>, g |-> FALSE, r |-> FALSE, engine |-> "none",
            sent |-> FALSE, got |-> FALSE]

Init ==
  /\ core = CoreUp /\ window = CoreUp
  /\ store = Default /\ pending = None /\ ctx = None /\ hooks = FALSE
  /\ gOwner = None /\ runOwner = None
  /\ at = [a \in Apps |-> Idle]
  /\ child = [a \in Apps |-> NoChild]
  /\ crashed = FALSE

Is(a, where) == at[a].pc = where
Goto(a, where) == at' = [at EXCEPT ![a].pc = where]
Return(a) == at' = [at EXCEPT ![a] = Idle]
Call(a, where, then) == at' = [at EXCEPT ![a] = [Idle EXCEPT !.pc = where, !.then = then]]

-----------------------------------------------------------------------------
(* Starting and stopping the engine.                                       *)

\* FexCoreIntegration::Initialize with a context in place.
AlreadyUp(a) ==
  /\ Is(a, "init") /\ gOwner = None
  /\ ctx # None
  /\ Goto(a, at[a].then)
  /\ UNCHANGED <<core, window, engine, gOwner, runOwner, child, crashed>>

\* The deferred overrides come first.  Initialising the configuration once more
\* may or may not keep what the store held (the engine's library is external).
StartConfig(a) ==
  /\ Is(a, "init") /\ gOwner = None
  /\ ctx = None
  /\ gOwner' = a
  /\ \E kept \in {store, Default} : store' = IF pending # None THEN pending ELSE kept
  /\ pending' = None
  /\ Goto(a, "build")
  /\ UNCHANGED <<core, window, ctx, hooks, runOwner, child, crashed>>

\* CreateNewContext reads the store; it or InitCore may fail, which ends a test.
\* The hooks are installed last.
BuildContext(a) ==
  /\ Is(a, "build")
  /\ \/ ctx' = store /\ hooks' = TRUE /\ Goto(a, at[a].then)
     \/ UNCHANGED <<ctx, hooks>> /\ Goto(a, IF at[a].then = "write" THEN "leave" ELSE at[a].then)
  /\ gOwner' = None
  /\ UNCHANGED <<core, window, store, pending, runOwner, child, crashed>>

\* Emulator::Shutdown of a core that was never initialised, or is down already.
ShutdownNothing(a) ==
  /\ Is(a, "shutdown") /\ ~core
  /\ Goto(a, "apply")
  /\ UNCHANGED <<core, window, engine, gOwner, runOwner, child, crashed>>

ShutdownCore(a) ==
  /\ Is(a, "shutdown") /\ core
  /\ core' = FALSE
  /\ Goto(a, "stop")
  /\ UNCHANGED <<window, engine, gOwner, runOwner, child, crashed>>

\* FexCoreIntegration::Shutdown.
StopEngine_Unlocked(a) ==
  /\ Is(a, "stop")
  /\ ctx' = None /\ hooks' = FALSE /\ store' = Default
  /\ Goto(a, "unmap")
  /\ UNCHANGED <<core, window, pending, gOwner, runOwner, child, crashed>>

StopEngine(a) ==
  /\ Is(a, "stop") /\ gOwner = None
  /\ ctx' = None /\ hooks' = FALSE /\ store' = Default
  /\ Goto(a, "unmap")
  /\ UNCHANGED <<core, window, pending, gOwner, runOwner, child, crashed>>

\* MemoryManager::Shutdown; nobody holds m_runMutex for it.
DropWindow(a) ==
  /\ Is(a, "unmap")
  /\ window' = FALSE
  /\ Goto(a, "apply")
  /\ UNCHANGED <<core, engine, gOwner, runOwner, child, crashed>>

-----------------------------------------------------------------------------
(* ApplyEngineConfigOverride looks for a context and then acts, under no   *)
(* lock.                                                                   *)

ApplyLook(a) ==
  /\ Is(a, "apply")
  /\ Goto(a, IF ctx # None THEN "defer" ELSE "set")
  /\ UNCHANGED <<core, window, engine, gOwner, runOwner, child, crashed>>

Defer(a) ==
  /\ Is(a, "defer")
  /\ pending' = at[a].value
  /\ Goto(a, IF at[a].then = "restarted" THEN "init" ELSE "idle")
  /\ UNCHANGED <<core, window, store, ctx, hooks, gOwner, runOwner, child, crashed>>

SetNow(a) ==
  /\ Is(a, "set")
  /\ store' = at[a].value
  /\ Goto(a, IF at[a].then = "restarted" THEN "init" ELSE "idle")
  /\ UNCHANGED <<core, window, pending, ctx, hooks, gOwner, runOwner, child, crashed>>

\* The settings screen restarts a live engine to apply a preset; a cold engine
\* takes the overrides as they are.  IsInitialized waits for g_mutex.
ChoosePreset(a, v) ==
  /\ Is(a, "idle") /\ gOwner = None
  /\ at' = [at EXCEPT ![a] = [Idle EXCEPT !.value = v,
                                          !.pc = IF ctx # None THEN "shutdown" ELSE "apply",
                                          !.then = IF ctx # None THEN "restarted" ELSE "idle"]]
  /\ UNCHANGED <<core, window, engine, gOwner, runOwner, child, crashed>>

Restarted(a) ==
  /\ Is(a, "restarted")
  /\ Return(a)
  /\ UNCHANGED <<core, window, engine, gOwner, runOwner, child, crashed>>

-----------------------------------------------------------------------------
(* Work in the process itself: loading, the self-test, which starts the    *)
(* engine and runs code of its own in it, and the conformance test, which  *)
(* does the same without m_runMutex and in the engine it finds.            *)

\* Either may end early: for want of a directory, or of a device.
LockRun(a) ==
  /\ Is(a, "load") \/ Is(a, "test")
  /\ runOwner = None
  /\ runOwner' = a
  /\ window' = TRUE
  /\ \E next \in {IF Is(a, "load") THEN "loading" ELSE "init", "leave"} :
       at' = [at EXCEPT ![a].pc = next, ![a].then = "write"]
  /\ UNCHANGED <<core, engine, gOwner, child, crashed>>

Loaded(a) ==
  /\ Is(a, "loading")
  /\ runOwner' = None
  /\ Return(a)
  /\ UNCHANGED <<core, window, engine, gOwner, child, crashed>>

Conform(a) ==
  /\ Is(a, "conform")
  /\ window' = TRUE
  /\ Goto(a, "write")
  /\ UNCHANGED <<core, engine, gOwner, runOwner, child, crashed>>

\* The test maps its code into the window, which fails without one, and copies it
\* there, which is fatal if the window goes in between; then it asks for a run.
WriteCode(a) ==
  /\ Is(a, "write")
  /\ \/ window /\ Goto(a, "launch") /\ UNCHANGED crashed
     \/ ~window /\ Goto(a, "leave") /\ UNCHANGED crashed
     \/ ~window /\ crashed' = TRUE /\ UNCHANGED at
  /\ UNCHANGED <<core, window, engine, gOwner, runOwner, child>>

\* ExecuteAtHostRip: no context is an error; the window is reserved if need be.
NoEngine(a) ==
  /\ Is(a, "launch") /\ gOwner = None /\ ctx = None
  /\ Goto(a, "leave")
  /\ UNCHANGED <<core, window, engine, gOwner, runOwner, child, crashed>>

Execute(a) ==
  /\ Is(a, "launch") /\ gOwner = None /\ ctx # None
  /\ gOwner' = a
  /\ window' = TRUE
  /\ Goto(a, "running")
  /\ UNCHANGED <<core, engine, runOwner, child, crashed>>

RunEnds(a) ==
  /\ Is(a, "running")
  /\ gOwner' = None
  /\ Goto(a, "leave")
  /\ UNCHANGED <<core, window, engine, runOwner, child, crashed>>

LeaveTest(a) ==
  /\ Is(a, "leave")
  /\ runOwner' = IF runOwner = a THEN None ELSE runOwner
  /\ Return(a)
  /\ UNCHANGED <<core, window, engine, gOwner, child, crashed>>

-----------------------------------------------------------------------------
(* RunIsolated: the child.                                                 *)

\* What the children of the application do, in order: the execution probe and the
\* self-test, the conformance test, the load probe, the tests without an engine.
Probes == {<<"rebuild", "load", "run">>, <<"rebuild", "run">>, <<"load">>, <<>>}
Stages == Probes \cup {<<"load", "run">>, <<"run">>}

Will(stage, todo) == \E i \in DOMAIN todo : todo[i] = stage

\* Only what the child will still meet is kept.
Inherits(todo) ==
  [NoChild EXCEPT !.pc = "works", !.todo = todo,
                  !.g = Will("rebuild", todo) /\ gOwner # None,
                  !.r = Will("load", todo) /\ runOwner # None,
                  !.engine = IF ctx # None /\ Will("run", todo) THEN "parent" ELSE "none"]

Fork(a) ==
  /\ Is(a, "idle")
  /\ \E todo \in Probes : child' = [child EXCEPT ![a] = Inherits(todo)]
  /\ Call(a, "drain", "idle")
  /\ UNCHANGED <<core, window, engine, gOwner, runOwner, crashed>>

InChild == UNCHANGED <<core, window, engine, gOwner, runOwner, at, crashed>>
Does(a, stage) == child[a].pc = "works" /\ child[a].todo # <<>> /\ Head(child[a].todo) = stage
Done(a) == [child[a] EXCEPT !.todo = Tail(@)]
Fails(a) == [child[a] EXCEPT !.todo = <<>>, !.engine = "none"]
Dies(a) == [Fails(a) EXCEPT !.pc = "signaled"]

\* ResetForChild takes g_mutex, which for ever belongs to a thread that has not
\* come along if it was locked at the fork.  A failed start is not an error here.
Rebuild_Skipped(a) ==
  /\ Does(a, "rebuild")
  /\ child' = [child EXCEPT ![a] = Done(a)]
  /\ InChild

Rebuild(a) ==
  /\ Does(a, "rebuild") /\ ~child[a].g
  /\ \E built \in {"child", "none"} : child' = [child EXCEPT ![a] = [Done(a) EXCEPT !.engine = built]]
  /\ InChild

\* LoadExecutable in the child takes m_runMutex.  It succeeds, fails, or ends by a
\* signal, which is what the child is there for.
ChildLoad(a) ==
  /\ Does(a, "load") /\ ~child[a].r
  /\ \E c \in {Done(a), Fails(a), Dies(a)} : child' = [child EXCEPT ![a] = c]
  /\ InChild

\* A run is refused without an engine; it ends by itself or by a signal.
ChildRun(a) ==
  /\ Does(a, "run")
  /\ \/ child' = [child EXCEPT ![a] = Fails(a)]
     \/ child[a].engine # "none" /\ child' = [child EXCEPT ![a] = Dies(a)]
  /\ InChild

ChildReport(a) ==
  /\ child[a].pc = "works" /\ child[a].todo = <<>>
  /\ child' = [child EXCEPT ![a] = [Fails(a) EXCEPT !.pc = "exited", !.sent = TRUE]]
  /\ InChild

Ended(a) == child[a].pc \in {"exited", "signaled"}

-----------------------------------------------------------------------------
(* RunIsolated: the parent.                                                *)

\* The pipe is read until it is empty.
Drain(a) ==
  /\ Is(a, "drain")
  /\ child' = [child EXCEPT ![a].got = child[a].sent]
  /\ Goto(a, "wait")
  /\ UNCHANGED <<core, window, engine, gOwner, runOwner, crashed>>

\* The pipe or waitpid fails: the parent says so and goes.
GiveUp(a) ==
  /\ Is(a, "drain") \/ Is(a, "wait")
  /\ Goto(a, "failed")
  /\ UNCHANGED <<core, window, engine, gOwner, runOwner, child, crashed>>

\* What the parent has read once it knows that the child has ended.
LastRead_Skipped(a) == child[a].got
LastRead(a) == child[a].sent

Reap(a) ==
  /\ Is(a, "wait") /\ Ended(a)
  /\ child' = [child EXCEPT ![a].pc = "reaped", ![a].got = LastRead(a)]
  /\ Goto(a, IF child[a].pc = "exited" THEN "report" ELSE "crash")
  /\ UNCHANGED <<core, window, engine, gOwner, runOwner, crashed>>

PollAgain(a) ==
  /\ Is(a, "wait") /\ ~Ended(a) /\ at[a].polls < MaxPolls
  /\ at' = [at EXCEPT ![a].pc = "drain", ![a].polls = @ + 1]
  /\ UNCHANGED <<core, window, engine, gOwner, runOwner, child, crashed>>

\* waitpid has found the child running and its time is over.
Overdue_Never(a) == FALSE
Overdue(a) ==
  /\ Is(a, "wait") /\ ~Ended(a) /\ at[a].polls = MaxPolls
  /\ Goto(a, "kill")
  /\ UNCHANGED <<core, window, engine, gOwner, runOwner, child, crashed>>

\* kill, waitpid and what is left in the pipe.
Kill(a) ==
  /\ Is(a, "kill")
  /\ child' = [child EXCEPT ![a].pc = "reaped", ![a].got = LastRead(a)]
  /\ Goto(a, "timeout")
  /\ UNCHANGED <<core, window, engine, gOwner, runOwner, crashed>>

Verdicts == {"report", "crash", "timeout", "failed"}

\* The report goes back to the caller; the model forgets the child.
Verdict(a) ==
  /\ at[a].pc \in Verdicts
  /\ Return(a)
  /\ child' = [child EXCEPT ![a] = NoChild]
  /\ UNCHANGED <<core, window, engine, gOwner, runOwner, crashed>>

-----------------------------------------------------------------------------
AppCalls(a) ==
  \/ Is(a, "idle") /\ UNCHANGED <<core, window, engine, gOwner, runOwner, child, crashed>>
     /\ (Call(a, "init", "idle") \/ Call(a, "load", "idle") \/ Call(a, "test", "idle")
         \/ Call(a, "conform", "idle"))
  \/ \E v \in Values : ChoosePreset(a, v)
  \/ Fork(a)

AppGoesOn(a) ==
  \/ AlreadyUp(a) \/ StartConfig(a) \/ BuildContext(a)
  \/ ShutdownNothing(a) \/ ShutdownCore(a) \/ StopEngine(a) \/ DropWindow(a)
  \/ ApplyLook(a) \/ Defer(a) \/ SetNow(a) \/ Restarted(a)
  \/ LockRun(a) \/ Loaded(a) \/ Conform(a) \/ WriteCode(a) \/ NoEngine(a) \/ Execute(a) \/ LeaveTest(a)

Parent(a) ==
  \/ Drain(a) \/ Reap(a) \/ PollAgain(a) \/ Overdue(a) \/ Kill(a) \/ Verdict(a)

ChildStep(a) == Rebuild(a) \/ ChildLoad(a) \/ ChildRun(a) \/ ChildReport(a)

Next ==
  \/ /\ ~crashed
     /\ \E a \in Apps : \/ AppCalls(a) \/ AppGoesOn(a) \/ RunEnds(a)
                        \/ Parent(a) \/ GiveUp(a) \/ ChildStep(a)
  \/ crashed /\ UNCHANGED vars

Spec == Init /\ [][Next]_vars

\* The parent's loop goes on.  Nothing is asked of the child, of a run, or of the
\* mutexes.
FairSpec == Spec /\ \A a \in Apps : WF_vars(~crashed /\ Parent(a))

-----------------------------------------------------------------------------
\* Every variable has its type.
TypeOK ==
  /\ core \in BOOLEAN /\ window \in BOOLEAN /\ hooks \in BOOLEAN /\ crashed \in BOOLEAN
  /\ store \in Configs /\ pending \in Values \cup {None} /\ ctx \in Configs \cup {None}
  /\ gOwner \in Apps \cup {None} /\ runOwner \in Apps \cup {None}
  /\ at \in [Apps -> [pc : {"idle", "init", "build", "shutdown", "stop", "unmap", "apply", "defer", "set",
                            "restarted", "load", "test", "conform", "loading", "write", "launch", "running",
                            "leave", "drain", "wait", "kill"} \cup Verdicts,
                       then : {"idle", "restarted", "write"}, value : Configs, polls : 0 .. MaxPolls]]
  /\ child \in [Apps -> [pc : {"none", "works", "exited", "signaled", "reaped"}, todo : Stages,
                          g : BOOLEAN, r : BOOLEAN, engine : {"none", "parent", "child"},
                          sent : BOOLEAN, got : BOOLEAN]]

\* The fault intercept and the notification of the memory window are installed
\* when there is a context and never without one: a fault or an unmap that met
\* them after a stop would enter an engine that is gone (Initialize, Shutdown).
HooksFollowContext == hooks <=> ctx # None

\* A run keeps the context it was started in: whatever presets are chosen and
\* whoever restarts the engine, nobody stops or replaces the context under it
\* (g_mutex over ExecuteAtHostRip), and
\* the hooks are there as long as it is.
ContextOutlivesRun ==
  /\ TypeOK /\ HooksFollowContext
  /\ \A a \in Apps : Is(a, "running") => ctx # None /\ gOwner = a

\* A child runs guest code only in an engine that was rebuilt in the child, never
\* in one that it inherited (ResetForChild).
ChildRebuildsEngine == \A a \in Apps : Does(a, "run") => child[a].engine # "parent"

\* Whoever is told a verdict leaves no child behind, neither running nor unreaped,
\* but when the pipe or waitpid failed.
NoChildLeft == \A a \in Apps : at[a].pc \in Verdicts \ {"failed"} => child[a].pc = "reaped"

\* A child that ended by itself has its report read in full, though the parent may
\* have looked into the pipe just before the report and found the child gone just
\* after (the read after waitpid in RunIsolated);
\* and no verdict leaves a child behind.
ReportIsRead ==
  /\ NoChildLeft
  /\ \A a \in Apps : Is(a, "report") => child[a].got

\* A probe comes to a verdict, though its child may hang in a run, or wait for a
\* mutex that nobody in it will ever unlock.
VerdictComes == \A a \in Apps : Is(a, "drain") ~> (at[a].pc \in Verdicts \/ crashed)

=============================================================================
