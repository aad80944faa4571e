# Models and proofs of the emulator core

This directory holds TLA+ models of the native part of the emulator
(`src/app/src/main/cpp`), the TLC configurations that check them on small
instances, and TLAPS proofs of their most important properties. It describes
the code as it is: where a comment or a test says something the code does not
do, section 4 says so.

## 1. The system

The program runs guest code through a binary translator (FEXCore). Guest code
calls imported functions; the emulator answers them itself ("HLE"). Everything
of interest happens in one process with many threads: the main guest thread,
one host thread per guest thread, coroutines of the user interface, the audio
callback, the worker of the shader cache, and signal handlers on any of them.
Probes run in forked children.

### Inventory

| Part | State | Operations | Correct when |
|---|---|---|---|
| Guest threads (`kernel/pthread_hle.cpp`) | `GuestThread` objects, `g_live`, `g_zombies`, `g_leaked`, `g_slotInUse`, `g_resetting`, `g_mainThread` | create, join, detach, exit, self, attrGet; the thread body; `ReapDetached`; `ResetForSession` | no object is used after deletion or deleted twice or under its body; Join and Detach of one thread never both succeed; nothing is lost; a teardown ends |
| Guest mutexes and condition variables (same file) | `MutexPrivate`, `CondPrivate`, `g_typed`, `g_graveyard` | init, destroy, lock, unlock, timed wait, signal, broadcast | mutual exclusion as the guest sees it; no lost wake-up; objects outlive stuck code by one session |
| C++ guards (`kernel/cxxabi_hle.cpp`) | `g_guards`, `g_guardsGraveyard`, `GuardEntry::inUse`, one byte in guest memory | acquire, release, abort, `ResetForSession` | one initialiser at a time, and once; sleepers are woken; one session of grace |
| Guest memory (`memory/memory.cpp`) | `m_allocations`, `m_allocatedBytes`, `m_programBreak`, host protections, `m_execRanges` (read without a lock) | Initialize, Map, Unmap, Protect, SetProgramBreak, SetBrk, Shutdown, FindExecutableMapping | records are disjoint and counted, and agree with the host's protections; every loss of code is reported; the snapshot agrees with the records |
| Self-modifying code (`fexcore_integration.cpp`, `SmcManager`) | registry of protected pages, the invalidation mutex, host protections | mark, invalidate, unprotect, SIGSEGV handler, memory notification | translated pages are write-protected; the registry never outlives the translations; a refused write is resumed and not taken for a crash |
| Engine lifecycle (`fexcore_integration.cpp`, `core/emulator.cpp`, `native-lib.cpp`) | context, configuration store, deferred overrides, hooks, `g_mutex`, `m_runMutex` | start, stop, overrides, runs, load, self-test, conformance test, `RunIsolated` | a run keeps its context; children run only in an engine of their own; every probe comes to a verdict |
| Audio output (`audio/audio_out_hle.cpp`, `audio/audio.cpp`) | 32 ports with their users, the sink's streams and rings | open, output, outputs, close, close all; device callback | a port in use is not closed; pacing holds; a device that never calls back does not wedge the guest |
| PM4 decoder and register state (`gpu/gnm/`) | register files, journal, draw, dispatch and named-write logs, counters | decode a buffer | nothing goes uncounted; order is kept |
| Lowering and planners (`gpu/ir/`, `gpu/vulkan_backend.cpp`) | pure functions of that state | `LowerGnmStateToIR`, `PlanVulkanCommands`, `PlanRenderPasses` | what is planned is what the guest did, in its order |
| Shader capture and guest shader service (`gpu/gnm/gnm_submit.cpp`, `gpu/shader/`) | memo per stage, outcomes, counters; the service's cache | submit, capture, recompile, deliver | a memo tells the truth about its program; reading is bounded; an answer belongs to its key |
| Shader disk cache (`gpu/shader_recompiler/ShaderDiskCache.cpp`) | a directory per build, the queue and its worker | load, store, housekeeping, flush | nobody is served a wrong variant; entries are whole or absent |
| Kernel services (`sce_kernel_hle.cpp`, `syscalls.cpp`, `libc_hle.cpp`) | import table, direct memory, descriptors, guest heap, exit code | one handler per import | descriptors and allocations do not alias |
| Video output (`gpu/videoout_hle.cpp`) | one output, buffers, flip status | open, register, flip, wait, close | registration is all or nothing; flips are counted |
| Pads, loader, file system, media, diagnostics, Vulkan device, recompiler, user interface | see `PROJECT.json` | | |

### How the parts interact

* An import stub in guest code calls `Invoke` of the part that owns the symbol,
  on the host thread that runs the guest code. There is no dispatcher thread:
  two guest threads are in the same handler at the same time.
* `scePthreadCreate` starts a host thread which enters the translator again
  with the guest's entry point (`ThreadBody`).
* `MemoryManager` calls `m_codeInvalidationNotify` after it has changed executable
  memory and released its lock; the FEX integration drops translations and
  opens the pages again. The fault handler of the integration asks
  `FindExecutableMapping` without a lock.
* A command buffer goes through `Pm4Decoder::Decode` into the cumulative
  `GnmState`; after every buffer `RunGpuPathEvidence` lowers and plans it, and
  captures the shaders of the programs that are loaded. Capture asks
  `GuestShaderRecompiler`, which the device's own proof asks too.
* The Kotlin application starts, stops and reconfigures the engine from several
  coroutines at once; nothing above the native mutexes orders them. Probes fork
  (`RunIsolated`), and the child begins with whatever the mutexes and the engine
  were at that moment.
* The end of a session: `Emulator::Shutdown` calls
  `FexCoreIntegration::Shutdown`, which resets the thread surface, the guards
  and the graphics imports, removes the fault intercept and the memory
  notification and destroys the context; then the GPU and the memory window go.
  Guest code may still run on a host thread that the thread reset has given
  up on: this is what graveyards and leak lists are for.

### What is hard

Lifetime of objects that are named by handles in guest memory; use counts and
flags read one after another without a lock; teardown while guest code runs;
waits that must not miss a notification; splitting of memory records; the copy of
those records that signal handlers read; page permissions changed by a fault
handler, a compiler and a memory operation at once; forks of a process with
many threads; logs that overflow while their counters go on; files shared by
processes that are killed; calls that fail half way. The list, line by line, is
`hazards` in `PROJECT.json`.

## 2. Modules

| Module | Models | Run |
|---|---|---|
| `GuestThreads` | thread objects, bodies, reaper, slots and teardown | `threads_all`, `threads_sessions`, `threads_v_reset` |
| `ThreadHandles` | abstract: what a guest may expect of thread handles | refined by `GuestThreads` in `threads_all` |
| `GuestSync` | guest mutexes, condition variables and their graveyard | `sync_all` |
| `MemoryMap` | the memory manager | `memory_all` |
| `PageTable` | abstract: one entry per page of the window | refined by `MemoryMap` in `memory_all` |
| `CxxGuard` | guards of function-local statics | `guard_all` |
| `CodeTracking` | `SmcManager` composed with the window's map, unmap and protect and its snapshot | `smc_all` |
| `AudioOut` | audio ports, the sink, its rings and the device's callback | `audio_all` |
| `EngineSession` | emulator core, engine, settings and isolated probes | `engine_all` |
| `ShaderDiskCache` | the directory of compiled shaders and the processes that share it | `shader_disk` |
| `GnmStream` | packets, register state, lowering and both planners | `gnm_stream` |
| `ShaderCapture` | submission, capture, the memo of each stage and the service | `shader_capture` |
| `*_proofs` | TLAPS proofs about the module they are named after; those about `MemoryMap` and `AudioOut` are in `MemoryAndAudio_proofs`, those about `ShaderCapture` and `GnmStream` in `GnmSubmit_proofs` | |
| `MC*` | constants for TLC, nothing else | |

`map` in `PROJECT.json` gives the source lines of every definition.

### GuestThreads

An element of `Threads` is one incarnation of a `GuestThread` object, so a
stale handle is recognisable: its object is `freed`. `obj` holds the members
(`uses`, `zombieQueued`, `dead`, `exited`, `detached`, `joined`,
`sessionDead`, the slot, the holder of `t->m`), `host` the `std::thread`
member, `body` the place of the host thread in `ThreadBody`. Every actor has a
`call` with a program counter; one step is one critical section or one access
to an atomic, because the code's decisions are made of several of them:
`UseEnd` is `UseSub`, `UseZombie`, `UseDone`, `UseLive`, `UseDead`,
`UseDelete`, one step per read. `reset` is the progress of `ResetForSession`
with its vector `all` (`coll`), a set of pairs because an object can be in it
twice.

Touching a deleted object is undefined behaviour. `UseAfterFree` records where
it happened in `fault`; nothing happens afterwards. `SlotRace` does the same for
`FinishDelete`, which gives its slot back without `g_regMutex`: when another actor
is at `g_slotInUse` at that moment, with the lock or without it, the run may end there.
All invariants therefore speak of executions up to the first undefined behaviour.

`ThreadHandles` is the contract. It records which kinds of call have succeeded for a
thread (`claims`): Join and Detach never both, and Join after the thread's end only. A
handle is handed out once, leaves the registry for one that has a claim, and what is
consumed stays so. The refinement maps a handle to `valid` while it is in `g_live` and the
guest has been given it, and to `consumed` once it has left `g_live`; before that, and
before its Create has registered it (`Fresh`), it is `none`. The claims are the two flags
that the handlers set when they answer OK, `joined` and `detached` (`ClaimsOn`). Two Joins
may share the claim, as section 4 says; a Join that cannot deliver the exit value (EFAULT)
has set `joined` too, and its handle stays until the teardown. A Create that fails consumes
the handle it had made (`Abandon`), and a teardown consumes all it finds, those of the
Creates under way too (`Teardown`).

### GuestSync

A call begins with the reads a handler makes without a lock (handle, `dead`);
the part under the object's own lock is a later step, and so another
thread's destroy or a teardown fits between. `call[t].at` distinguishes
sleeping in `MutexPrivate::Lock` (`blocked`), having given the mutex up in a
wait (`gap`) and sleeping on the condition variable (`waiting`). Notifications
choose any sleeper; sleepers may wake without one. `held` is a history
variable: successful locks minus successful unlocks as the guest was told.

### MemoryMap

Every operation holds `m_mutex` throughout, so it is one action, with the
splitting of records (`Inside`, `Outside`), the byte count, the host's
protection per page, the snapshot, and the pages passed to the notification.
The failures the code handles are actions: `UnmapFails` and `BrkShrinkFails` stop
before a record whose `mprotect` fails. The lookup `Found` models the binary
search of `FindExecutableMapping`; its second read of an entry is in
`CodeTracking`, where operations are not atomic. `notified` and `asked` are history
variables of the last call. `PageTable` forgets records and says which pages a
call may change.

### CxxGuard

The handlers look the guard up by its address in the table of the present
session, then work under the entry's own lock. Entries of different sessions
have different locks and share the guard's byte, so an acquire reads and
writes it in two steps. `disturbed` is a history variable: code of an earlier
session has taken a step since the last teardown. The properties about the
byte hold without such code. The model assumes that code calls release or abort
only for guards it was told to initialise, as compilers generate it.

### CodeTracking

Per page: the window's record (`rec`), what the host enforces (`host`), the
registry, and who has translations of it. A memory operation is two steps,
`ChangeMap` (mprotect) and `Publish` (records, snapshot, release of the lock),
and what it reports is answered by a later invalidation. A mark and an
unprotection look the page up in two steps, because
`FindExecutableMapping` reads the entry again after its generation check
(`Found`, `Answer`); a mark takes the permission (`MarkClose`) before it enters the
page (`MarkRegister`), and the fault handler's look-up has to fall outside the two.
The translator is not part of the sources: it is the set of pages that the
shared code buffers hold translations of (`translated`), one such set for the cache of
each thread (`cached`), compilations that hold the invalidation mutex shared and mark
at their end, and invalidations that hold it alone. An invalidation drops a page from
the buffers and from the cache of the thread that calls it (`Drop`), and from no
other.

Four history variables say where an exception comes from, so that a property excuses
exactly what the code lets happen. `granted`: pages an operation made writable and
reported nothing. `failedOpen`: pages whose mark ended with a failed mprotect.
`overrun`: pages that a mark left open, or an invalidation opened, on an answer about
the mapping that a memory operation had overtaken. `shut`: pages left closed and
unregistered, by a failed mprotect or by such an answer. `raced` in a thread's
record says that its look-up was overtaken, or that its fault met others at work on
the page. Each of them was tried by leaving it out, and TLC then finds the behaviour.

### AudioOut

Ports are entries of `g_ports` with their users; `AudioOutput` is its look-up
under the lock, the pacing and the write of the block, which are separate steps
of a thread. A sink has a stream and a ring per port; `Tick` is time, the device's
callback may come or stay away (nothing is asked of it), and a write that waits
too long drops the ring and goes on. Blocks are lengths; a length longer than
the ring is possible.

### EngineSession

`at` is what a coroutine of the application does in the native process, `child` what
the child of its probe does. `gOwner` is `g_mutex`, `runOwner` is
`m_runMutex`, `ctx` is the configuration the live context was made from,
`store` and `pending` are the configuration and the deferred overrides. A fork
copies what the child will still meet: a locked mutex stays locked there for
ever, an inherited engine is `"parent"`. The pipe is two flags (`sent`, `got`).
The engine's run is a stretch between `Execute` and `RunEnds`.

### ShaderDiskCache

A file holds the variant of a key as one build compiled it, and what is
damaged in it. Processes start, are killed at any point, share the directory
with others of the same or another build, tidy it, and one power failure may take or
tear any file (nothing is synced). Keys may share a file name (`EntryName` is a
hash). `misled` records that a client was served something else than it
asked for; `owed` counts the jobs a waiting `Flush` has been called after.

### GnmStream

One step is one whole buffer: `SubmitBuffer` decodes it, then lowers the state
and plans it (`evidence`), and the operators that do so are those of the code,
evaluated on the state it has at that moment. The state is cumulative as in `GnmState`;
the logs are bounded, their counters are not. A packet of registers writes a run of
neighbours one by one, so the model's stream has one item for each register it writes.
`history` is a ghost: every item the walk got to. The properties compare the results
with definitions over `history` that know nothing of the code's logs and cursors. The
merge of the three logs is stated by what it gives (`Merged`: the k-th record is the
one with k numbers up to its own), as the sort of the code does, since no two records
have one number. `StreamInit`, `StreamNext` and so on carry the module's name because
one module of proofs extends it together with `ShaderCapture`.

### ShaderCapture

A submission walks the stages after every buffer (`submit`); the memo of a
stage decides whether its program is read again. The service looks up under
its mutex, compiles outside it and inserts under it again; the device's proof
(`proof`) uses it at the same time and the guest rewrites its code at any moment.
`seen` is a ghost of what has happened.

## 3. Runs

All runs use the specification itself, no replaced definitions; a cfg only
gives constants their values. Symmetry is used for safety properties only.
Deadlock is not an error where the cfg says so: a guest may stop calling, may
deadlock itself, or a bounded supply (objects, sessions, packets, starts) may
have been used up.

| Run | Shows | Bounds |
|---|---|---|
| `threads_all` | handles in `g_live` name existing objects; no deletion under a body or claimed twice; exact use counts; zombies, slots and stacks are neither lost nor shared; Join and Detach never both succeed (`GuestThreads` implements `ThreadHandles`); all up to the first undefined behaviour | two objects, two slots, three actors making every call |
| `threads_sessions` | with a main thread that creates, joins and inspects, over repeated teardowns: no undefined behaviour, Join has waited for the body, the teardown leaves only the leak list and ends, and joins of ended threads return | two objects, two slots |
| `threads_v_reset` | the disagreement told first in section 4 | two objects, two slots, a main thread that creates, detaches and resets |
| `sync_all` | the guest's view of a mutex is the mutex's own, also across waits; an unlock is not lost to sleepers; one session of grace | three threads, one mutex, one condition variable, depth 2, two teardowns |
| `memory_all` | records are disjoint, counted and applied; the snapshot is published; lost code is reported but for the cases section 4 tells; `MemoryMap` implements `PageTable` | window of three pages of two addresses, sizes 1, 3 and 6, a snapshot of two entries |
| `guard_all` | one initialiser at a time and once, the byte says so only afterwards; sleepers are notified; one session of grace | three threads, one guard, two teardowns |
| `smc_all` | a page the code buffers hold translations of is closed for writing but for the named exceptions, and who opens a page has none of it; the registry never outlives the translations; no fault is taken for a crash unless it raced, and every wait for a mutex is for a thread that goes on | two threads, two pages, two memory operations |
| `audio_all` | a port stays open under a call and pacing holds; every output returns, even with a silent device | two threads, two ports, blocks of 1 and 2, ring of 4, target 2, clocks followed 1 behind, at most two ports in one call of Outputs |
| `engine_all` | a run keeps its context and hooks follow it; children run only in an engine of their own; a verdict has read the whole report and leaves no child; every probe comes to a verdict | two coroutines, one preset besides the default, one more poll before the kill |
| `shader_disk` | nobody is served a wrong variant; only an outage leaves part of an entry; Flush waits for what was stored before it | two processes, two builds, two keys with one name, one start each, one job queued |
| `gnm_stream` | what is lowered are the guest's operations in its order with the state in force at each; no write goes uncounted; render passes are the stretches between dispatches | values 1 and 2, logs of 1 draw, 1 dispatch and 2 named writes, buffers of one or two, five packets |
| `shader_capture` | every visit and request is accounted for; a memo tells of the program it names; the service's SPIR-V belongs to its key; reading is bounded | two stages, two programs, two codes of which one is refused, two attempts, cache of one, three buffers, one rewrite, one request of the proof |

Why the bounds are enough to be interesting:

* *Threads.* The decisions in the code concern one object at a time and its
  users. Two objects let a body create, join or detach another thread while
  the main thread does the same. Objects are not reused, so the number of
  objects also bounds the number of creates.
* *Sync.* Three threads give a holder, a sleeper and one that comes in between;
  mutexes share nothing with each other, so one suffices. Two teardowns are
  needed to delete an object (one moves it to the graveyard).
* *Memory.* Three pages give a record a head, a middle and a tail to lose.
  A page of two addresses makes requests that are not aligned. `Cap` is 2, so that
  three executable pages overflow the snapshot.
* *Guards.* Guards share no state; three threads give an initialiser, a
  sleeper and a latecomer. Two teardowns delete an entry.
* *Code tracking.* Two pages make the entries of the snapshot move when a record
  goes; two operations are a grant and its withdrawal, or one under a
  handler and one that overtakes it.
* *Audio.* Two ports make `AudioOutOutputs` and the closing of all ports
  interesting; the ring holds two of the long blocks, so that a writer waits.
* *Engine.* Two coroutines are enough for each check-then-act pair of the code
  (a restart against a test, an override against a start, a fork against either).
* *Disk.* One process that writes and one that reads, tidies, is of another build or
  comes after a crash; two keys with one name make a collision.
* *Stream.* Five packets overflow each log, and still leave room for an
  operation before and after it in a later buffer.
* *Capture.* Three buffers give a stage a first attempt, a last one and a visit
  after it, or a change of program and back; a cache of one is emptied by the
  second program.

### Fairness

Nothing is assumed of guest code, of the device or of a child process.

* `GuestThreads.FairSpec`: the host schedules a call under way, a body past its
  guest code and the reset (weak fairness of `Continue`, `BodyEnd`,
  `ResetContinue`). This is what preemptive host threads give. So `JoinReturns`
  is stated for bodies that have ended, and `ResetTerminates` relies on the
  reset's bounded wait, not on the bodies.
* `AudioOut.AudioFairSpec`: time passes and threads go on (weak), and a thread gets the
  ports' lock that is free again and again (strong).
* `EngineSession.FairSpec`: weak fairness of the loop of `RunIsolated` in the parent,
  which takes no mutex. Neither the child nor a run nor a mutex need come.
* `GuestSync`, `CxxGuard`, `MemoryMap`, `CodeTracking`, `GnmStream`, `ShaderDiskCache` and
  `ShaderCapture` are checked for safety only. `NoLostUnlock` and `NoLostNotify`
  say as invariants what a wait needs: whoever sleeps while he need not has been woken;
  `FaultsAreResumed` says that whoever waits for a mutex waits for a thread that does not.


## 4. Disagreements

One of them is a run; the others are told here, with the lines that disagree,
because the models contain the behaviour and their properties name it as an exception.

* **Run `threads_v_reset`.** An exited detached thread is still in `g_zombies`
  and is found by the sweep of `g_live` too, so it is in the reset's vector
  twice; after deleting it the reset reads it again (`pthread_hle.cpp`,
  `ResetForSession`).

Guest threads (`kernel/pthread_hle.cpp`):

* A detached thread that ends quickly is deleted by the reaper inside its own
  Create, whose log line (:650) then reads it; :178–179 says the object is
  kept while it is in use.
* Between "last use released" and the deletion (:284) another call can begin
  to use the object; :175–177 says it cannot.
* `FinishDelete` calls `FreeSlotLocked` without `g_regMutex` (:262–272, :380), while
  `AllocSlot` (:346–368), `FreeSlot` and the teardown work on the same `std::map` under it:
  a data race, after which the table of slots says nothing.
* Two joiners of one thread both succeed (:679); `tools/hosttests/pthread_hle_test.cpp:193`
  expects one.
* The error returns of Join and Detach call `UseEnd` inside the scope of the lock on
  `t->m` (:692), and `UseEnd` may lock `g_regMutex`; :239–240 says the one is
  never held across the other.
* `ThreadBody` overwrites the exit value that `HExit` recorded (:458);
  `pthread_hle.h:25–27` says Join waits on the recorded one.
* The reset frees the slots of bodies it has given up on (:1063), and the next
  session hands them out under the running bodies; :989–990 says nothing touches them again.
* Create answers ENOMEM before it reaps (:593), so exited detached threads that
  hold every slot are never reaped by a Create; :828–829 says the reaper owns them.
* The handle is registered before `host` is assigned (:644); a join in between does
  not wait for the host thread, as :698–699 says it does.
* A joiner past the condition variable is blocked in `host.join()` (:700), where
  the teardown's flag (:986) does not reach it.
* A signal by the holder of the mutex may fall between a waiter's unlock and its
  lock of `waitM` (:903), and is then lost; :900–902 says it is not.

Self-modifying code (`fexcore_integration.cpp`):

* An invalidation drops the shared code buffers and the cache of the thread that calls it,
  and with no thread no cache at all (:252–255); the thread is the one of the host thread,
  or else the main one (`CurrentExecThread`, :112–115). :130–131 speaks of every stale
  translation, :241–243 of the per-thread caches. The other threads' caches keep what was
  dropped, of a page that is open again.
* Two threads write to the same registered page at once: the handler of the second
  finds it unregistered by the first and reports a crash; :316 calls that a real fault.
* An invalidation that looked its page up before an Unmap or a Protect opens it after
  it (:394–404); :389–392 says a sealed page is not opened again. A mark overtaken in the
  same way leaves a writable page open (:222), or closes a page that has just lost its
  record. The look-up itself may answer from an entry that a rebuild has replaced
  (`memory.cpp:646–658`).
* An invalidation whose mprotect fails leaves the page closed and out of the registry
  (:404–409): the guest's next write to it is reported as a crash.

Elsewhere:

* A lower break releases executable heap pages without a notification and without a new
  snapshot (`memory.cpp:723`); `memory.h:53–66` and `:331–333` say both happen.
* An `UnmapMemory` that fails half way reports nothing of what it has closed by then
  (`memory.cpp:374–378`); `memory.h:56` says every mutation of an executable range is
  reported.
* A protection that adds the W bit reports nothing (`memory.cpp:429–437`);
  `memory.h:63` says one that changes it does.
* Two submissions at once share the register state, the logs and the memos without a lock
  (`gnm_submit.cpp:273`, `sce_kernel_hle.cpp:449–456`), though the imports are called on
  the threads of the guest. The models assume that the guest submits one at a time.
* Code of the previous session that finishes an initialiser opens the guard of the new
  session (`cxxabi_hle.cpp:128`); :288–290 says it is harmless.
* A page made writable without a report (`memory.cpp:434–437`,
  `fexcore_integration.cpp:217`) keeps its translations;
  `fexcore_integration.cpp:127–128` says the registry covers them.
* The restart that the application asks for after a preset
  (`PS5SettingsScreen.kt:227–231`) stops nothing: the application never calls
  `Emulator::Initialize`, so `nativeShutdown` returns at `emulator.cpp:165`.
  For the same reason the core's audio, sink factory and shader sink are never set up
  on that path. `EngineSession` contains both worlds (`CoreUp`).
* `SmcManager` keeps the pointer to the context it was given when the engine goes down,
  and a conformance test unmaps pages that a run queued behind it may still want.
* The sink factory opens a stream and `Open` opens it again (`audio/audio_out_hle.cpp:312`,
  `audio.cpp:98`); the first one runs on, and survives its sink. Nobody notifies the ring's condition
  variable; writers rely on its time-outs. A block longer than the ring of 4096
  frames is dropped after two seconds although `audio.cpp:110–111` speaks of any length.
* `gpu_ir.cpp:142–145` says that every draw already carries a write of the index-type
  register. The value a draw records is set by the INDEX_TYPE packet alone
  (`pm4_decoder.cpp:189–192`); a SET_CONTEXT_REG of the same register (`pm4_decoder.cpp:160`)
  is counted as carried (`gnm_state.cpp:67–69`) and reaches no draw. The decoder also
  ignores the result of `WriteRegister`, which `gnm_state.h:108–110` says the caller counts.
* The budget of captures is per stage and last address (`gnm_submit.h:167–171`): two programs
  that alternate renew it each time. Code rewritten in place is never captured again
  (`gnm_submit.cpp:178`). A capture near the end of a mapping fails as a whole,
  because the reader is all or nothing (`gnm_submit.cpp:199–211`, `shader_capture.cpp:44`).
* The key of the recompiler's snapshots leaves out `srtPoison`, which
  `materializeResult` reads (`Recompiler.cpp:772`, against the comment at :886).
* The verdict TIMEOUT of a probe, whose text says that nothing crashed, is also given
  when the child inherited a locked mutex or ended just before the kill
  (`fexcore_wrapper.cpp`). The stop reason "guest-trap" is never reported, and the
  "session run budget" of `fexcore_integration.cpp:776` does not exist.
* `Flush` of the disk cache has no caller in the sources, and requests of the command
  stream never use the disk cache.

## 5. Proofs

`tlapm` checks eight modules, for every value of the constants. The assumptions are the
named ones of the modules (`ConstantsOK`, `SyncConstants`, `MemoryConstants`,
`GuardConstants`, `TrackingConstants` and so on); they are about the shape of the
constants only, and TLC evaluates them in every run. Four theorems about
`GuestThreads` also say which calls are made, and are marked below; the assumption
is one that the constants of a run meet. Every theorem has the same
form: an inductive invariant `IInv`, `Init => IInv`, one lemma per action or
group of actions for `IInv /\ [Next]_vars => IInv'`, and `IInv => property`.

**GuestThreads.** `TypeCorrect`, `HandlesAreValid`, `BodiesKeepTheirObject`,
`DeletedAtMostOnce` and `UseCountsAreExact`; `HandlesKeepTheirPromise` and
`NothingIsLost`. None of these is inductive alone.
`IInv` adds the story of an object: until its Create has registered it nobody
else can name it (`FreshInv`), Create owns it until the host thread starts
(`CreatorInv`); what `UseEnd` and the reaper have established step by step when
they come to delete (`CondemnedInv`: the body is done, the handle is out of the
registry, `dead` is theirs); the main thread's object has no body (`MainInv`);
what a reset has collected is no longer registered (`CollectedInv`).
It follows that the deletions by `UseEnd` and by the reaper never meet and
never happen under a running body. What does *not* follow is that no deleted object is
touched, or that the slot table is never raced for: for arbitrary calls that is false, as
section 4 says (a second joiner, a use that begins between the last release and the
deletion, a teardown with exited detached threads, two deletions at once).

`OneCallerIsSafe` (`NoUndefinedBehaviour`, the slot race included), `JoinIsABarrier` (`JoinWaitsForBody`)
and `TeardownIsComplete` (`NothingSurvivesReset`) hold under `OneCaller`: only the
main thread makes calls, it detaches nothing, and a created thread runs, asks for its own
handle and exits. These are the calls of the run `threads_sessions`; the theorems are
for any number of threads, slots and sessions, with creates that fail and teardowns
over running bodies. `SessionInv` says of such programs that nothing is ever queued for
the reaper or detached (`ReaperInv`), that the other threads are in guest code, about to
exit, or gone (`BodiesInv`), where the main thread's call is and what it knows of its
object (`CallerInv`, `MineInv`), who has each object that exists: the registry, the leak
list, the main thread's call or the sweep (`KeptInv`), that a registered thread has a host
thread to be joined or has ended (`HostInv`), and that what a teardown has collected
exists, and the registry is empty once it has been swept (`SweepInv`).

`HandlesKeepTheirPromise` is the refinement of `ThreadHandles`, for every choice of
calls, teardowns included: a Join that succeeds finds no Detach that did, and the other way
round, and no handle is handed out or consumed twice. It needs three more invariants (`JoinedInv`, `QueuedInv`,
`UnpublishedInv`); each action is then shown to be one step of the contract or to leave
every handle as it is.

`NothingIsLost` is `ResourcesAccounted`, up to the first undefined behaviour (so up to the
first `SlotRace`), under the assumption that no teardown is
ever asked for (`"reset" \notin MainOps`): a teardown declares the slots of
bodies it has given up on free. `SlotInv` adds that whoever has a body, or is being
created, has a slot, and `ZombieInv` says who owns a queued object at each place
of the reaper's loop.

`NoMutexIsAbandoned`, `TeardownIsNeverStuck` and `TeardownGoesOn` are for every choice
of calls, teardowns included, and are the part of `ResetTerminates` that can be proved.
`MutexInv` says that `t->m` is held over several steps only by a call whose place is in
the `UseEnd` under the lock, and that such a call names the locked object. With `IInv` it
follows that whatever the next object of a loop of `ResetForSession` needs is there: the
object exists or the behaviour is already undefined, and its mutex is free or held by a
call whose own next step is possible (`TeardownCanGoOn`). `Onward` is the measure: no
step of anybody sets a teardown back, each loop takes its objects one at a time from what
has been collected and ends when none is left. That fair scheduling then ends the
teardown stays with TLC. The runs do not state these three; the predicates were checked
on instances of the size of `threads_all` before they were proved.

**GuestSync.** `SyncTypes`, `GuestMutexesExclude` (`HeldIsOwned`),
`UnlocksAreNotLost` (`NoLostUnlock`) and `GraveyardGrace` (`OneSessionGrace`).
The strengthening says which objects a call names at each place and that a
pending result exists only while the mutex is taken back (`CallShape`), that
only recursive mutexes are held more than once (`DepthOne`), and how many
teardowns an object in each place has seen (`Ages`, `ErasMatch`).

**MemoryMap.** `RecordsNeverOverlap`, `ProtectionsAreApplied`, `LostCodeReported`,
`SnapshotsArePublished`, `BooksAgree` (`RecordsAgree`) and `RecordsImplementTable`, the
refinement of `PageTable`.
The argument has one idea: every operation, failing half way or not, replaces the
records of one range by new records inside it (`Replaces`). The lemmas on cutting say that
the pieces outside a range are disjoint, miss no page and gain none; from them
`ReplaceKeeps` gives disjointness and the protections, and `ReplaceEntries` the page
table; there rounding needs no divisibility, `Down(a) <= a <= Up(a)` is enough.
`BooksAgree` adds the byte count. `BytesCounted` is a fold over the set of records; since
they are disjoint, it is the number of addresses that some record holds (`BytesAreHeld`).
That a fold has this value is an induction over a set: the number satisfies
the fold's recursion, and two functions that do are the same, for else there is a
smallest set on which they differ (`AddsOnce`). What a call adds and takes off is then
the size of a union or a difference of sets (`ReplaceCounts`). The count is exact only
because records begin and end on page boundaries inside the window, which is an invariant
of its own (`Placed`) and does need the divisibility (`UpEdge`, `DownEdge`).

**AudioOut.** `PortsStayOpen` (`PlayedPortsStayOpen`). A call looks up its port, sleeps or
waits for the ring with the table's lock free, and then writes without looking again.
`AudioInv` says what it knows meanwhile: the call that plays is the one that holds the
output mutex and the only one (`playing`); the ports of its remaining blocks are used
(`Named`); and what it found out about its port still holds when it acts (`Paced`): a port
it sleeps for will be at the latency target when the sleep is over, since only time
passes, and a ring that had room keeps it, since only the device drains it. From this
follows the bound of each queue (`PortOk`), which is what keeps `Paced` true for the
next block. Its proofs are in `MemoryAndAudio_proofs`, with those of `MemoryMap`, to which it
is not related.

**CxxGuard.** `OneInitialiser` (`InitialisedOnce`) and `SleepersAreNotified`
(`NoLostNotify`). A call names an entry of the session it looked it up in, which is no
older than its code (`CallOk`); entries move on with every teardown (`PlaceOk`); whoever
has read the byte and not yet written it has the entry to himself (`Armed`). `Quiet`, which
holds as long as no code of an earlier session runs, says that an initialiser in
progress occupies this session's entry of its guard.

**CodeTracking.** `TranslatedCodeIsClosed`, `RegistryIsNotStale` and
`FaultsAreNotMistaken`. The invariant has three parts. `LookupInv`: who holds which mutex
where, that entries of the snapshot agree with the records (a rebuild gives no two pages
one entry, `RankInjective`), and that a look-up no operation has overtaken is right
(`LookOk`). `CodeInv`: it excuses an open page while a mark is on its way to it; the mark
may pass the page over because it is registered or has lost its execute permission, and
`ClosedBehind` says that such a page does not need the excuse; `OpenOk` and `GiveOk` say
why a page may be open against its record. `FaultInv`: a page that is closed against its
record and not registered is one that somebody is opening, entering or changing, or it is
`shut`; so a fault that did not race finds its page registered once it has the lock.

**EngineSession.** `RunsKeepTheirContext`, `ChildrenRebuildTheEngine` and
`ReportsAreRead`. Whoever builds the context or runs in it holds `g_mutex`
(`Locked`); a child that still has its parent's engine has the rebuild before it
(`Inherited`); a child that ended by itself has sent its report (`Sent`), and a verdict
comes when it has been reaped (`Read`); whoever is about to apply a preset has one (`Chosen`).

**ShaderDiskCache.** `ClientsAreNotMisled`, `EntriesAreWhole` and `FlushIsSound`, for any
assignment of file names to keys. A temporary is whole before it is renamed, and what a
waiting Flush is owed is still in the queue or with the worker (`ProcOk`); a directory
that is gone has no temporaries (`DirsOk`).

**ShaderCapture.** `PinsAreTrue`, `EntriesBelongToTheirKeys`, `ReadingIsBounded` and
`CountersAreExact`. While a stage is tried its memo is about the program that is loaded
(`Trying`); the attempts a stage has left are part of its budget (`Budget`).

**GnmStream.** `NothingIsUncounted` (`CountsExact`), `OperationsAreHistory` (`IrIsHistory`)
and `EveryRegionIsAPass` (`PassesAreRegions`), for any values, any capacities of the logs
(of which `StreamConstants` says that they are positive and fit the operation list
together), and buffers and histories of any length. The invariant `StreamInv` says two
things: the evidence is that of the state, and the state `Matches` the history. Each
counter is the number of packets of a kind (`Counted`), each register in force is what the last
packet before gave (`InForce`), and each log holds, for the last packets of its class,
the record that each has left with the number it had then (`Recorded`, `LogOf`). `After` says what
one packet does to the state, case by case (`PacketStep`); a buffer is a fold, and
`DecodeMatches` carries `Matches` along it.

The properties follow from `Matches` alone. A record is in its log just if fewer packets
of its class follow than the log holds (`RangeIs`), which is what `InReach` says; numbers grow
with the packets, so the records are merged in the packets' order (`MergedInOrder`) and
the k-th operation is that of the k-th packet in reach (`OpsFollow`). For the passes,
`PlanOf` says what a plan of the first k operations is: a pass for every stretch that has
ended before, in its place, and in `cur` the one that has not; the boundary, which comes
last, has closed it. Its proofs are in `GnmSubmit_proofs`, with those of `ShaderCapture`.

Only model-checked: liveness (`JoinReturns`, `ResetTerminates` and the other properties of
section 3 under fairness). Liveness under fairness and ENABLED are out of the prover's
reach, and so are the library's induction theorems, which take an operator as a
parameter; where an induction over data is needed (the byte count, the fold over a
buffer, the fold over the operations) it is done with a smallest counterexample, as
above. `SelectSeq` and `SortSeq` are opaque to the prover, so the models that are proved
about do without them. No module uses a RECURSIVE operator.

## 6. Abstractions

* Memory is sequentially consistent; the atomics of the code use orders that
  give this for the flags modelled. `FinishDelete` is one step, and its unprotected access
  to the slot map a separate way for the run to end (`SlotRace`) where others are at the map.
* Values that no property reads are left out: names, ids, priorities, exit
  values, stack contents, attribute objects, sizes of allocations inside the
  guest heap, samples and volumes, shader text, log text. Two exceptions: the log line
  at the end of `HCreate` is a step because it reads the object, and so is the
  one at the end of `HJoin`.
* A slot is a name; the mapping of stack and TLS memory is not modelled, only
  the failure of the write of the handle (`createBadSlot`).
* Time: a timeout may happen at any moment, deadlines are not numbers. `AudioOut`
  is the exception, where a unit of time is the time 1024 frames play; `ShaderDiskCache`
  leaves out the ages of files.
* The 64-bit arithmetic of `memory.cpp` is exact: every bound is tested by
  subtraction before anything is added, so the model's numbers do not wrap.
* The translator, the audio device, the file system and the kernel's processes are not part
  of the sources; they are modelled by what the code can observe of them.
* Collisions of `HashMeta` are left out of `ShaderCapture` (keys are programs), while
  collisions of file names are in `ShaderDiskCache`. Submissions are
  assumed to come one at a time; no lock of the code sees to it (section 4).

Not modelled: the parts `PROJECT.json` lists as `not_modelled`, with their reasons. The
largest are the shader recompiler and the Vulkan device: the first is a compiler,
pure functions over whole programs, of which a small instance says nothing; the
second is a sequence of calls of an API of which there is no model.

## 7. Plan

Next: `VideoOut` (registration and flips), `KernelFiles` and `DirectMemory` (descriptors and
allocations do not alias), `GuestHeap`, the recompiler's caches in memory. Every safety
property of the runs is stated by a theorem; a new module comes with its own.

## 8. Running the checks

    tlc -config GuestThreads_all.cfg MCGuestThreads
    tlc -config GuestThreads_sessions.cfg MCGuestThreads
    tlc -config GuestThreads_v_reset.cfg MCGuestThreads      (finds the violation)
    tlc -config GuestSync_all.cfg MCGuestSync
    tlc -config MemoryMap_all.cfg MCMemoryMap
    tlc -config CxxGuard_all.cfg MCCxxGuard
    tlc -config CodeTracking_all.cfg MCCodeTracking
    tlc -config AudioOut_all.cfg MCAudioOut
    tlc -config EngineSession_all.cfg MCEngineSession
    tlc -config ShaderDiskCache_all.cfg MCShaderDiskCache
    tlc -config GnmStream_all.cfg MCGnmStream
    tlc -config ShaderCapture_all.cfg MCShaderCapture

    tlapm GuestThreads_proofs.tla       tlapm CodeTracking_proofs.tla
    tlapm GuestSync_proofs.tla          tlapm EngineSession_proofs.tla
    tlapm MemoryAndAudio_proofs.tla     tlapm ShaderDiskCache_proofs.tla
    tlapm CxxGuard_proofs.tla           tlapm GnmSubmit_proofs.tla
