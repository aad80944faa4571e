------------------------------- MODULE AudioOut -------------------------------
(***************************************************************************)
(* Audio ports: AudioOutHle (audio/audio_out_hle.cpp) with the sink that   *)
(* AudioEngine puts behind a port (audio/audio.cpp).                       *)
(*                                                                         *)
(* A port without a sink paces the guest on a virtual clock.  A port with  *)
(* a sink queues blocks in a bounded ring, which the callback of an audio  *)
(* stream empties on a thread of the device.  A call that waits, for the   *)
(* clock or for the ring, keeps both mutexes of the port table meanwhile;  *)
(* the one is never held without the other for longer than a step, and     *)
(* `playing' stands for both.                                              *)
(*                                                                         *)
(* One unit is 1024 frames, or the time they play: at 48 kHz the latency   *)
(* target of 40 ms is two units, and the ring of 4096 frames holds four.   *)
(* Samples, volumes and mix levels are left out.                           *)
(***************************************************************************)
EXTENDS Integers, Sequences

CONSTANTS
  Threads,    \* guest threads
  NumPorts,   \* kPortsMax
  Lengths,    \* block lengths the guest opens ports with
  RingUnits,  \* capacity of a ring
  Target,     \* kTargetLatencyUs
  MaxLate,    \* how far a virtual clock is followed after its queue ran out
  MaxCall,    \* most ports in one call of Outputs
  None        \* no thread

ASSUME AudioConstants ==
  /\ NumPorts \in Nat \ {0}
  /\ Lengths \subseteq Nat \ {0}
  /\ RingUnits \in Nat /\ Target \in Nat /\ MaxLate \in Nat /\ MaxCall \in Nat
  /\ None \notin Threads

VARIABLES
  ports,     \* the port table
  factory,   \* AudioEngine has set the sink factory
  playing,   \* the thread that holds the mutexes across steps
  call,      \* what every thread does
  orphaned,  \* a stream runs whose sink has been destroyed
  crashed    \* a callback has used memory that was freed

audioVars == <<ports, factory, playing, call, orphaned, crashed>>

Ports == 1 .. NumPorts

\* `queued' is the fill of the ring, or how far the virtual queue reaches beyond
\* the clock; `streams' counts the running streams that pull from the port's sink.
Unused == [used |-> FALSE, len |-> 0, sink |-> FALSE, streams |-> 0, queued |-> 0]

Items == [port : Ports, data : BOOLEAN]
Idle  == [pc |-> "idle", todo |-> <<>>, wait |-> 0]

AudioInit ==
  /\ ports = [p \in Ports |-> Unused]
  /\ factory = FALSE
  /\ playing = None
  /\ call = [t \in Threads |-> Idle]
  /\ orphaned = FALSE /\ crashed = FALSE

Is(t, where) == call[t].pc = where
Larger(a, b) == IF a > b THEN a ELSE b

-----------------------------------------------------------------------------
(* Ports and their sinks.                                                  *)

\* AudioEngine::Initialize, once the probe of the device has succeeded.
SetSinkFactory ==
  /\ playing = None /\ ~factory
  /\ factory' = TRUE
  /\ UNCHANGED <<ports, playing, call, orphaned, crashed>>

IsFirstFree(p) == ~ports[p].used /\ \A q \in 1 .. p - 1 : ports[q].used

Opened(len, sink, streams) ==
  [used |-> TRUE, len |-> len, sink |-> sink, streams |-> streams, queued |-> 0]

\* A port that takes no sink, or whose sink the device refuses.
OpenSinkless(t, p, len) ==
  /\ Is(t, "idle") /\ playing = None /\ IsFirstFree(p)
  /\ ports' = [ports EXCEPT ![p] = Opened(len, FALSE, 0)]
  /\ UNCHANGED <<factory, playing, call, orphaned, crashed>>

\* The factory has opened the sink, and Open opens it again: a second stream and
\* a new ring, while the first stream runs.  If the device refuses, the sink is
\* destroyed under the first stream.
OpenWithSink(t, p, len) ==
  /\ Is(t, "idle") /\ playing = None /\ factory /\ IsFirstFree(p)
  /\ \/ /\ ports' = [ports EXCEPT ![p] = Opened(len, TRUE, 2)]
        /\ UNCHANGED orphaned
     \/ /\ ports' = [ports EXCEPT ![p] = Opened(len, FALSE, 0)]
        /\ orphaned' = TRUE
  /\ crashed' \in BOOLEAN
  /\ UNCHANGED <<factory, playing, call>>

\* Close knows the last stream only.
Leaves(p) == ports[p].streams > 1

Close_Unlocked(t, p) ==
  /\ Is(t, "idle") /\ ports[p].used
  /\ ports' = [ports EXCEPT ![p] = Unused]
  /\ orphaned' = (orphaned \/ Leaves(p))
  /\ UNCHANGED <<factory, playing, call, crashed>>

Close(t, p) ==
  /\ Is(t, "idle") /\ playing = None /\ ports[p].used
  /\ ports' = [ports EXCEPT ![p] = Unused]
  /\ orphaned' = (orphaned \/ Leaves(p))
  /\ UNCHANGED <<factory, playing, call, crashed>>

CloseAll ==
  /\ playing = None
  /\ ports' = [p \in Ports |-> Unused]
  /\ orphaned' = (orphaned \/ \E p \in Ports : Leaves(p))
  /\ UNCHANGED <<factory, playing, call, crashed>>

-----------------------------------------------------------------------------
(* Output, and Outputs over several ports.                                 *)

Call(t) ==
  /\ Is(t, "idle")
  /\ call' = [call EXCEPT ![t].pc = "enter"]
  /\ UNCHANGED <<ports, factory, playing, orphaned, crashed>>

Item(t) == Head(call[t].todo)
Port(t) == ports[Item(t).port]

\* Every handle is looked up before the first block is taken.  What the call was
\* given matters from here on only, so it is chosen here.
Enter(t, todo) ==
  /\ Is(t, "enter") /\ playing = None
  /\ IF \A i \in 1 .. Len(todo) : ports[todo[i].port].used
     THEN playing' = t /\ call' = [call EXCEPT ![t].pc = "turn", ![t].todo = todo]
     ELSE UNCHANGED playing /\ call' = [call EXCEPT ![t] = Idle]
  /\ UNCHANGED <<ports, factory, orphaned, crashed>>

EnterAny(t) == \E n \in 1 .. MaxCall : \E todo \in [1 .. n -> Items] : Enter(t, todo)

NextItem(t) == call' = [call EXCEPT ![t] = [Idle EXCEPT !.pc = "turn", !.todo = Tail(call[t].todo)]]

Finish(t) ==
  /\ Is(t, "turn") /\ call[t].todo = <<>>
  /\ playing' = None
  /\ call' = [call EXCEPT ![t] = Idle]
  /\ UNCHANGED <<ports, factory, orphaned, crashed>>

\* How long PaceVirtualLocked sleeps: to the latency target, or to the end of the
\* queue when there is no data.
Wait(t) == Larger(0, Port(t).queued - IF Item(t).data THEN Target ELSE 0)

\* A queue that has run out starts at the present.
PaceVirtual(t) ==
  /\ Is(t, "turn") /\ call[t].todo # <<>>
  /\ ~Port(t).sink
  /\ call' = [call EXCEPT ![t].pc = "sleep", ![t].wait = Wait(t)]
  /\ ports' = [ports EXCEPT ![Item(t).port].queued = Larger(0, @)]
  /\ UNCHANGED <<factory, playing, orphaned, crashed>>

Awake(t) ==
  /\ Is(t, "sleep") /\ call[t].wait = 0
  /\ ports' = [ports EXCEPT ![Item(t).port].queued = @ + IF Item(t).data THEN Port(t).len ELSE 0]
  /\ NextItem(t)
  /\ UNCHANGED <<factory, playing, orphaned, crashed>>

\* QueueLocked: a call without data does nothing at a sink.
QueueOrPass(t) ==
  /\ Is(t, "turn") /\ call[t].todo # <<>>
  /\ Port(t).sink
  /\ IF Item(t).data THEN call' = [call EXCEPT ![t].pc = "drain"] ELSE NextItem(t)
  /\ UNCHANGED <<ports, factory, playing, orphaned, crashed>>

\* As many blocks as make up the latency target, two at least and sixteen at most.
Buffers(len) ==
  LET needed == (Target + len - 1) \div len
  IN IF needed < 2 THEN 2 ELSE IF needed > 16 THEN 16 ELSE needed
MinQueued(len) == len * Buffers(len)

\* The wait for the ring to drain ends by itself, or in a Clear after 200 ms.
Drained(t) ==
  /\ Is(t, "drain")
  /\ ports' = [ports EXCEPT ![Item(t).port].queued = IF @ > MinQueued(Port(t).len) THEN 0 ELSE @]
  /\ call' = [call EXCEPT ![t].pc = "push"]
  /\ UNCHANGED <<factory, playing, orphaned, crashed>>

Fits(t) == Port(t).len <= RingUnits - Port(t).queued

Push(t) ==
  /\ Is(t, "push") /\ Fits(t)
  /\ ports' = [ports EXCEPT ![Item(t).port].queued = @ + Port(t).len]
  /\ NextItem(t)
  /\ UNCHANGED <<factory, playing, orphaned, crashed>>

\* No room within two seconds: the block is dropped.
Drop_WaitsOn(t) == FALSE
Drop(t) ==
  /\ Is(t, "push") /\ ~Fits(t)
  /\ NextItem(t)
  /\ UNCHANGED <<ports, factory, playing, orphaned, crashed>>

-----------------------------------------------------------------------------
(* The device and the clock.                                               *)

\* The callback pulls what there is and plays silence for the rest.
Callback(p) ==
  /\ ports[p].streams > 0 /\ ports[p].queued > 0
  /\ ports' = [ports EXCEPT ![p].queued = @ - 1]
  /\ UNCHANGED <<factory, playing, call, orphaned, crashed>>

\* The callback of a stream without a sink reads freed memory.
CallbackOfOrphan ==
  /\ orphaned
  /\ crashed' = TRUE
  /\ UNCHANGED <<ports, factory, playing, call, orphaned>>

Tick ==
  /\ ports' = [p \in Ports |-> IF ports[p].used /\ ~ports[p].sink
                               THEN [ports[p] EXCEPT !.queued = Larger(-MaxLate, @ - 1)]
                               ELSE ports[p]]
  /\ call' = [t \in Threads |-> [call[t] EXCEPT !.wait = Larger(0, @ - 1)]]
  /\ UNCHANGED <<factory, playing, orphaned, crashed>>

-----------------------------------------------------------------------------
Play(t) ==
  \/ PaceVirtual(t) \/ Awake(t)
  \/ QueueOrPass(t) \/ Drained(t) \/ Push(t) \/ Drop(t)
  \/ Finish(t)

Guest(t) ==
  \/ \E p \in Ports, len \in Lengths : OpenSinkless(t, p, len) \/ OpenWithSink(t, p, len)
  \/ \E p \in Ports : Close(t, p)
  \/ Call(t)

AudioNext ==
  \/ /\ ~crashed
     /\ \/ \E t \in Threads : Guest(t) \/ EnterAny(t) \/ Play(t)
        \/ \E p \in Ports : Callback(p)
        \/ SetSinkFactory \/ CloseAll \/ CallbackOfOrphan \/ Tick
  \/ crashed /\ UNCHANGED audioVars

AudioSpec == AudioInit /\ [][AudioNext]_audioVars

\* Time passes, a thread in a call goes on, and a mutex that is free again and
\* again is obtained at last.  Nothing is asked of the device.
AudioFairSpec ==
  /\ AudioSpec
  /\ WF_audioVars(~crashed /\ Tick)
  /\ \A t \in Threads : WF_audioVars(~crashed /\ Play(t)) /\ SF_audioVars(~crashed /\ EnterAny(t))

-----------------------------------------------------------------------------
\* Every variable has its type; a port that is not used is as it was made.
AudioTypes ==
  /\ \A p \in Ports :
       \/ ports[p] = Unused
       \/ /\ ports[p].used /\ ports[p].len \in Lengths
          /\ ports[p].sink \in BOOLEAN
          /\ ports[p].streams \in 0 .. 2
          /\ ports[p].queued \in (IF ports[p].sink THEN 0 ELSE -MaxLate) .. RingUnits + Target + ports[p].len
  /\ factory \in BOOLEAN /\ orphaned \in BOOLEAN /\ crashed \in BOOLEAN
  /\ playing \in Threads \cup {None}
  /\ \A t \in Threads :
       /\ call[t].pc \in {"idle", "enter", "turn", "sleep", "drain", "push"}
       /\ Len(call[t].todo) <= MaxCall
       /\ \A i \in 1 .. Len(call[t].todo) : call[t].todo[i] \in Items
       /\ call[t].wait \in Nat

\* The guest never runs ahead of the sound by more than the latency target and one
\* block, whoever plays and in whatever order calls and callbacks come: on the
\* virtual clock by the sleep, at a device by the drain wait and the size of the ring.
LatencyBounded ==
  \A p \in Ports : ports[p].used =>
    ports[p].queued <= ports[p].len + IF ports[p].sink THEN MinQueued(ports[p].len) ELSE Target

\* Ports do not go away under a call: Output and Outputs look a port up, sleep or
\* wait for the ring, and use it again without looking; Close and CloseAll come in
\* between only when the call is over (outputMutex of audio_out_hle.cpp),
\* and the latency stays bounded.
PlayedPortsStayOpen ==
  /\ AudioTypes /\ LatencyBounded
  /\ \A t \in Threads : call[t].pc \in {"turn", "sleep", "drain", "push"} =>
       \A i \in 1 .. Len(call[t].todo) : ports[call[t].todo[i].port].used

\* A call of Output or Outputs returns even when the device never calls back again:
\* a wedged callback does not wedge the guest's mixer thread (kQueueTimeoutMs).
OutputReturns == \A t \in Threads : Is(t, "enter") ~> (Is(t, "idle") \/ crashed)

=============================================================================
