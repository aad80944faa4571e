---------------------------- MODULE ThreadHandles ----------------------------
(***************************************************************************)
(* What the thread surface of kernel/pthread_hle.cpp promises a guest      *)
(* about thread handles, without objects, locks, use counts or slots.  A   *)
(* Join or a Detach that succeeds has a claim to the thread: the two never *)
(* both have one, Join gets its claim after the thread's end only, and a   *)
(* handle that has been consumed stays consumed.  Two Joins may share the  *)
(* claim: whoever waits before the first one is answered gets it too.  A   *)
(* handle can be consumed before the guest has it: by a Create that fails, *)
(* or by a teardown that overtakes a Create.                               *)
(***************************************************************************)
CONSTANT Threads

VARIABLES
  state,   \* "none", "valid" or "consumed"
  claims,  \* the kinds of calls that have succeeded: "join", "detach"
  ended    \* the threads whose exit is recorded

vars == <<state, claims, ended>>

TypeOK ==
  /\ state \in [Threads -> {"none", "valid", "consumed"}]
  /\ claims \in [Threads -> SUBSET {"join", "detach"}]
  /\ ended \subseteq Threads

Init ==
  /\ state = [t \in Threads |-> "none"]
  /\ claims = [t \in Threads |-> {}]
  /\ ended = {}

\* Create, or Self for the main thread, hands out a fresh handle.
Publish(t) ==
  /\ state[t] = "none"
  /\ state' = [state EXCEPT ![t] = "valid"]
  /\ UNCHANGED <<claims, ended>>

\* The thread calls Exit or returns, possibly before its creator has
\* published the handle (the main thread's object appears on demand).
End(t) ==
  /\ ended' = ended \cup {t}
  /\ UNCHANGED <<state, claims>>

\* A Create fails after it has made the handle; nobody is given it.
Abandon(t) ==
  /\ state[t] = "none"
  /\ state' = [state EXCEPT ![t] = "consumed"]
  /\ UNCHANGED <<claims, ended>>

\* A Join succeeds, now or over a handle that a teardown has consumed.
Join(t) ==
  /\ t \in ended
  /\ "detach" \notin claims[t]
  /\ claims' = [claims EXCEPT ![t] = @ \cup {"join"}]
  /\ UNCHANGED <<state, ended>>

\* A Detach succeeds, or a Create makes a thread that is detached already.
Detach(t) ==
  /\ "join" \notin claims[t]
  /\ claims' = [claims EXCEPT ![t] = @ \cup {"detach"}]
  /\ UNCHANGED <<state, ended>>

\* The end of a thread consumes its handle for the one that has the claim:
\* a Join, or the reaper of detached threads.
Consume(t) ==
  /\ state[t] = "valid"
  /\ t \in ended
  /\ claims[t] # {}
  /\ state' = [state EXCEPT ![t] = "consumed"]
  /\ UNCHANGED <<claims, ended>>

\* The end of a session consumes every handle at once, those of the Creates
\* under way too.
Teardown ==
  /\ \E spared \in SUBSET {t \in Threads : state[t] = "none"} :
       state' = [t \in Threads |-> IF t \in spared THEN "none" ELSE "consumed"]
  /\ UNCHANGED <<claims, ended>>

Next ==
  \/ \E t \in Threads :
       \/ Publish(t) \/ Abandon(t) \/ End(t)
       \/ Join(t) \/ Detach(t) \/ Consume(t)
  \/ Teardown

Spec == Init /\ [][Next]_vars

=============================================================================
