---------------------------- MODULE CodeTracking ----------------------------
(***************************************************************************)
(* Tracking of self-modifying code: the SmcManager of                      *)
(* fexcore_integration.cpp, together with the operations of the memory     *)
(* window that change executable pages.                                    *)
(*                                                                         *)
(* A page the guest may write loses its write permission once the          *)
(* translator has compiled code from it, and is entered in a registry.     *)
(* The next write faults; the handler drops the translations, takes the    *)
(* page out of the registry and gives the permission back.  Operations of  *)
(* the memory window change permissions without a fault and report the     *)
(* code they end through a notification, after their lock is released.     *)
(*                                                                         *)
(* The window answers queries about executable memory from a snapshot that *)
(* readers search without a lock.  A reader finds an entry, is told that   *)
(* no rebuild has happened, and then reads the entry once more.            *)
(*                                                                         *)
(* The translator is not part of the sources.  It is modelled by what the  *)
(* integration relies on: the pages that the shared code buffers hold      *)
(* translations of, those that each thread's own cache does, a compilation *)
(* that holds the invalidation mutex shared and marks the page when it is  *)
(* done, and an invalidation that holds the mutex alone.                   *)
(***************************************************************************)
EXTENDS Naturals, FiniteSets

CONSTANTS
  Threads,   \* host threads that run guest code
  NumPages,  \* pages of the window
  None,      \* no thread
  MaxOps     \* how many times the guest changes its memory map

ASSUME TrackingConstants ==
  /\ NumPages \in Nat \ {0}
  /\ MaxOps \in Nat
  /\ None \notin Threads

Pages == 1 .. NumPages

\* What a record grants; a page without a record is sealed.
Sealed == {}
Flags  == {Sealed, {"R", "W"}, {"R", "X"}, {"R", "W", "X"}}

VARIABLES
  rec,        \* the window's record of every page (m_allocations)
  host,       \* the protection the host enforces on it
  slots,      \* the snapshot: the `writable' field of every entry (m_execRanges)
  registry,   \* m_protectedPages
  translated, \* pages the shared code buffers hold translations of
  cached,     \* pages each thread's own cache holds translations of
  pageLock,   \* holder of m_pageMutex
  inval,      \* exclusive holder of the invalidation mutex
  memLock,    \* holder of the window's m_mutex
  at,         \* what every thread does, and to which page
  ops,        \* memory operations so far
  granted,    \* pages given write permission by an operation that reported
              \* nothing, and not closed by a mark since
  failedOpen, \* pages whose mark ended with a failed mprotect
  overrun,    \* pages left open by a mark, or opened by an invalidation, that
              \* acted on an answer a memory operation had overtaken
  shut        \* pages left closed without an entry in the registry, by a failed
              \* mprotect or by an answer a memory operation had overtaken

memory == <<rec, host, slots, memLock, ops>>
locks  == <<pageLock, inval>>
code   == <<translated, cached>>
opened == <<granted, failedOpen, overrun>>
vars == <<memory, registry, code, locks, at, opened, shut>>

\* A thread in guest code.  In the host it has a page; `lost' says that code on
\* it is to be reported; `flags' is what a memory operation was asked for; `hit'
\* is the entry a lookup has found and `told' what the entry said.  `raced' is a
\* ghost: since a lookup began a memory operation has been under way, or others
\* have had a hand in the page of a fault.
Running == [pc |-> "run", page |-> 1, flags |-> Sealed, lost |-> FALSE, hit |-> 0, told |-> FALSE,
            raced |-> FALSE]

Init ==
  /\ rec \in [Pages -> {{"R", "X"}, {"R", "W", "X"}}]
  /\ host = rec
  /\ slots = [i \in Pages |-> "W" \in rec[i]]
  /\ registry = {} /\ translated = {}
  /\ cached = [t \in Threads |-> {}]
  /\ pageLock = None /\ inval = None /\ memLock = None
  /\ at = [t \in Threads |-> Running]
  /\ ops = 0
  /\ granted = {} /\ failedOpen = {} /\ overrun = {} /\ shut = {}

Is(t, where) == at[t].pc = where
Page(t) == at[t].page
Goto(t, where) == at' = [at EXCEPT ![t].pc = where]
Start(t, where, p) == at' = [at EXCEPT ![t] = [Running EXCEPT !.pc = where, !.page = p]]
Return(t) == at' = [at EXCEPT ![t] = Running]

-----------------------------------------------------------------------------
(* The snapshot of executable records.                                     *)

Exec(r) == {p \in Pages : "X" \in r[p]}

\* Entries are in ascending order: a page's entry is found by its rank.
Rank(r, p) == Cardinality({q \in Exec(r) : q <= p})

\* RebuildExecSnapshot writes the entries in use and leaves those beyond as they were.
Rebuilt(r) ==
  [i \in Pages |->
     IF \E p \in Exec(r) : Rank(r, p) = i
     THEN \E p \in Exec(r) : Rank(r, p) = i /\ "W" \in r[p]
     ELSE slots[i]]

\* FindExecutableMapping up to its generation check: the entry it has found.
Found(t) == Rank(rec, Page(t))

\* The rest of it: the entry is read again, whatever has been stored there since.
Answer(t) == slots[at[t].hit]

\* A page is without a permission, or a memory operation under way takes it away.
TakenFrom(p, f) ==
  \/ f \notin rec[p]
  \/ \E u \in Threads : Is(u, "publish") /\ Page(u) = p /\ f \notin at[u].flags

\* An operation of the window or an invalidation is about to give a page its protection.
Changing(p) == \E u \in Threads : at[u].pc \in {"publish", "unprotectRead", "open"} /\ Page(u) = p

-----------------------------------------------------------------------------
(* MarkGuestExecutableRange, called at the end of a compilation.           *)

Compiling == {t \in Threads : at[t].pc \in {"mark", "markRead", "markClose", "markRegister"}}

\* What the translator has for a thread: its own cache, then the shared buffers.
Known(t) == translated \cup cached[t]

\* The translator compiles from an executable page it has no translation of, and
\* keeps the translation in the code buffers and in the thread's cache.
Compile(t, p) ==
  /\ Is(t, "run") /\ inval = None
  /\ "X" \in rec[p] /\ p \notin Known(t)
  /\ translated' = translated \cup {p}
  /\ cached' = [cached EXCEPT ![t] = @ \cup {p}]
  /\ Start(t, "mark", p)
  /\ UNCHANGED <<memory, registry, locks, opened, shut>>

\* A thread takes over what another has compiled.
Lookup(t, p) ==
  /\ Is(t, "run") /\ inval = None
  /\ p \in translated \ cached[t]
  /\ cached' = [cached EXCEPT ![t] = @ \cup {p}]
  /\ UNCHANGED <<memory, registry, translated, locks, at, opened, shut>>

\* A registered page and a page without a mapping are passed over.
Skipped(p) == p \in registry \/ "X" \notin rec[p]

MarkSkip(t) ==
  /\ Is(t, "mark") /\ pageLock = None
  /\ Skipped(Page(t))
  /\ Return(t)
  /\ UNCHANGED <<memory, registry, code, locks, opened, shut>>

MarkFind(t) ==
  /\ Is(t, "mark") /\ pageLock = None
  /\ ~Skipped(Page(t))
  /\ pageLock' = t
  /\ at' = [at EXCEPT ![t].pc = "markRead", ![t].hit = Found(t), ![t].raced = memLock # None]
  /\ UNCHANGED <<memory, registry, code, inval, opened, shut>>

\* A page that is said not to be writable is left alone.
MarkRead(t) ==
  /\ Is(t, "markRead")
  /\ \/ /\ Answer(t)
        /\ Goto(t, "markClose")
        /\ UNCHANGED <<pageLock, overrun>>
     \/ /\ ~Answer(t)
        /\ Return(t)
        /\ pageLock' = None
        /\ overrun' = overrun \cup {p \in {Page(t)} : at[t].raced /\ "W" \in rec[p]}
  /\ UNCHANGED <<memory, registry, code, inval, granted, failedOpen, shut>>

\* mprotect(R|X); when it fails the page stays writable.
MarkClose(t) ==
  /\ Is(t, "markClose")
  /\ \/ /\ host' = [host EXCEPT ![Page(t)] = {"R", "X"}]
        /\ Goto(t, "markRegister")
        /\ granted' = granted \ {Page(t)}
        /\ overrun' = overrun \ {Page(t)}
        /\ shut' = shut \cup {p \in {Page(t)} : at[t].raced /\ TakenFrom(p, "X")}
        /\ UNCHANGED <<pageLock, failedOpen>>
     \/ /\ failedOpen' = failedOpen \cup {Page(t)}
        /\ pageLock' = None
        /\ Return(t)
        /\ UNCHANGED <<host, granted, overrun, shut>>
  /\ UNCHANGED <<rec, slots, memLock, ops, registry, code, inval>>

\* The page enters the registry.
MarkRegister(t) ==
  /\ Is(t, "markRegister")
  /\ registry' = registry \cup {Page(t)}
  /\ pageLock' = None
  /\ Return(t)
  /\ UNCHANGED <<memory, code, inval, opened, shut>>

-----------------------------------------------------------------------------
(* A write of the guest to a page it may write, which the host refuses.    *)

Fault(t, p) ==
  /\ Is(t, "run")
  /\ "W" \in rec[p] /\ "W" \notin host[p]
  /\ at' = [at EXCEPT ![t] = [Running EXCEPT !.pc = "fault", !.page = p,
                                             !.raced = p \in shut \/ Changing(p)]]
  /\ UNCHANGED <<memory, registry, code, locks, opened, shut>>

\* HandleSegv asks the registry whether the fault is one of ours; if it is
\* not, the crash report follows.
HandleSegv_Unlocked(t) ==
  /\ Is(t, "fault")
  /\ Goto(t, IF Page(t) \in registry THEN "drop" ELSE "crash")
  /\ UNCHANGED <<memory, registry, code, locks, opened, shut>>

HandleSegv(t) ==
  /\ Is(t, "fault") /\ pageLock = None
  /\ Goto(t, IF Page(t) \in registry THEN "drop" ELSE "crash")
  /\ UNCHANGED <<memory, registry, code, locks, opened, shut>>

-----------------------------------------------------------------------------
(* InvalidateGuestCodeRange: under the invalidation mutex the translations *)
(* go, from the code buffers and from the cache of the thread that calls,  *)
(* then UnprotectRange.  The caches of the others keep theirs.             *)

Drop(t, p) ==
  /\ translated' = translated \ {p}
  /\ cached' = [cached EXCEPT ![t] = @ \ {p}]
  /\ failedOpen' = failedOpen \ {p}

InvalidateGuestCodeRange_NotExclusive(t) ==
  /\ Is(t, "drop") /\ inval = None
  /\ inval' = t
  /\ Drop(t, Page(t))
  /\ Goto(t, "unprotect")
  /\ UNCHANGED <<memory, registry, pageLock, granted, overrun, shut>>

InvalidateGuestCodeRange_BuffersOnly(t) ==
  /\ Is(t, "drop") /\ inval = None /\ Compiling = {}
  /\ inval' = t
  /\ translated' = translated \ {Page(t)}
  /\ failedOpen' = failedOpen \ {Page(t)}
  /\ Goto(t, "unprotect")
  /\ UNCHANGED <<memory, registry, cached, pageLock, granted, overrun, shut>>

InvalidateGuestCodeRange(t) ==
  /\ Is(t, "drop") /\ inval = None /\ Compiling = {}
  /\ inval' = t
  /\ Drop(t, Page(t))
  /\ Goto(t, "unprotect")
  /\ UNCHANGED <<memory, registry, pageLock, granted, overrun, shut>>

\* UnprotectRange takes the page out of the registry; it is done with a page
\* that was not there and with one that is not executable any more.
Opens(p) == p \in registry /\ "X" \in rec[p]

\* Who has faulted on a page finds it unregistered by another thread.
Raced(p) ==
  [u \in Threads |-> IF Is(u, "fault") /\ Page(u) = p THEN [at[u] EXCEPT !.raced = TRUE] ELSE at[u]]

UnprotectSkip(t) ==
  /\ Is(t, "unprotect") /\ pageLock = None
  /\ ~Opens(Page(t))
  /\ registry' = registry \ {Page(t)}
  /\ inval' = None
  /\ at' = [Raced(Page(t)) EXCEPT ![t] = Running]
  /\ UNCHANGED <<memory, code, pageLock, opened, shut>>

UnprotectFind(t) ==
  /\ Is(t, "unprotect") /\ pageLock = None
  /\ Opens(Page(t))
  /\ registry' = registry \ {Page(t)}
  /\ pageLock' = t
  /\ at' = [Raced(Page(t)) EXCEPT ![t].pc = "unprotectRead", ![t].hit = Found(t),
                                  ![t].raced = memLock # None]
  /\ UNCHANGED <<memory, code, inval, opened, shut>>

UnprotectRead(t) ==
  /\ Is(t, "unprotectRead")
  /\ at' = [at EXCEPT ![t].pc = "open", ![t].hit = 0, ![t].told = Answer(t)]
  /\ UNCHANGED <<memory, registry, code, locks, opened, shut>>

\* The page gets what the lookup said the guest has asked for, unless mprotect fails.
UnprotectOpen(t) ==
  /\ Is(t, "open")
  /\ LET p == Page(t)
     IN  \/ /\ at[t].told
            /\ host' = [host EXCEPT ![p] = {"R", "W", "X"}]
            /\ overrun' = (overrun \ {p}) \cup {q \in {p} : at[t].raced /\ TakenFrom(q, "W")}
            /\ shut' = shut \ {p}
         \/ /\ ~at[t].told
            /\ host' = [host EXCEPT ![p] = {"R", "X"}]
            /\ overrun' = overrun \ {p}
            /\ shut' = shut \cup {q \in {p} : at[t].raced}
         \/ /\ shut' = shut \cup {p}
            /\ UNCHANGED <<host, overrun>>
  /\ pageLock' = None /\ inval' = None
  /\ Return(t)
  /\ UNCHANGED <<rec, slots, memLock, ops, registry, code, granted, failedOpen>>

-----------------------------------------------------------------------------
(* Map, Unmap and Protect.  Under m_mutex: collect the code that is lost,  *)
(* change the host's protection, then the records and the snapshot.  The   *)
(* notification comes when the lock is released.                           *)

\* MapMemory and UnmapMemory report every executable page, ProtectMemory only
\* one that it makes read-only.
Loses(kind, p, flags) == "X" \in rec[p] /\ (kind = "protect" => "W" \notin flags)

\* What each operation is asked for; the guest protects what it has mapped.
Asks(kind, p, flags) ==
  \/ kind = "map" /\ flags # Sealed
  \/ kind = "unmap" /\ flags = Sealed /\ rec[p] # Sealed
  \/ kind = "protect" /\ flags # Sealed /\ rec[p] # Sealed

\* The pages that become writable without a report.
Grants(p, flags, reported) == {q \in {p} : "W" \in flags /\ ~reported}

\* Whoever is between a lookup and what it is for has been overtaken.
Overtaken(r) ==
  IF r.pc \in {"markRead", "markClose", "unprotectRead", "open"} THEN [r EXCEPT !.raced = TRUE] ELSE r

ChangeMap(t, kind, p, flags) ==
  /\ Is(t, "run") /\ memLock = None /\ ops < MaxOps
  /\ Asks(kind, p, flags)
  /\ memLock' = t
  /\ ops' = ops + 1
  /\ host' = [host EXCEPT ![p] = flags]
  /\ granted' = granted \cup Grants(p, flags, Loses(kind, p, flags))
  /\ overrun' = overrun \ {p}
  /\ shut' = shut \ {p}
  /\ at' = [u \in Threads |->
              IF u = t THEN [Running EXCEPT !.pc = "publish", !.page = p, !.flags = flags,
                                            !.lost = Loses(kind, p, flags)]
              ELSE Overtaken(at[u])]
  /\ UNCHANGED <<rec, slots, registry, code, locks, failedOpen>>

\* The record and the snapshot, and what follows the release of the lock.
Publish(t) ==
  /\ Is(t, "publish")
  /\ rec' = [rec EXCEPT ![Page(t)] = at[t].flags]
  /\ slots' = Rebuilt(rec')
  /\ memLock' = None
  /\ granted' = granted \cup Grants(Page(t), at[t].flags, at[t].lost)
  /\ IF at[t].lost THEN Start(t, "drop", Page(t)) ELSE Return(t)
  /\ UNCHANGED <<host, ops, registry, code, locks, failedOpen, overrun, shut>>

-----------------------------------------------------------------------------
\* The guest computes, without a fault and within its translations.
Run(t) == Is(t, "run") /\ UNCHANGED vars

\* A fault that nobody claims ends the program with a crash report.
Crashed == \E t \in Threads : Is(t, "crash")

\* What a thread does in the host once it has left guest code.
HostStep(t) ==
  \/ MarkSkip(t) \/ MarkFind(t) \/ MarkRead(t) \/ MarkClose(t) \/ MarkRegister(t)
  \/ HandleSegv(t) \/ InvalidateGuestCodeRange(t)
  \/ UnprotectSkip(t) \/ UnprotectFind(t) \/ UnprotectRead(t) \/ UnprotectOpen(t)
  \/ Publish(t)

GuestStep(t) ==
  \/ Run(t)
  \/ \E p \in Pages : Compile(t, p) \/ Lookup(t, p) \/ Fault(t, p)
  \/ \E p \in Pages, kind \in {"map", "unmap", "protect"}, flags \in Flags : ChangeMap(t, kind, p, flags)

Next ==
  \/ ~Crashed /\ \E t \in Threads : HostStep(t) \/ GuestStep(t)
  \/ Crashed /\ UNCHANGED vars

Spec == Init /\ [][Next]_vars

-----------------------------------------------------------------------------
Places == {"run", "mark", "markRead", "markClose", "markRegister", "fault", "crash", "drop",
           "unprotect", "unprotectRead", "open", "publish"}

\* Every variable has its type, and the holder of a lock is where the lock is held.
TypeOK ==
  /\ rec \in [Pages -> Flags] /\ host \in [Pages -> Flags]
  /\ slots \in [Pages -> BOOLEAN]
  /\ registry \subseteq Pages /\ translated \subseteq Pages
  /\ pageLock \in Threads \cup {None}
  /\ inval \in Threads \cup {None}
  /\ memLock \in Threads \cup {None}
  /\ at \in [Threads -> [pc : Places, page : Pages, flags : Flags, lost : BOOLEAN,
                          hit : 0 .. NumPages, told : BOOLEAN, raced : BOOLEAN]]
  /\ ops \in 0 .. MaxOps
  /\ granted \subseteq Pages /\ failedOpen \subseteq Pages
  /\ overrun \subseteq Pages /\ shut \subseteq Pages
  /\ cached \in [Threads -> SUBSET Pages]

\* Pages whose loss is collected and not yet answered by an invalidation.
Reported == {Page(t) : t \in {u \in Threads : Is(u, "drop") \/ (Is(u, "publish") /\ at[u].lost)}}
BeingMarked == {Page(t) : t \in Compiling}

\* What excuses an open page for a while, or since something failed or was overtaken.
Unprotected == granted \cup BeingMarked \cup Reported \cup failedOpen \cup overrun

\* Translated code is write-protected, and what an invalidation drops its thread
\* is rid of.  A page the code buffers hold translations of, and which the host
\* lets the guest write, is still being marked; or waits for the invalidation that
\* an operation has asked for; or was given the permission by an operation that
\* reported nothing; or its mark ended with a failed mprotect; or a mark left it
\* open, or an invalidation opened it, on an answer about the mapping that a memory
\* operation had overtaken.  And while a thread opens a page again, neither the
\* buffers nor its own cache has a translation of it; the caches of the others may
\* keep theirs (MarkGuestExecutableRange, InvalidateGuestCodeRange, UnprotectRange
\* and the notifications of memory.cpp).
TranslatedIsClosed ==
  /\ TypeOK
  /\ \A p \in translated : "W" \in host[p] => p \in Unprotected
  /\ \A t \in Threads : at[t].pc \in {"unprotect", "unprotectRead", "open"} => Page(t) \notin Known(t)

\* The registry holds pages with translations only, but for the moment between
\* the two halves of an invalidation: a page left behind would be passed over
\* by the next mark and stay writable under its translations.
RegisteredIsTranslated ==
  \A p \in registry \ translated : \E t \in Threads : inval = t /\ Is(t, "unprotect") /\ Page(t) = p

\* Who has to wait for a mutex.
Waits(t) ==
  \/ at[t].pc \in {"mark", "fault", "unprotect"} /\ pageLock # None
  \/ Is(t, "drop") /\ (inval # None \/ Compiling # {})

\* A write that the guest's own protection allows is resumed, unless it raced: the
\* handler does not take the fault for a genuine one, but where another thread was
\* changing the page or has unregistered it since, or where an invalidation or a mark
\* had left the page closed without an entry; and whoever waits for the registry's
\* lock or the invalidation mutex waits for a thread that goes on, so that no handler
\* is part of a deadlock (HandleSegv, InvalidateGuestCodeRange, UnprotectRange).
FaultsAreResumed ==
  \A t \in Threads :
    /\ Is(t, "crash") => at[t].raced
    /\ Waits(t) => \E u \in Threads : ~Is(u, "run") /\ ~Waits(u)

=============================================================================
