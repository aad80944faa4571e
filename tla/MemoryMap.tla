----------------------------- MODULE MemoryMap -----------------------------
(***************************************************************************)
(* MemoryManager (memory/memory.cpp): the records of the guest window,     *)
(* their byte count, the program break, the protection the host applies    *)
(* and the snapshot of executable ranges that fault handlers read.         *)
(*                                                                         *)
(* Every operation runs under m_mutex, so it is one step.  An address is a *)
(* number; a page has PageSize addresses, so that unaligned requests are   *)
(* rounded as the code rounds them.  Sizes are exact numbers: the code     *)
(* subtracts before it adds, so nothing it computes wraps.                 *)
(***************************************************************************)
EXTENDS Integers, FiniteSets, FiniteSetsExt

CONSTANTS
  PageSize,   \* addresses per host page
  Base,       \* m_guestBase
  Limit,      \* m_guestBase + m_windowSize
  Sizes,      \* the sizes calls ask for
  Breaks,     \* the breaks the loader and the guest ask for
  FlagSets,   \* the protections the guest asks for
  Tags,       \* the tags of mappings other than the break's
  BrkTag,     \* kBrkTag
  Cap,        \* kExecSnapshotCap
  Nothing     \* no record

ASSUME MemoryConstants ==
  /\ PageSize \in Nat \ {0}
  /\ Base \in Nat \ {0} /\ Limit \in Nat /\ Base < Limit
  /\ Base % PageSize = 0 /\ Limit % PageSize = 0
  /\ Sizes \subseteq Nat /\ Breaks \subseteq Nat
  /\ FlagSets \subseteq SUBSET {"r", "w", "x"}
  /\ BrkTag \notin Tags
  /\ Cap \in Nat \ {0}
  /\ Nothing \notin [flags : SUBSET {"r", "w", "x"}, tag : Tags \cup {BrkTag}]

VARIABLES
  initialized,     \* m_initialized
  blocks,          \* m_allocations, a set of records
  allocatedBytes,  \* m_allocatedBytes
  programBreak,    \* m_programBreak
  prot,            \* what mprotect gave every page of the window
  snapshot,        \* m_execRanges
  notified,        \* the pages the last call passed to the notify callback
  asked            \* what the last call was and the pages it named

vars == <<initialized, blocks, allocatedBytes, programBreak, prot, snapshot, notified, asked>>

-----------------------------------------------------------------------------
(* Addresses and records.                                                  *)

Addresses == 0 .. Limit + PageSize
Pages == {a \in Base .. Limit - 1 : a % PageSize = 0}

Down(a) == (a \div PageSize) * PageSize
Up(a) == Down(a + PageSize - 1)

\* RangeInWindow: subtract instead of add.
InWindow(va, size) == Base <= va /\ va < Limit /\ size <= Limit - va

PagesOf(lo, hi) == {p \in Pages : lo <= p /\ p < hi}

\* MemoryFlags::HostReadableExec.
HostFlags(flags) == IF "x" \in flags THEN flags \cup {"r"} ELSE flags

Overlaps(b, lo, hi) == lo < hi /\ b.lo < hi /\ lo < b.hi

Greater(a, b) == IF a > b THEN a ELSE b
Lesser(a, b) == IF a < b THEN a ELSE b

\* What of a record lies inside [lo, hi).
Clamp(b, lo, hi) == [b EXCEPT !.lo = Greater(b.lo, lo), !.hi = Lesser(b.hi, hi)]

Hit(lo, hi) == {b \in blocks : Overlaps(b, lo, hi)}

\* SplitBlocksAt_Unlocked: the pieces inside [lo, hi) and those outside.
Inside(lo, hi) == {Clamp(b, lo, hi) : b \in Hit(lo, hi)}

Heads(lo, hi) == {[b EXCEPT !.hi = lo] : b \in {c \in Hit(lo, hi) : c.lo < lo}}
Tails(lo, hi) == {[b EXCEPT !.lo = hi] : b \in {c \in Hit(lo, hi) : hi < c.hi}}

Outside(lo, hi) == (blocks \ Hit(lo, hi)) \cup Heads(lo, hi) \cup Tails(lo, hi)

Length(b) == b.hi - b.lo
Bytes(B) == MapThenSumSet(Length, B)

ExecOverlaps_ByStart(lo, hi) ==
  UNION {PagesOf(b.lo, Lesser(b.hi, hi)) : b \in {c \in blocks : lo <= c.lo /\ c.lo < hi /\ "x" \in c.flags}}

\* CollectExecOverlaps_Unlocked, as pages.
ExecOverlaps(lo, hi) ==
  UNION {PagesOf(b.lo, b.hi) : b \in {c \in Inside(lo, hi) : "x" \in c.flags}}

Writable(b) == "w" \in b.flags

ExecBlocks(B) == {b \in B : "x" \in b.flags}

\* RebuildExecSnapshot_Unlocked: the first Cap executable records by address.
Rebuilt(B) ==
  LET first == {b \in ExecBlocks(B) : Cardinality({c \in ExecBlocks(B) : c.lo < b.lo}) < Cap}
  IN  {[lo |-> b.lo, hi |-> b.hi, writable |-> Writable(b)] : b \in first}

\* mprotect over [lo, hi).
Protected(lo, hi, flags) ==
  [p \in Pages |-> IF p \in PagesOf(lo, hi) THEN flags ELSE prot[p]]

\* A call names the pages of a range.
Ask(op, lo, hi) == asked' = [op |-> op, pages |-> PagesOf(lo, hi)]

\* A call that names no pages reports none.
AskNothing == asked' = [op |-> "none", pages |-> {}] /\ notified' = {}

Init ==
  /\ initialized = TRUE
  /\ blocks = {}
  /\ allocatedBytes = 0
  /\ programBreak = 0
  /\ prot = [p \in Pages |-> {}]
  /\ snapshot = {}
  /\ notified = {}
  /\ asked = [op |-> "none", pages |-> {}]

-----------------------------------------------------------------------------
(* The operations.                                                         *)

\* A call that is refused, or whose first mprotect fails.
Refused ==
  /\ AskNothing
  /\ UNCHANGED <<initialized, blocks, allocatedBytes, programBreak, prot, snapshot>>

MapPages_RebuildsEarly(lo, hi, flags, tag) ==
  /\ notified' = ExecOverlaps(lo, hi)
  /\ prot' = Protected(lo, hi, HostFlags(flags))
  /\ blocks' = Outside(lo, hi) \cup {[lo |-> lo, hi |-> hi, flags |-> HostFlags(flags), tag |-> tag]}
  /\ allocatedBytes' = allocatedBytes - Bytes(Inside(lo, hi)) + (hi - lo)
  /\ snapshot' = Rebuilt(blocks)

\* MapMemoryImpl_Unlocked, once the request is known to fit.
MapPages(lo, hi, flags, tag) ==
  /\ notified' = ExecOverlaps(lo, hi)
  /\ prot' = Protected(lo, hi, HostFlags(flags))
  /\ blocks' = Outside(lo, hi) \cup {[lo |-> lo, hi |-> hi, flags |-> HostFlags(flags), tag |-> tag]}
  /\ allocatedBytes' = allocatedBytes - Bytes(Inside(lo, hi)) + (hi - lo)
  /\ snapshot' = Rebuilt(blocks')

MapMemory(va, size, flags, tag) ==
  /\ initialized /\ va # 0 /\ size # 0 /\ InWindow(va, size)
  /\ MapPages(Down(va), Up(va + size), flags, tag)
  /\ Ask("map", Down(va), Up(va + size))
  /\ UNCHANGED <<initialized, programBreak>>

\* UnmapMemory up to `hi', where it ends or where an mprotect failed.
Unmapped(lo, hi) ==
  /\ blocks' = Outside(lo, hi)
  /\ allocatedBytes' = allocatedBytes - Bytes(Inside(lo, hi))
  /\ prot' = [p \in Pages |-> IF \E b \in Inside(lo, hi) : p \in PagesOf(b.lo, b.hi)
                              THEN {} ELSE prot[p]]

UnmapMemory(va, size) ==
  /\ initialized /\ size # 0 /\ InWindow(va, size)
  /\ Unmapped(Down(va), Up(va + size))
  /\ notified' = ExecOverlaps(Down(va), Up(va + size))
  /\ Ask("unmap", Down(va), Up(va + size))
  /\ snapshot' = IF Inside(Down(va), Up(va + size)) = {} THEN snapshot ELSE Rebuilt(blocks')
  /\ UNCHANGED <<initialized, programBreak>>

\* The mprotect of some record fails: the records before it are gone, and the
\* call returns without a snapshot and without a notification.
UnmapFails(va, size) ==
  /\ initialized /\ size # 0 /\ InWindow(va, size)
  /\ \E b \in Inside(Down(va), Up(va + size)) : Unmapped(Down(va), b.lo)
  /\ notified' = {}
  /\ Ask("failed", Down(va), Up(va + size))
  /\ UNCHANGED <<initialized, programBreak, snapshot>>

ProtectMemory_PaintsRecords(va, size, flags) ==
  LET lo == Down(va)
      hi == Up(va + Greater(size, 1)) IN
  /\ initialized /\ InWindow(va, Greater(size, 1))
  /\ notified' = IF "w" \in flags THEN {} ELSE ExecOverlaps(lo, hi)
  /\ Ask("protect", lo, hi)
  /\ prot' = Protected(lo, hi, HostFlags(flags))
  /\ blocks' = (blocks \ Hit(lo, hi)) \cup {[b EXCEPT !.flags = flags] : b \in Hit(lo, hi)}
  /\ snapshot' = Rebuilt(blocks')
  /\ UNCHANGED <<initialized, allocatedBytes, programBreak>>

\* The range may have holes; mprotect opens them and no record says so.  The
\* records keep the flags that were asked for, not those that were applied.
ProtectMemory(va, size, flags) ==
  LET lo == Down(va)
      hi == Up(va + Greater(size, 1)) IN
  /\ initialized /\ InWindow(va, Greater(size, 1))
  /\ notified' = IF "w" \in flags THEN {} ELSE ExecOverlaps(lo, hi)
  /\ Ask("protect", lo, hi)
  /\ prot' = Protected(lo, hi, HostFlags(flags))
  /\ blocks' = Outside(lo, hi) \cup {[b EXCEPT !.flags = flags] : b \in Inside(lo, hi)}
  /\ snapshot' = Rebuilt(blocks')
  /\ UNCHANGED <<initialized, allocatedBytes, programBreak>>

-----------------------------------------------------------------------------
(* The program break.                                                      *)

\* The loader places the break after the segments.  After a Shutdown m_guestBase
\* is 0 and m_programBreakLimit is not.
SetProgramBreak(a) ==
  /\ initialized => Base <= a
  /\ a < Limit
  /\ programBreak' = a
  /\ AskNothing
  /\ UNCHANGED <<initialized, blocks, allocatedBytes, prot, snapshot>>

BrkPages_AnyTag(from) ==
  {p \in PagesOf(from, Limit) :
     \A q \in PagesOf(from, p + 1) : \E b \in blocks : b.lo <= q /\ q < b.hi}

\* The pages from `from' on that the break has mapped, up to the first hole
\* or foreign record.
BrkPages(from) ==
  {p \in PagesOf(from, Limit) :
     \A q \in PagesOf(from, p + 1) : \E b \in blocks : b.lo <= q /\ q < b.hi /\ b.tag = BrkTag}

IsBrkEnd(from, end) == end % PageSize = 0 /\ PagesOf(from, end) = BrkPages(from)

BrkAllowed(a) ==
  initialized /\ programBreak # 0 /\ a # 0 /\ Base <= Up(a) /\ Up(a) < Limit

BrkGrow(a) ==
  /\ BrkAllowed(a) /\ Up(a) > Up(programBreak)
  /\ MapPages(Up(programBreak), Up(a), {"r", "w"}, BrkTag)
  /\ Ask("grow", Up(programBreak), Up(a))
  /\ programBreak' = a
  /\ UNCHANGED initialized

\* A shrink neither rebuilds the snapshot nor notifies.
BrkShrink(a) ==
  /\ BrkAllowed(a) /\ Up(a) < Up(programBreak)
  /\ \E end \in Up(a) .. Limit : IsBrkEnd(Up(a), end) /\ Unmapped(Up(a), end)
  /\ programBreak' = a
  /\ notified' = {}
  /\ Ask("shrink", Up(a), Limit)
  /\ UNCHANGED <<initialized, snapshot>>

BrkShrinkFails(a) ==
  /\ BrkAllowed(a) /\ Up(a) < Up(programBreak)
  /\ \E end \in Up(a) .. Limit : \E b \in Inside(Up(a), end) :
       IsBrkEnd(Up(a), end) /\ Unmapped(Up(a), b.lo)
  /\ notified' = {}
  /\ Ask("shrink", Up(a), Limit)
  /\ UNCHANGED <<initialized, programBreak, snapshot>>

BrkStays(a) ==
  /\ BrkAllowed(a) /\ Up(a) = Up(programBreak)
  /\ programBreak' = a
  /\ AskNothing
  /\ UNCHANGED <<initialized, blocks, allocatedBytes, prot, snapshot>>

-----------------------------------------------------------------------------
(* The window.                                                             *)

\* The break is left as it was.
Shutdown ==
  /\ initialized
  /\ initialized' = FALSE
  /\ blocks' = {} /\ allocatedBytes' = 0 /\ snapshot' = {} /\ AskNothing
  /\ prot' = [p \in Pages |-> {}]
  /\ UNCHANGED programBreak

Initialize ==
  /\ ~initialized
  /\ initialized' = TRUE
  /\ programBreak' = 0
  /\ allocatedBytes' = 0 /\ snapshot' = Rebuilt(blocks) /\ AskNothing
  /\ UNCHANGED <<blocks, prot>>

Next ==
  \/ \E va \in Addresses, size \in Sizes :
       \/ \E flags \in FlagSets :
            (\E tag \in Tags : MapMemory(va, size, flags, tag)) \/ ProtectMemory(va, size, flags)
       \/ UnmapMemory(va, size) \/ UnmapFails(va, size)
  \/ \E a \in Breaks :
       SetProgramBreak(a) \/ BrkGrow(a) \/ BrkShrink(a) \/ BrkShrinkFails(a) \/ BrkStays(a)
  \/ Refused \/ Shutdown \/ Initialize

Spec == Init /\ [][Next]_vars

-----------------------------------------------------------------------------
(* Properties.                                                             *)

Records == [lo : Pages, hi : Base + 1 .. Limit, flags : FlagSets \cup {HostFlags(f) : f \in FlagSets}
                                                        \cup {{"r", "w"}},
            tag : Tags \cup {BrkTag}]

\* The type of every variable: a record is not empty and ends on a page.
TypeOK ==
  /\ initialized \in BOOLEAN
  /\ blocks \subseteq Records
  /\ \A b \in blocks : b.lo < b.hi /\ b.hi % PageSize = 0
  /\ allocatedBytes \in Nat
  /\ programBreak \in Breaks \cup {0}
  /\ prot \in [Pages -> SUBSET {"r", "w", "x"}]
  /\ \A e \in snapshot : e.lo \in Pages /\ e.lo < e.hi /\ e.writable \in BOOLEAN
  /\ notified \subseteq Pages
  /\ asked.pages \subseteq Pages

\* Records never overlap (memory.h:307-308), whatever the calls cut.
RecordsDisjoint ==
  \A b, c \in blocks : b # c => b.hi <= c.lo \/ c.hi <= b.lo

\* The byte count is the size of the records, also after calls that failed
\* half way.
BytesCounted == allocatedBytes = Bytes(blocks)

Record(p) == {b \in blocks : b.lo <= p /\ p < b.hi}

\* Where a record says so the host protects the page as the guest asked,
\* readable if it is executable.
RecordsApplied ==
  \A p \in Pages : \A b \in Record(p) : prot[p] = HostFlags(b.flags)

\* The books agree with one another and with the host, whatever was cut and
\* whichever call failed half way.
RecordsAgree == TypeOK /\ RecordsDisjoint /\ BytesCounted /\ RecordsApplied

\* FindExecutableMapping: the greatest snapshot entry at or below a page.
Found(p) ==
  {e \in snapshot : e.lo <= p /\ p < e.hi /\ \A f \in snapshot : f.lo <= p => f.lo <= e.lo}

\* A map, an unmap, a protection or a higher break that changes records and
\* succeeds publishes a snapshot in which a fault handler finds every executable
\* page, and no other, with the writability its record has, as long as the
\* snapshot has room for all of them (memory.h:330-336).  A lower break that
\* succeeds publishes none (memory.cpp:723), and is left out.
Published ==
  Cardinality(ExecBlocks(blocks)) <= Cap =>
    \A p \in Pages :
      {e.writable : e \in Found(p)} = {Writable(b) : b \in ExecBlocks(Record(p))}

SnapshotIsPublished ==
  [][asked'.op \in {"map", "grow", "protect", "unmap"} /\ blocks' # blocks => Published']_vars

ExecPages == UNION {PagesOf(b.lo, b.hi) : b \in ExecBlocks(blocks)}

\* What the code changes without a report, against the contract: an unmap that
\* fails half way (memory.cpp:374-378), a lower break (memory.cpp:723), a
\* protection that adds the W bit or leaves it as it was (memory.cpp:434), and the
\* end of the window.
Unreported(p) ==
  \/ asked'.op \in {"failed", "shrink"}
  \/ asked'.op = "protect" /\ ("w" \in prot[p] => "w" \in prot'[p])
  \/ ~initialized'

\* Executable pages that a call names, or whose protection it changes, are reported
\* to the translator (the contract of memory.h:53-66), but for the changes above.
LostCodeIsReported ==
  [][\A p \in ExecPages :
       p \in asked'.pages \/ prot'[p] # prot[p] => p \in notified' \/ Unreported(p)]_vars

\* The table the guest is promised.
TableView ==
  [p \in Pages |-> IF Record(p) = {} THEN Nothing
                   ELSE LET b == CHOOSE c \in Record(p) : TRUE
                        IN  [flags |-> HostFlags(b.flags), tag |-> b.tag]]

Table == INSTANCE PageTable WITH
  FlagSets <- {HostFlags(f) : f \in FlagSets \cup {{"r", "w"}}}, table <- TableView

\* Splitting, replacing and releasing records amounts to changing the entries
\* of the pages a call names, and of no others.
ImplementsPageTable == Table!Spec
=============================================================================
