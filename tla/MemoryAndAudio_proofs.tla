-------------------------- MODULE MemoryAndAudio_proofs --------------------------
(***************************************************************************)
(* Proofs about MemoryMap, for any window, page size, sequence of calls    *)
(* and snapshot size, and, from the section "Audio output ports" on, about *)
(* AudioOut, for any number of ports, threads, lengths and bounds.         *)
(*                                                                         *)
(* The two modules share neither state nor operators; their theorems share *)
(* a module only to keep the number of proof modules small, and AudioOut   *)
(* prefixes the names it would have in common with MemoryMap.              *)
(*                                                                         *)
(* Memory: every operation replaces what lies in a range [lo, hi) by new   *)
(* records inside that range: none, one, or the old ones with other flags. *)
(* The section on cutting shows what this does to disjointness and to the  *)
(* pages inside and outside; the operations follow from it.  The last      *)
(* sections about memory count: the fold of the lengths is the number of   *)
(* addresses the records hold, since an explicit function satisfies its    *)
(* recursion and only one does, and what a call does to that number        *)
(* follows from the same cuts.                                             *)
(***************************************************************************)
EXTENDS MemoryMap, AudioOut, FiniteSetTheorems, WellFoundedInduction, TLAPS

Flags == FlagSets \cup {HostFlags(f) : f \in FlagSets} \cup {{"r", "w"}}

Rec == [lo : Int, hi : Int, flags : Flags, tag : Tags \cup {BrkTag}]

\* A set of records, none of them empty.
Proper(B) == B \subseteq Rec /\ \A b \in B : b.lo < b.hi

Apart(b, c) == b.hi <= c.lo \/ c.hi <= b.lo

\* What is left of a record below and above a cut.
Below(b, x) == [b EXCEPT !.hi = x]
Above(b, x) == [b EXCEPT !.lo = x]

Holds(b, p) == b.lo <= p /\ p < b.hi

\* Records for [lo, hi), which do not overlap.
Fill(N, lo, hi) ==
  /\ N \subseteq Rec /\ IsFiniteSet(N)
  /\ \A n \in N : lo <= n.lo /\ n.lo < n.hi /\ n.hi <= hi
  /\ \A m, n \in N : m # n => Apart(m, n)

\* What every operation that changes records does.
Replaces(N, lo, hi) ==
  /\ lo \in Int /\ hi \in Int /\ Fill(N, lo, hi)
  /\ blocks' = Outside(lo, hi) \cup N
  /\ \A p \in Pages : ~(lo <= p /\ p < hi) => prot'[p] = prot[p]
  /\ \A n \in N, p \in Pages : Holds(n, p) => prot'[p] = HostFlags(n.flags)

IInv ==
  /\ Proper(blocks) /\ IsFiniteSet(blocks)
  /\ programBreak \in Int
  /\ RecordsDisjoint
  /\ RecordsApplied

-----------------------------------------------------------------------------
(* Numbers and records.                                                    *)

\* RoundDown64.
LEMMA DownFacts ==
  ASSUME NEW a \in Int
  PROVE  Down(a) \in Int /\ Down(a) <= a /\ a < Down(a) + PageSize
BY MemoryConstants DEF Down

\* RoundUp64.
LEMMA UpFacts ==
  ASSUME NEW a \in Int
  PROVE  Up(a) \in Int /\ a <= Up(a)
<1>1. Down(a + PageSize - 1) \in Int /\ a + PageSize - 1 < Down(a + PageSize - 1) + PageSize
  BY DownFacts, MemoryConstants
<1> QED
  BY <1>1, MemoryConstants DEF Up

\* Pages are numbers.
LEMMA PageFacts ==
  /\ Pages \subseteq Int
  /\ \A lo, hi : PagesOf(lo, hi) \subseteq Pages
  /\ \A lo, hi, p : p \in PagesOf(lo, hi) <=> p \in Pages /\ lo <= p /\ p < hi
BY MemoryConstants DEF Pages, PagesOf

\* Flags are sets of permissions, and applying them twice is applying them once.
LEMMA FlagFacts ==
  /\ \A f \in Flags : f \subseteq {"r", "w", "x"}
  /\ \A f \in Flags : HostFlags(f) \in Flags
  /\ \A f : HostFlags(HostFlags(f)) = HostFlags(f)
  /\ \A f : f \subseteq HostFlags(f)
<1>1. \A f : HostFlags(HostFlags(f)) = HostFlags(f) /\ f \subseteq HostFlags(f)
  BY DEF HostFlags
<1>2. \A f \in FlagSets : f \subseteq {"r", "w", "x"}
  BY MemoryConstants
<1>3. \A f \in FlagSets : HostFlags(f) \subseteq {"r", "w", "x"}
  BY <1>2 DEF HostFlags
<1>4. HostFlags({"r", "w"}) = {"r", "w"}
  BY DEF HostFlags
<1>5. \A f \in Flags : f \subseteq {"r", "w", "x"}
  BY <1>2, <1>3 DEF Flags
<1>6. \A f \in Flags : HostFlags(f) \in Flags
  BY <1>1, <1>4 DEF Flags
<1> QED
  BY <1>1, <1>5, <1>6

\* Fields of a record.
LEMMA Fields ==
  ASSUME NEW b \in Rec
  PROVE  b.lo \in Int /\ b.hi \in Int /\ b.flags \in Flags /\ b.tag \in Tags \cup {BrkTag}
BY DEF Rec

\* What Clamp does to the fields of a record.
LEMMA Clamped ==
  ASSUME NEW b \in Rec, NEW lo \in Int, NEW hi \in Int
  PROVE  /\ Greater(b.lo, lo) \in Int /\ Lesser(b.hi, hi) \in Int
         /\ Clamp(b, lo, hi) \in Rec
         /\ Clamp(b, lo, hi).lo = Greater(b.lo, lo) /\ Clamp(b, lo, hi).hi = Lesser(b.hi, hi)
         /\ Clamp(b, lo, hi).flags = b.flags /\ Clamp(b, lo, hi).tag = b.tag
<1>1. Greater(b.lo, lo) \in Int /\ Lesser(b.hi, hi) \in Int
  BY Fields DEF Greater, Lesser
<1> QED
  BY <1>1 DEF Clamp, Rec

\* A record with another start.
LEMMA Started ==
  ASSUME NEW b \in Rec, NEW x \in Int
  PROVE  /\ Above(b, x) \in Rec /\ Above(b, x).lo = x /\ Above(b, x).hi = b.hi
         /\ Above(b, x).flags = b.flags /\ Above(b, x).tag = b.tag
BY DEF Rec, Above

\* A record with another end.
LEMMA Ended ==
  ASSUME NEW b \in Rec, NEW x \in Int
  PROVE  /\ Below(b, x) \in Rec /\ Below(b, x).lo = b.lo /\ Below(b, x).hi = x
         /\ Below(b, x).flags = b.flags /\ Below(b, x).tag = b.tag
BY DEF Rec, Below

\* A record with other flags.
LEMMA Painted ==
  ASSUME NEW b \in Rec, NEW f \in Flags
  PROVE  /\ [b EXCEPT !.flags = f] \in Rec
         /\ [b EXCEPT !.flags = f].lo = b.lo /\ [b EXCEPT !.flags = f].hi = b.hi
         /\ [b EXCEPT !.flags = f].flags = f /\ [b EXCEPT !.flags = f].tag = b.tag
BY DEF Rec

-----------------------------------------------------------------------------
(* Cutting (SplitBlocksAt_Unlocked).                                       *)

\* A piece of a record inside the range.
LEMMA InsideFacts ==
  ASSUME Proper(blocks), NEW lo \in Int, NEW hi \in Int, NEW d \in Inside(lo, hi)
  PROVE  /\ d \in Rec /\ lo <= d.lo /\ d.lo < d.hi /\ d.hi <= hi
         /\ \E c \in blocks : /\ c.lo <= d.lo /\ d.hi <= c.hi
                              /\ d.flags = c.flags /\ d.tag = c.tag
                              /\ d = Clamp(c, lo, hi)
<1>1. PICK c \in blocks : Overlaps(c, lo, hi) /\ d = Clamp(c, lo, hi)
  BY DEF Inside, Hit
<1>2. c \in Rec /\ c.lo < c.hi /\ c.lo \in Int /\ c.hi \in Int
  BY Fields DEF Proper
<1>3. lo < hi /\ c.lo < hi /\ lo < c.hi
  BY <1>1 DEF Overlaps
<1>4. /\ Greater(c.lo, lo) \in Int /\ Lesser(c.hi, hi) \in Int
      /\ lo <= Greater(c.lo, lo) /\ c.lo <= Greater(c.lo, lo)
      /\ Lesser(c.hi, hi) <= hi /\ Lesser(c.hi, hi) <= c.hi
      /\ Greater(c.lo, lo) < Lesser(c.hi, hi)
  BY <1>2, <1>3 DEF Greater, Lesser
<1>5. /\ d \in Rec /\ d.lo = Greater(c.lo, lo) /\ d.hi = Lesser(c.hi, hi)
      /\ d.flags = c.flags /\ d.tag = c.tag
  BY <1>1, <1>2, Clamped
<1> QED
  BY <1>1, <1>4, <1>5

\* Nothing inside the range is missed.
LEMMA InsideCovers ==
  ASSUME Proper(blocks), NEW lo \in Int, NEW hi \in Int, NEW c \in blocks, NEW p \in Int,
         Holds(c, p), lo <= p, p < hi
  PROVE  \E d \in Inside(lo, hi) : Holds(d, p) /\ d.flags = c.flags /\ d.tag = c.tag
<1>1. c \in Rec /\ c.lo \in Int /\ c.hi \in Int
  BY Fields DEF Proper
<1>2. Overlaps(c, lo, hi)
  BY <1>1 DEF Overlaps, Holds
<1>3. Clamp(c, lo, hi) \in Inside(lo, hi)
  BY <1>2 DEF Inside, Hit
<1>4. /\ Greater(c.lo, lo) \in Int /\ Lesser(c.hi, hi) \in Int
      /\ Greater(c.lo, lo) <= p /\ p < Lesser(c.hi, hi)
  BY <1>1 DEF Greater, Lesser, Holds
<1>5. /\ Clamp(c, lo, hi).lo = Greater(c.lo, lo) /\ Clamp(c, lo, hi).hi = Lesser(c.hi, hi)
      /\ Clamp(c, lo, hi).flags = c.flags /\ Clamp(c, lo, hi).tag = c.tag
  BY <1>1, Clamped
<1> QED
  BY <1>3, <1>4, <1>5 DEF Holds

\* Where a piece outside the range comes from.
LEMMA OutsideKinds ==
  ASSUME NEW lo, NEW hi, NEW d \in Outside(lo, hi)
  PROVE  \E c \in blocks :
           \/ d = c /\ ~Overlaps(c, lo, hi)
           \/ d = Below(c, lo) /\ Overlaps(c, lo, hi) /\ c.lo < lo
           \/ d = Above(c, hi) /\ Overlaps(c, lo, hi) /\ hi < c.hi
BY DEF Outside, Hit, Heads, Tails, Below, Above

\* A piece outside the range.
LEMMA OutsidePiece ==
  ASSUME Proper(blocks), NEW lo \in Int, NEW hi \in Int, NEW d \in Outside(lo, hi)
  PROVE  /\ d \in Rec /\ d.lo < d.hi
         /\ lo < hi => d.hi <= lo \/ hi <= d.lo
         /\ \E c \in blocks :
              /\ c.lo <= d.lo /\ d.hi <= c.hi
              /\ d.flags = c.flags /\ d.tag = c.tag
              /\ \/ d = c /\ ~Overlaps(c, lo, hi)
                 \/ d = Below(c, lo) /\ Overlaps(c, lo, hi) /\ d.hi = lo /\ lo < hi
                 \/ d = Above(c, hi) /\ Overlaps(c, lo, hi) /\ d.lo = hi /\ lo < hi
<1>1. PICK c \in blocks :
           \/ d = c /\ ~Overlaps(c, lo, hi)
           \/ d = Below(c, lo) /\ Overlaps(c, lo, hi) /\ c.lo < lo
           \/ d = Above(c, hi) /\ Overlaps(c, lo, hi) /\ hi < c.hi
  BY OutsideKinds
<1>2. c \in Rec /\ c.lo < c.hi /\ c.lo \in Int /\ c.hi \in Int
  BY Fields DEF Proper
<1>3. CASE d = c /\ ~Overlaps(c, lo, hi)
  BY <1>2, <1>3 DEF Overlaps
<1>4. CASE d = Below(c, lo) /\ Overlaps(c, lo, hi) /\ c.lo < lo
  <2>1. d \in Rec /\ d.lo = c.lo /\ d.hi = lo /\ d.flags = c.flags /\ d.tag = c.tag
    BY <1>2, <1>4, Ended
  <2>2. lo < hi /\ c.lo < hi /\ lo < c.hi
    BY <1>4 DEF Overlaps
  <2> QED
    BY <1>2, <1>4, <2>1, <2>2
<1>5. CASE d = Above(c, hi) /\ Overlaps(c, lo, hi) /\ hi < c.hi
  <2>1. d \in Rec /\ d.lo = hi /\ d.hi = c.hi /\ d.flags = c.flags /\ d.tag = c.tag
    BY <1>2, <1>5, Started
  <2>2. lo < hi /\ c.lo < hi /\ lo < c.hi
    BY <1>5 DEF Overlaps
  <2> QED
    BY <1>2, <1>5, <2>1, <2>2
<1> QED
  BY <1>1, <1>3, <1>4, <1>5

\* Nothing outside the range is lost.
LEMMA OutsideCovers ==
  ASSUME Proper(blocks), NEW lo \in Int, NEW hi \in Int, NEW c \in blocks, NEW p \in Int,
         Holds(c, p), ~(lo <= p /\ p < hi)
  PROVE  \E d \in Outside(lo, hi) : Holds(d, p) /\ d.flags = c.flags /\ d.tag = c.tag
<1>1. c \in Rec /\ c.lo \in Int /\ c.hi \in Int
  BY Fields DEF Proper
<1>2. CASE ~Overlaps(c, lo, hi)
  BY <1>2 DEF Outside, Hit
<1>3. CASE Overlaps(c, lo, hi) /\ p < lo
  <2>1. c.lo < lo
    BY <1>1, <1>3 DEF Holds
  <2>2. Below(c, lo) \in Outside(lo, hi)
    BY <1>3, <2>1 DEF Outside, Heads, Hit, Below
  <2>3. /\ Below(c, lo).lo = c.lo /\ Below(c, lo).hi = lo
        /\ Below(c, lo).flags = c.flags /\ Below(c, lo).tag = c.tag
    BY <1>1, Ended
  <2> QED
    BY <1>3, <2>2, <2>3 DEF Holds
<1>4. CASE Overlaps(c, lo, hi) /\ hi <= p
  <2>1. hi < c.hi
    BY <1>1, <1>4 DEF Holds
  <2>2. Above(c, hi) \in Outside(lo, hi)
    BY <1>4, <2>1 DEF Outside, Tails, Hit, Above
  <2>3. /\ Above(c, hi).lo = hi /\ Above(c, hi).hi = c.hi
        /\ Above(c, hi).flags = c.flags /\ Above(c, hi).tag = c.tag
    BY <1>1, Started
  <2> QED
    BY <1>4, <2>2, <2>3 DEF Holds
<1> QED
  BY <1>2, <1>3, <1>4

\* Two pieces outside the range do not overlap.
LEMMA OutsideApart ==
  ASSUME Proper(blocks), RecordsDisjoint, NEW lo \in Int, NEW hi \in Int,
         NEW d \in Outside(lo, hi), NEW e \in Outside(lo, hi), d # e
  PROVE  Apart(d, e)
<1> DEFINE From(x, c) ==
             \/ x = c /\ ~Overlaps(c, lo, hi)
             \/ x = Below(c, lo) /\ Overlaps(c, lo, hi) /\ x.hi = lo /\ lo < hi
             \/ x = Above(c, hi) /\ Overlaps(c, lo, hi) /\ x.lo = hi /\ lo < hi
<1>1. PICK b \in blocks : b.lo <= d.lo /\ d.hi <= b.hi /\ From(d, b)
  BY OutsidePiece
<1>2. PICK c \in blocks : c.lo <= e.lo /\ e.hi <= c.hi /\ From(e, c)
  BY OutsidePiece
<1>3. b \in Rec /\ c \in Rec /\ d \in Rec /\ e \in Rec
  BY OutsidePiece DEF Proper
<1>4. /\ d.lo \in Int /\ d.hi \in Int /\ e.lo \in Int /\ e.hi \in Int
      /\ b.lo \in Int /\ b.hi \in Int /\ c.lo \in Int /\ c.hi \in Int
  BY <1>3, Fields
<1>5. CASE b # c
  <2>1. b.hi <= c.lo \/ c.hi <= b.lo
    BY <1>5 DEF RecordsDisjoint
  <2> QED
    BY <1>1, <1>2, <1>4, <2>1 DEF Apart
<1>6. CASE b = c
  <2>1. From(d, b) /\ From(e, b) /\ d # e
    BY <1>1, <1>2, <1>6
  <2>2. lo < hi /\ (d.hi = lo \/ d.lo = hi) /\ (e.hi = lo \/ e.lo = hi)
    BY <2>1
  <2>3. ~(d.hi = lo /\ e.hi = lo /\ d.lo # hi /\ e.lo # hi)
    BY <2>1
  <2>4. ~(d.lo = hi /\ e.lo = hi /\ d.hi # lo /\ e.hi # lo)
    BY <2>1
  <2> QED
    BY <1>4, <2>2, <2>3, <2>4 DEF Apart
<1> QED
  BY <1>5, <1>6

\* Two pieces inside the range do not overlap.
LEMMA InsideApart ==
  ASSUME Proper(blocks), RecordsDisjoint, NEW lo \in Int, NEW hi \in Int,
         NEW d \in Inside(lo, hi), NEW e \in Inside(lo, hi), d # e
  PROVE  Apart(d, e)
<1>1. PICK b \in blocks : b.lo <= d.lo /\ d.hi <= b.hi /\ d = Clamp(b, lo, hi)
  BY InsideFacts
<1>2. PICK c \in blocks : c.lo <= e.lo /\ e.hi <= c.hi /\ e = Clamp(c, lo, hi)
  BY InsideFacts
<1>3. b.hi <= c.lo \/ c.hi <= b.lo
  BY <1>1, <1>2 DEF RecordsDisjoint
<1>4. /\ d.lo \in Int /\ d.hi \in Int /\ e.lo \in Int /\ e.hi \in Int
      /\ b.lo \in Int /\ b.hi \in Int /\ c.lo \in Int /\ c.hi \in Int
  BY InsideFacts, Fields DEF Proper
<1> QED
  BY <1>1, <1>2, <1>3, <1>4 DEF Apart

\* Cutting keeps the records finite.
LEMMA CutFinite ==
  ASSUME IsFiniteSet(blocks), NEW lo, NEW hi
  PROVE  IsFiniteSet(Inside(lo, hi)) /\ IsFiniteSet(Outside(lo, hi))
<1>1. IsFiniteSet(Hit(lo, hi))
  BY FS_Subset DEF Hit
<1> DEFINE Hs == {c \in Hit(lo, hi) : c.lo < lo}
           Ts == {c \in Hit(lo, hi) : hi < c.hi}
<1>2. IsFiniteSet(Hs) /\ IsFiniteSet(Ts)
  BY <1>1, FS_Subset
<1>3. IsFiniteSet(Inside(lo, hi))
  <2>1. [c \in Hit(lo, hi) |-> Clamp(c, lo, hi)] \in Surjection(Hit(lo, hi), Inside(lo, hi))
    BY DEF Surjection, Inside
  <2> QED
    BY <1>1, <2>1, FS_Surjection
<1>4. IsFiniteSet(Heads(lo, hi))
  <2>1. [c \in Hs |-> Below(c, lo)] \in Surjection(Hs, Heads(lo, hi))
    BY DEF Surjection, Heads, Below
  <2> QED
    BY <1>2, <2>1, FS_Surjection
<1>5. IsFiniteSet(Tails(lo, hi))
  <2>1. [c \in Ts |-> Above(c, hi)] \in Surjection(Ts, Tails(lo, hi))
    BY DEF Surjection, Tails, Above
  <2> QED
    BY <1>2, <2>1, FS_Surjection
<1>6. IsFiniteSet(blocks \ Hit(lo, hi))
  BY FS_Subset
<1>7. IsFiniteSet(Outside(lo, hi))
  BY <1>4, <1>5, <1>6, FS_Union DEF Outside
<1> QED
  BY <1>3, <1>7

-----------------------------------------------------------------------------
(* What replacing the records of a range does.                             *)

\* An empty range has no piece inside.
LEMMA EmptyFill ==
  ASSUME NEW lo \in Int, NEW hi \in Int
  PROVE  Fill({}, lo, hi)
BY FS_EmptySet DEF Fill

\* Replacing keeps the books.
LEMMA ReplaceKeeps ==
  ASSUME IInv, NEW N, NEW lo, NEW hi, Replaces(N, lo, hi)
  PROVE  /\ Proper(blocks') /\ IsFiniteSet(blocks')
         /\ RecordsDisjoint'
         /\ RecordsApplied'
<1>1. /\ lo \in Int /\ hi \in Int /\ Proper(blocks) /\ RecordsDisjoint /\ RecordsApplied
      /\ IsFiniteSet(blocks) /\ Fill(N, lo, hi) /\ blocks' = Outside(lo, hi) \cup N
  BY DEF IInv, Replaces
<1>2. \A n \in N : /\ n \in Rec /\ n.lo \in Int /\ n.hi \in Int
                    /\ lo <= n.lo /\ n.lo < n.hi /\ n.hi <= hi
  BY <1>1, Fields DEF Fill
<1>3. \A d \in Outside(lo, hi) :
        /\ d \in Rec /\ d.lo \in Int /\ d.hi \in Int /\ d.lo < d.hi
        /\ lo < hi => d.hi <= lo \/ hi <= d.lo
  BY <1>1, OutsidePiece, Fields
<1>4. Proper(blocks')
  BY <1>1, <1>2, <1>3 DEF Proper
<1>5. IsFiniteSet(blocks')
  BY <1>1, CutFinite, FS_Union DEF Fill
<1>6. RecordsDisjoint'
  <2> SUFFICES ASSUME NEW b \in blocks', NEW c \in blocks', b # c
               PROVE  Apart(b, c)
    BY DEF RecordsDisjoint, Apart
  <2>1. CASE b \in N /\ c \in N
    BY <1>1, <2>1 DEF Fill
  <2>2. CASE b \in Outside(lo, hi) /\ c \in Outside(lo, hi)
    BY <1>1, <2>2, OutsideApart
  <2>3. CASE b \in N /\ c \in Outside(lo, hi)
    BY <1>1, <1>2, <1>3, <2>3 DEF Apart
  <2>4. CASE c \in N /\ b \in Outside(lo, hi)
    BY <1>1, <1>2, <1>3, <2>4 DEF Apart
  <2> QED
    BY <1>1, <2>1, <2>2, <2>3, <2>4
<1>7. RecordsApplied'
  <2> SUFFICES ASSUME NEW p \in Pages, NEW b \in blocks', Holds(b, p)
               PROVE  prot'[p] = HostFlags(b.flags)
    BY DEF RecordsApplied, Record, Holds
  <2>1. CASE b \in N
    BY <2>1 DEF Replaces
  <2>2. CASE b \in Outside(lo, hi)
    <3>1. p \in Int
      BY PageFacts
    <3>2. PICK c \in blocks : c.lo <= b.lo /\ b.hi <= c.hi /\ b.flags = c.flags
      BY <1>1, <2>2, OutsidePiece
    <3>3. c.lo \in Int /\ c.hi \in Int
      BY <1>1, Fields DEF Proper
    <3>4. Holds(c, p) /\ ~(lo <= p /\ p < hi)
      BY <1>1, <1>3, <2>2, <3>1, <3>2, <3>3 DEF Holds
    <3>5. prot[p] = HostFlags(c.flags)
      BY <1>1, <3>4 DEF RecordsApplied, Record, Holds
    <3> QED
      BY <3>2, <3>4, <3>5 DEF Replaces
  <2> QED
    BY <1>1, <2>1, <2>2
<1> QED
  BY <1>4, <1>5, <1>6, <1>7

-----------------------------------------------------------------------------
(* The operations replace.                                                 *)

\* Ranges of calls.
LEMMA Ranges ==
  ASSUME NEW va \in Int, NEW size \in Int
  PROVE  /\ Down(va) \in Int /\ Up(va + size) \in Int
         /\ 0 < size => Down(va) < Up(va + size)
<1>1. va + size \in Int
  OBVIOUS
<1> QED
  BY <1>1, DownFacts, UpFacts

\* Addresses and sizes are numbers.
LEMMA Arguments ==
  /\ Addresses \subseteq Int
  /\ \A size \in Sizes : size \in Nat /\ Greater(size, 1) \in Nat \ {0}
  /\ Breaks \subseteq Int
<1>1. \A size \in Sizes : size \in Nat
  BY MemoryConstants
<1> QED
  BY <1>1, MemoryConstants DEF Addresses, Greater

\* MapMemoryImpl_Unlocked puts one record over the range.
LEMMA MapReplaces ==
  ASSUME NEW lo \in Int, NEW hi \in Int, lo < hi, NEW flags \in Flags,
         NEW tag \in Tags \cup {BrkTag}, MapPages(lo, hi, flags, tag)
  PROVE  Replaces({[lo |-> lo, hi |-> hi, flags |-> HostFlags(flags), tag |-> tag]}, lo, hi)
<1> DEFINE n == [lo |-> lo, hi |-> hi, flags |-> HostFlags(flags), tag |-> tag]
<1>1. n \in Rec /\ n.lo = lo /\ n.hi = hi /\ n.flags = HostFlags(flags)
  BY FlagFacts DEF Rec
<1>2. blocks' = Outside(lo, hi) \cup {n} /\ prot' = Protected(lo, hi, HostFlags(flags))
  BY DEF MapPages
<1> HIDE DEF n
<1>3. Fill({n}, lo, hi)
  <2>1. IsFiniteSet({n})
    BY FS_Singleton
  <2> QED
    BY <1>1, <2>1 DEF Fill
<1>4. \A p \in Pages : prot'[p] = IF lo <= p /\ p < hi THEN HostFlags(flags) ELSE prot[p]
  BY <1>2, PageFacts DEF Protected
<1>5. \A p \in Pages : Holds(n, p) => prot'[p] = HostFlags(n.flags)
  BY <1>1, <1>4, FlagFacts DEF Holds
<1>6. Replaces({n}, lo, hi)
  BY <1>2, <1>3, <1>4, <1>5 DEF Replaces
<1> QED
  BY <1>6 DEF n

\* UnmapMemory, a shrink, and what of them has been done when an mprotect fails.
LEMMA UnmapReplaces ==
  ASSUME Proper(blocks), NEW lo \in Int, NEW hi \in Int, Unmapped(lo, hi)
  PROVE  Replaces({}, lo, hi)
<1>1. \A p \in Pages : ~(lo <= p /\ p < hi) => prot'[p] = prot[p]
  <2> SUFFICES ASSUME NEW p \in Pages, ~(lo <= p /\ p < hi)
               PROVE  prot'[p] = prot[p]
    OBVIOUS
  <2>1. ASSUME NEW b \in Inside(lo, hi)
        PROVE  p \notin PagesOf(b.lo, b.hi)
    <3>1. lo <= b.lo /\ b.hi <= hi /\ b.lo \in Int /\ b.hi \in Int /\ p \in Int
      BY InsideFacts, Fields, PageFacts
    <3> QED
      BY <3>1, PageFacts
  <2> QED
    BY <2>1 DEF Unmapped
<1>2. blocks' = Outside(lo, hi) \cup {}
  BY DEF Unmapped
<1> QED
  BY <1>1, <1>2, EmptyFill DEF Replaces

\* ProtectMemory gives the records of the range other flags.
LEMMA ProtectReplaces ==
  ASSUME IInv, NEW lo \in Int, NEW hi \in Int, NEW flags \in Flags,
         prot' = Protected(lo, hi, HostFlags(flags)),
         blocks' = Outside(lo, hi) \cup {[b EXCEPT !.flags = flags] : b \in Inside(lo, hi)}
  PROVE  Replaces({[b EXCEPT !.flags = flags] : b \in Inside(lo, hi)}, lo, hi)
<1> DEFINE Paint(b) == [b EXCEPT !.flags = flags]
           N == {Paint(b) : b \in Inside(lo, hi)}
<1>1. Proper(blocks) /\ RecordsDisjoint /\ IsFiniteSet(blocks)
  BY DEF IInv
<1>2. \A b \in Inside(lo, hi) :
        /\ b \in Rec /\ lo <= b.lo /\ b.lo < b.hi /\ b.hi <= hi
        /\ Paint(b) \in Rec /\ Paint(b).lo = b.lo /\ Paint(b).hi = b.hi /\ Paint(b).flags = flags
  BY <1>1, InsideFacts, Painted
<1>3. IsFiniteSet(N)
  <2>1. [b \in Inside(lo, hi) |-> Paint(b)] \in Surjection(Inside(lo, hi), N)
    BY DEF Surjection
  <2> QED
    BY <1>1, <2>1, CutFinite, FS_Surjection
<1>4. \A b, c \in Inside(lo, hi) : b # c => Apart(b, c)
  BY <1>1, InsideApart
<1>5. \A p \in Pages : prot'[p] = IF lo <= p /\ p < hi THEN HostFlags(flags) ELSE prot[p]
  BY PageFacts DEF Protected
<1>6. blocks' = Outside(lo, hi) \cup N
  OBVIOUS
<1> HIDE DEF Paint
<1>7. \A m, n \in N : m # n => Apart(m, n)
  BY <1>2, <1>4 DEF Apart
<1>8. Fill(N, lo, hi)
  BY <1>2, <1>3, <1>7 DEF Fill
<1>9. \A n \in N, p \in Pages : Holds(n, p) => prot'[p] = HostFlags(n.flags)
  <2> SUFFICES ASSUME NEW b \in Inside(lo, hi), NEW p \in Pages, Holds(Paint(b), p)
               PROVE  prot'[p] = HostFlags(Paint(b).flags)
    OBVIOUS
  <2>1. b.lo \in Int /\ b.hi \in Int /\ p \in Int
    BY <1>2, Fields, PageFacts
  <2>2. lo <= p /\ p < hi
    BY <1>2, <2>1 DEF Holds
  <2> QED
    BY <1>2, <1>5, <2>2
<1>10. Replaces(N, lo, hi)
  BY <1>5, <1>6, <1>8, <1>9 DEF Replaces
<1> QED
  BY <1>10 DEF Paint

\* Every call replaces a range, or leaves the records alone, or clears them all.
LEMMA Changes ==
  ASSUME IInv, Next
  PROVE  /\ programBreak' \in Int
         /\ \/ \E N, lo, hi : Replaces(N, lo, hi)
            \/ UNCHANGED <<blocks, prot>>
            \/ blocks' = {}
<1>1. programBreak \in Int /\ Proper(blocks)
  BY DEF IInv
<1>2. FlagSets \subseteq Flags /\ {"r", "w"} \in Flags
  BY DEF Flags
<1>3. ASSUME NEW va \in Addresses, NEW size \in Sizes, NEW flags \in FlagSets, NEW tag \in Tags,
             MapMemory(va, size, flags, tag)
      PROVE  programBreak' \in Int /\ \E N, lo, hi : Replaces(N, lo, hi)
  <2>1. 0 < size /\ va \in Int /\ size \in Int
    BY <1>3, Arguments DEF MapMemory
  <2>2. Down(va) \in Int /\ Up(va + size) \in Int /\ Down(va) < Up(va + size)
    BY <2>1, Ranges
  <2>3. MapPages(Down(va), Up(va + size), flags, tag)
    BY <1>3 DEF MapMemory
  <2>4. \E N : Replaces(N, Down(va), Up(va + size))
    BY <1>2, <2>2, <2>3, MapReplaces
  <2> QED
    BY <1>1, <1>3, <2>4 DEF MapMemory
<1>4. ASSUME NEW va \in Addresses, NEW size \in Sizes, NEW flags \in FlagSets,
             ProtectMemory(va, size, flags)
      PROVE  programBreak' \in Int /\ \E N, lo, hi : Replaces(N, lo, hi)
  <2> DEFINE lo == Down(va)
             hi == Up(va + Greater(size, 1))
  <2>1. va \in Int /\ Greater(size, 1) \in Int
    BY Arguments
  <2>2. lo \in Int /\ hi \in Int
    BY <2>1, Ranges
  <2>3. /\ prot' = Protected(lo, hi, HostFlags(flags))
        /\ blocks' = Outside(lo, hi) \cup {[b EXCEPT !.flags = flags] : b \in Inside(lo, hi)}
        /\ programBreak' = programBreak
    BY <1>4 DEF ProtectMemory
  <2> HIDE DEF lo, hi
  <2>4. Replaces({[b EXCEPT !.flags = flags] : b \in Inside(lo, hi)}, lo, hi)
    BY <1>2, <2>2, <2>3, ProtectReplaces
  <2> QED
    BY <1>1, <2>3, <2>4
<1>5. ASSUME NEW va \in Addresses, NEW size \in Sizes,
             UnmapMemory(va, size) \/ UnmapFails(va, size)
      PROVE  programBreak' \in Int /\ \E N, lo, hi : Replaces(N, lo, hi)
  <2>1. va \in Int /\ size \in Int
    BY Arguments
  <2>2. Down(va) \in Int /\ Up(va + size) \in Int
    BY <2>1, Ranges
  <2>3. PICK hi \in Int : Unmapped(Down(va), hi)
    <3>1. CASE UnmapMemory(va, size)
      BY <2>2, <3>1 DEF UnmapMemory
    <3>2. CASE UnmapFails(va, size)
      BY <1>1, <2>2, <3>2, InsideFacts, Fields DEF UnmapFails
    <3> QED
      BY <1>5, <3>1, <3>2
  <2>4. Replaces({}, Down(va), hi)
    BY <1>1, <2>2, <2>3, UnmapReplaces
  <2> QED
    BY <1>1, <1>5, <2>4 DEF UnmapMemory, UnmapFails
<1>6. ASSUME NEW a \in Breaks, BrkGrow(a)
      PROVE  programBreak' \in Int /\ \E N, lo, hi : Replaces(N, lo, hi)
  <2>1. a \in Int /\ Up(a) \in Int /\ Up(programBreak) \in Int
    BY <1>1, Arguments, UpFacts
  <2>2. Up(programBreak) < Up(a) /\ MapPages(Up(programBreak), Up(a), {"r", "w"}, BrkTag)
    BY <1>6, <2>1 DEF BrkGrow
  <2>3. \E N : Replaces(N, Up(programBreak), Up(a))
    BY <1>2, <2>1, <2>2, MapReplaces
  <2> QED
    BY <1>6, <2>1, <2>3 DEF BrkGrow
<1>7. ASSUME NEW a \in Breaks, BrkShrink(a) \/ BrkShrinkFails(a)
      PROVE  programBreak' \in Int /\ \E N, lo, hi : Replaces(N, lo, hi)
  <2>1. a \in Int /\ Up(a) \in Int
    BY Arguments, UpFacts
  <2>2. PICK hi \in Int : Unmapped(Up(a), hi)
    <3>1. CASE BrkShrink(a)
      BY <3>1 DEF BrkShrink
    <3>2. CASE BrkShrinkFails(a)
      BY <1>1, <2>1, <3>2, InsideFacts, Fields DEF BrkShrinkFails
    <3> QED
      BY <1>7, <3>1, <3>2
  <2>3. Replaces({}, Up(a), hi)
    BY <1>1, <2>1, <2>2, UnmapReplaces
  <2> QED
    BY <1>1, <1>7, <2>1, <2>3 DEF BrkShrink, BrkShrinkFails
<1>8. ASSUME NEW a \in Breaks, SetProgramBreak(a) \/ BrkStays(a)
      PROVE  programBreak' \in Int /\ UNCHANGED <<blocks, prot>>
  BY <1>8, Arguments DEF SetProgramBreak, BrkStays
<1>9. ASSUME Refused \/ Initialize
      PROVE  programBreak' \in Int /\ UNCHANGED <<blocks, prot>>
  BY <1>1, <1>9 DEF Refused, Initialize
<1>10. ASSUME Shutdown
       PROVE  programBreak' \in Int /\ blocks' = {}
  BY <1>1, <1>10 DEF Shutdown
<1> QED
  BY <1>3, <1>4, <1>5, <1>6, <1>7, <1>8, <1>9, <1>10 DEF Next

\* Every step keeps the invariant.
LEMMA Kept ==
  ASSUME IInv, [Next]_vars
  PROVE  IInv'
<1>1. CASE UNCHANGED <<blocks, prot>> /\ programBreak' \in Int
  BY <1>1 DEF IInv, Proper, RecordsDisjoint, RecordsApplied, Record
<1>2. CASE blocks' = {} /\ programBreak' \in Int
  BY <1>2, FS_EmptySet DEF IInv, Proper, RecordsDisjoint, RecordsApplied, Record
<1>3. ASSUME NEW N, NEW lo, NEW hi, Replaces(N, lo, hi), programBreak' \in Int
      PROVE  IInv'
  BY <1>3, ReplaceKeeps DEF IInv
<1>4. CASE UNCHANGED vars
  BY <1>1, <1>4 DEF vars, IInv
<1> QED
  BY <1>1, <1>2, <1>3, <1>4, Changes

\* The invariant holds at first, and every step keeps it.
LEMMA Inductive == Spec => []IInv
<1>1. Init => IInv
  BY FS_EmptySet DEF Init, IInv, Proper, RecordsDisjoint, RecordsApplied, Record
<1>2. IInv /\ [Next]_vars => IInv'
  BY Kept
<1> QED
  BY <1>1, <1>2, PTL DEF Spec

-----------------------------------------------------------------------------
(* What the guest relies on.                                               *)

\* Records never overlap, whatever sequence of calls cut them, for any window
\* (SplitBlocksAt_Unlocked, MapMemoryImpl_Unlocked, SetBrk).
THEOREM RecordsNeverOverlap == Spec => []RecordsDisjoint
<1>1. IInv => RecordsDisjoint
  BY DEF IInv
<1> QED
  BY <1>1, Inductive, PTL

\* What a record says is what the host applies, also after calls that failed half
\* way (UnmapMemory, SetBrk, ProtectMemory).
THEOREM ProtectionsAreApplied == Spec => []RecordsApplied
<1>1. IInv => RecordsApplied
  BY DEF IInv
<1> QED
  BY <1>1, Inductive, PTL

\* The executable pages of a range are what is collected for the translator.
LEMMA Collected ==
  ASSUME Proper(blocks), NEW lo \in Int, NEW hi \in Int
  PROVE  ExecPages \cap PagesOf(lo, hi) \subseteq ExecOverlaps(lo, hi)
<1> SUFFICES ASSUME NEW p \in ExecPages, p \in PagesOf(lo, hi)
             PROVE  p \in ExecOverlaps(lo, hi)
  OBVIOUS
<1>1. PICK b \in blocks : "x" \in b.flags /\ p \in PagesOf(b.lo, b.hi)
  BY DEF ExecPages, ExecBlocks
<1>2. p \in Pages /\ p \in Int /\ lo <= p /\ p < hi /\ Holds(b, p)
  BY <1>1, PageFacts DEF Holds
<1>3. PICK d \in Inside(lo, hi) : Holds(d, p) /\ d.flags = b.flags
  BY <1>2, InsideCovers
<1>4. p \in PagesOf(d.lo, d.hi) /\ "x" \in d.flags
  BY <1>1, <1>2, <1>3, PageFacts DEF Holds
<1> QED
  BY <1>3, <1>4 DEF ExecOverlaps

\* The translator hears of every executable page that a call names or changes, but for
\* what an unmap that fails half way, a lower break, a protection that does not take
\* the W bit away and the end of the window do, for any window and any sequence of
\* calls (CollectExecOverlaps_Unlocked and its callers).
THEOREM LostCodeReported == Spec => LostCodeIsReported
<1> DEFINE Reported ==
      \A p \in ExecPages :
        p \in asked'.pages \/ prot'[p] # prot[p] => p \in notified' \/ Unreported(p)
<1>1. IInv /\ [Next]_vars => [Reported]_vars
  <2> SUFFICES ASSUME IInv, Next
               PROVE  Reported
    OBVIOUS
  <2>1. Proper(blocks) /\ programBreak \in Int
    BY DEF IInv
  <2>2. ASSUME NEW lo \in Int, NEW hi \in Int, notified' = ExecOverlaps(lo, hi),
               asked'.pages = PagesOf(lo, hi),
               \A p \in Pages : prot'[p] # prot[p] => p \in PagesOf(lo, hi)
        PROVE  Reported
    <3>1. ExecPages \subseteq Pages
      BY DEF ExecPages, PagesOf
    <3> QED BY <2>1, <2>2, <3>1, Collected
  <2>3. ASSUME \/ asked'.op \in {"failed", "shrink"}
               \/ ~initialized'
               \/ asked'.pages = {} /\ prot' = prot
        PROVE  Reported
    BY <2>3 DEF Unreported
  <2>4. ASSUME NEW va \in Addresses, NEW size \in Sizes, NEW flags \in FlagSets, NEW tag \in Tags,
               MapMemory(va, size, flags, tag)
        PROVE  Reported
    <3>1. Down(va) \in Int /\ Up(va + size) \in Int
      BY Arguments, Ranges
    <3>2. /\ notified' = ExecOverlaps(Down(va), Up(va + size))
          /\ asked' = [op |-> "map", pages |-> PagesOf(Down(va), Up(va + size))]
      BY <2>4 DEF MapMemory, MapPages, Ask
    <3>3. /\ asked'.pages = PagesOf(Down(va), Up(va + size))
          /\ \A p \in Pages : prot'[p] # prot[p] => p \in PagesOf(Down(va), Up(va + size))
      BY <2>4, <3>2 DEF MapMemory, MapPages, Protected
    <3> QED
      BY <2>2, <3>1, <3>2, <3>3
  <2>5. ASSUME NEW va \in Addresses, NEW size \in Sizes, NEW flags \in FlagSets,
               ProtectMemory(va, size, flags)
        PROVE  Reported
    <3> DEFINE lo == Down(va)
               hi == Up(va + Greater(size, 1))
    <3>1. lo \in Int /\ hi \in Int
      BY Arguments, Ranges
    <3>2. /\ notified' = IF "w" \in flags THEN {} ELSE ExecOverlaps(lo, hi)
          /\ asked' = [op |-> "protect", pages |-> PagesOf(lo, hi)]
          /\ prot' = Protected(lo, hi, HostFlags(flags))
      BY <2>5 DEF ProtectMemory, Ask
    <3> HIDE DEF lo, hi
    <3>3. asked'.pages = PagesOf(lo, hi) /\ asked'.op = "protect"
      BY <3>2
    <3>4. CASE "w" \in flags
      <4>1. \A p \in PagesOf(lo, hi) : "w" \in prot'[p]
        BY <3>2, <3>4, PageFacts DEF Protected, HostFlags
      <4>2. \A p \in ExecPages : p \in asked'.pages \/ prot'[p] # prot[p] => p \in PagesOf(lo, hi)
        BY <3>2, <3>3 DEF Protected, ExecPages, PagesOf
      <4> QED
        BY <3>3, <4>1, <4>2 DEF Unreported
    <3>5. CASE "w" \notin flags
      <4>1. \A p \in Pages : prot'[p] # prot[p] => p \in PagesOf(lo, hi)
        BY <3>2 DEF Protected
      <4>2. notified' = ExecOverlaps(lo, hi)
        BY <3>2, <3>5
      <4> QED
        BY <2>2, <3>1, <3>3, <4>1, <4>2
    <3> QED
      BY <3>4, <3>5
  <2>6. ASSUME NEW va \in Addresses, NEW size \in Sizes, UnmapMemory(va, size)
        PROVE  Reported
    <3>1. Down(va) \in Int /\ Up(va + size) \in Int
      BY Arguments, Ranges
    <3>2. /\ notified' = ExecOverlaps(Down(va), Up(va + size))
          /\ asked' = [op |-> "unmap", pages |-> PagesOf(Down(va), Up(va + size))]
      BY <2>6 DEF UnmapMemory, Ask
    <3>3. asked'.pages = PagesOf(Down(va), Up(va + size))
      BY <3>2
    <3>4. ASSUME NEW p \in Pages, prot'[p] # prot[p]
          PROVE  p \in PagesOf(Down(va), Up(va + size))
      <4>1. PICK d \in Inside(Down(va), Up(va + size)) : p \in PagesOf(d.lo, d.hi)
        BY <2>6, <3>4 DEF UnmapMemory, Unmapped
      <4>2. d \in Rec /\ Down(va) <= d.lo /\ d.hi <= Up(va + size)
        BY <2>1, <3>1, InsideFacts
      <4> QED
        BY <3>1, <4>1, <4>2, Fields, PageFacts
    <3> QED
      BY <2>2, <3>1, <3>2, <3>3, <3>4
  <2>7. ASSUME NEW a \in Breaks, BrkGrow(a)
        PROVE  Reported
    <3>1. Up(a) \in Int /\ Up(programBreak) \in Int
      BY <2>1, Arguments, UpFacts
    <3>2. /\ notified' = ExecOverlaps(Up(programBreak), Up(a))
          /\ asked' = [op |-> "grow", pages |-> PagesOf(Up(programBreak), Up(a))]
      BY <2>7 DEF BrkGrow, MapPages, Ask
    <3>3. /\ asked'.pages = PagesOf(Up(programBreak), Up(a))
          /\ \A p \in Pages : prot'[p] # prot[p] => p \in PagesOf(Up(programBreak), Up(a))
      BY <2>7, <3>2 DEF BrkGrow, MapPages, Protected
    <3> QED
      BY <2>2, <3>1, <3>2, <3>3
  <2>8. ASSUME NEW va \in Addresses, NEW size \in Sizes, UnmapFails(va, size)
        PROVE  Reported
    BY <2>3, <2>8 DEF UnmapFails, Ask
  <2>9. ASSUME NEW a \in Breaks,
               \/ SetProgramBreak(a) \/ BrkShrink(a) \/ BrkShrinkFails(a) \/ BrkStays(a)
        PROVE  Reported
    BY <2>3, <2>9 DEF SetProgramBreak, BrkShrink, BrkShrinkFails, BrkStays, Ask, AskNothing
  <2>10. ASSUME Refused \/ Shutdown \/ Initialize
         PROVE  Reported
    BY <2>3, <2>10 DEF Refused, Shutdown, Initialize, AskNothing
  <2> QED
    BY <2>4, <2>5, <2>6, <2>7, <2>8, <2>9, <2>10 DEF Next
<1> QED
  BY <1>1, Inductive, PTL DEF Spec, LostCodeIsReported

\* A copy made of the records serves every look-up (RebuildExecSnapshot_Unlocked,
\* FindExecutableMapping).
LEMMA RebuiltIsPublished ==
  ASSUME Proper(blocks'), IsFiniteSet(blocks'), RecordsDisjoint', snapshot' = Rebuilt(blocks')
  PROVE  Published'
<1> DEFINE E == ExecBlocks(blocks')
           Entry(b) == [lo |-> b.lo, hi |-> b.hi, writable |-> Writable(b)]
<1> SUFFICES ASSUME Cardinality(E) <= Cap, NEW p \in Pages
             PROVE  {e.writable : e \in Found(p)'} = {Writable(b) : b \in ExecBlocks(Record(p)')}
  BY DEF Published
<1>1. IsFiniteSet(E) /\ Cardinality(E) \in Nat /\ E \subseteq blocks'
  BY FS_Subset, FS_CardinalityType DEF ExecBlocks
<1>2. \A b \in E : b \in Rec /\ b.lo \in Int /\ b.hi \in Int
  BY <1>1, Fields DEF Proper
<1>3. ASSUME NEW b \in E
      PROVE  Cardinality({c \in E : c.lo < b.lo}) < Cap
  <2> DEFINE L == {c \in E : c.lo < b.lo}
  <2>1. b \notin L
    BY <1>2
  <2>2. L \in SUBSET E /\ L # E
    BY <1>3, <2>1
  <2> HIDE DEF L, E
  <2>3. IsFiniteSet(L) /\ Cardinality(L) <= Cardinality(E) /\ Cardinality(L) # Cardinality(E)
    BY <1>1, <2>2, FS_Subset
  <2>4. Cardinality(L) \in Nat
    BY <2>3, FS_CardinalityType
  <2>5. Cardinality(L) < Cap
    BY <1>1, <2>3, <2>4, MemoryConstants
  <2> QED
    BY <2>5 DEF L, E
<1>4. snapshot' = {Entry(b) : b \in E}
  BY <1>3 DEF Rebuilt
<1>5. \A b : Entry(b).lo = b.lo /\ Entry(b).hi = b.hi /\ Entry(b).writable = Writable(b)
  OBVIOUS
<1>6. p \in Int
  BY PageFacts
<1>7. \A b : b \in ExecBlocks(Record(p)') <=> b \in E /\ Holds(b, p)
  BY DEF ExecBlocks, Record, Holds
<1>8. \A e : e \in Found(p)' <=>
              e \in snapshot' /\ Holds(e, p) /\ \A f \in snapshot' : f.lo <= p => f.lo <= e.lo
  BY DEF Found, Holds
<1> HIDE DEF E, Entry
<1>9. ASSUME NEW e \in Found(p)'
      PROVE  \E b \in ExecBlocks(Record(p)') : e.writable = Writable(b)
  <2>1. PICK b \in E : e = Entry(b)
    BY <1>4, <1>8
  <2> QED
    BY <1>5, <1>7, <1>8, <2>1 DEF Holds
<1>10. ASSUME NEW b \in ExecBlocks(Record(p)')
       PROVE  \E e \in Found(p)' : e.writable = Writable(b)
  <2>1. b \in E /\ b.lo <= p /\ p < b.hi /\ b.lo \in Int /\ b.hi \in Int
    BY <1>2, <1>7 DEF Holds
  <2>2. ASSUME NEW c \in E, c.lo <= p
        PROVE  c.lo <= b.lo
    <3>1. c \in blocks' /\ b \in blocks' /\ c.lo \in Int /\ c.hi \in Int /\ c.lo < c.hi
      BY <1>1, <1>2, <2>1 DEF Proper
    <3>2. b # c => b.hi <= c.lo \/ c.hi <= b.lo
      BY <3>1 DEF RecordsDisjoint
    <3> QED
      BY <1>6, <2>1, <2>2, <3>1, <3>2
  <2>3. \A f \in snapshot' : f.lo <= p => f.lo <= Entry(b).lo
    BY <1>4, <1>5, <2>2
  <2>4. Entry(b) \in snapshot' /\ Holds(Entry(b), p)
    BY <1>4, <1>5, <2>1 DEF Holds
  <2> QED
    BY <1>5, <1>8, <2>3, <2>4
<1> QED
  BY <1>9, <1>10

\* After every successful call that changed records, a fault handler that reads the
\* copy finds each executable page and no other, for any window and any size of the
\* copy that suffices (RebuildExecSnapshot_Unlocked and its callers).
THEOREM SnapshotsArePublished == Spec => SnapshotIsPublished
<1> DEFINE Shown ==
      asked'.op \in {"map", "grow", "protect", "unmap"} /\ blocks' # blocks => Published'
<1>1. IInv /\ [Next]_vars => [Shown]_vars
  <2> SUFFICES ASSUME IInv, Next, asked'.op \in {"map", "grow", "protect", "unmap"},
                      blocks' # blocks
               PROVE  Published'
    OBVIOUS
  <2>1. Proper(blocks') /\ IsFiniteSet(blocks') /\ RecordsDisjoint'
    BY Kept DEF IInv
  <2>2. ASSUME snapshot' = Rebuilt(blocks')
        PROVE  Published'
    BY <2>1, <2>2, RebuiltIsPublished
  <2>3. ASSUME NEW va \in Addresses, NEW size \in Sizes, UnmapMemory(va, size)
        PROVE  snapshot' = Rebuilt(blocks')
    <3> DEFINE lo == Down(va)
               hi == Up(va + size)
    <3>1. blocks' = Outside(lo, hi)
      BY <2>3 DEF UnmapMemory, Unmapped
    <3>2. snapshot' = IF Inside(lo, hi) = {} THEN snapshot ELSE Rebuilt(blocks')
      BY <2>3 DEF UnmapMemory
    <3> HIDE DEF lo, hi
    <3>3. ASSUME Inside(lo, hi) = {}
          PROVE  FALSE
      <4>1. Hit(lo, hi) = {}
        BY <3>3 DEF Inside
      <4>2. Outside(lo, hi) = blocks
        BY <4>1 DEF Outside, Heads, Tails
      <4> QED
        BY <3>1, <4>2
    <3> QED
      BY <3>2, <3>3
  <2>4. ASSUME NEW va \in Addresses, NEW size \in Sizes, NEW flags \in FlagSets,
               \/ \E tag \in Tags : MapMemory(va, size, flags, tag)
               \/ ProtectMemory(va, size, flags)
        PROVE  snapshot' = Rebuilt(blocks')
    BY <2>4 DEF MapMemory, MapPages, ProtectMemory
  <2>5. ASSUME NEW a \in Breaks, BrkGrow(a)
        PROVE  snapshot' = Rebuilt(blocks')
    BY <2>5 DEF BrkGrow, MapPages
  <2>6. ASSUME NEW va \in Addresses, NEW size \in Sizes, UnmapFails(va, size)
        PROVE  FALSE
    BY <2>6 DEF UnmapFails, Ask
  <2>7. ASSUME NEW a \in Breaks,
               \/ SetProgramBreak(a) \/ BrkShrink(a) \/ BrkShrinkFails(a) \/ BrkStays(a)
        PROVE  FALSE
    BY <2>7 DEF SetProgramBreak, BrkShrink, BrkShrinkFails, BrkStays, Ask, AskNothing
  <2>8. ASSUME Refused \/ Shutdown \/ Initialize
        PROVE  FALSE
    BY <2>8 DEF Refused, Shutdown, Initialize, AskNothing
  <2> QED
    BY <2>2, <2>3, <2>4, <2>5, <2>6, <2>7, <2>8 DEF Next
<1> QED
  BY <1>1, Inductive, PTL DEF Spec, SnapshotIsPublished

-----------------------------------------------------------------------------
(* The records implement a page table.                                     *)

\* The entry of a page, read off a set of records.
EntryOf(B, p) ==
  LET R == {b \in B : b.lo <= p /\ p < b.hi}
  IN  IF R = {} THEN Nothing
      ELSE LET b == CHOOSE c \in R : TRUE IN [flags |-> HostFlags(b.flags), tag |-> b.tag]

EntryFrom(b) == [flags |-> HostFlags(b.flags), tag |-> b.tag]

\* The view is made of entries.
LEMMA ViewEntries ==
  /\ TableView = [p \in Pages |-> EntryOf(blocks, p)]
  /\ TableView' = [p \in Pages |-> EntryOf(blocks', p)]
BY DEF TableView, EntryOf, Record

\* A page without a record has no entry.
LEMMA EntryNone ==
  ASSUME NEW B, NEW p, \A b \in B : ~Holds(b, p)
  PROVE  EntryOf(B, p) = Nothing
BY DEF EntryOf, Holds

\* A page of a record has that record's entry.
LEMMA EntryOne ==
  ASSUME NEW B, Proper(B), \A b, c \in B : b # c => Apart(b, c),
         NEW p \in Int, NEW b \in B, Holds(b, p)
  PROVE  EntryOf(B, p) = EntryFrom(b)
<1> DEFINE R == {c \in B : c.lo <= p /\ p < c.hi}
<1>1. b \in R
  BY DEF Holds
<1>2. \A c \in R : c = b
  <2> SUFFICES ASSUME NEW c \in R, c # b
               PROVE  FALSE
    OBVIOUS
  <2>1. c.lo \in Int /\ c.hi \in Int /\ b.lo \in Int /\ b.hi \in Int
    BY Fields DEF Proper
  <2>2. Apart(b, c)
    OBVIOUS
  <2> QED
    BY <2>1, <2>2 DEF Apart, Holds
<1>3. (CHOOSE c \in R : TRUE) = b
  BY <1>1, <1>2
<1> QED
  BY <1>1, <1>3 DEF EntryOf, EntryFrom

\* An entry is not Nothing.
LEMMA EntryIsSome ==
  ASSUME NEW b \in Rec
  PROVE  EntryFrom(b) # Nothing /\ EntryFrom(b).tag = b.tag
<1>1. HostFlags(b.flags) \in SUBSET {"r", "w", "x"} /\ b.tag \in Tags \cup {BrkTag}
  BY Fields, FlagFacts
<1> QED
  BY <1>1, MemoryConstants DEF EntryFrom

\* What replacing does to the entries.
LEMMA ReplaceEntries ==
  ASSUME IInv, NEW N, NEW lo, NEW hi, Replaces(N, lo, hi), NEW p \in Pages
  PROVE  /\ ~(lo <= p /\ p < hi) => EntryOf(blocks', p) = EntryOf(blocks, p)
         /\ \A n \in N : Holds(n, p) => EntryOf(blocks', p) = EntryFrom(n)
         /\ lo <= p /\ p < hi /\ (\A n \in N : ~Holds(n, p)) => EntryOf(blocks', p) = Nothing
<1>1. /\ lo \in Int /\ hi \in Int /\ Proper(blocks) /\ Fill(N, lo, hi)
      /\ blocks' = Outside(lo, hi) \cup N /\ p \in Int
  BY PageFacts DEF IInv, Replaces
<1>2. Proper(blocks') /\ RecordsDisjoint'
  BY ReplaceKeeps
<1>3. \A b, c \in blocks' : b # c => Apart(b, c)
  BY <1>2 DEF RecordsDisjoint, Apart
<1>4. \A b, c \in blocks : b # c => Apart(b, c)
  BY DEF IInv, RecordsDisjoint, Apart
<1>5. \A n \in N : n.lo \in Int /\ n.hi \in Int /\ lo <= n.lo /\ n.hi <= hi
  BY <1>1, Fields DEF Fill
<1>6. \A d \in Outside(lo, hi) : Holds(d, p) =>
        ~(lo <= p /\ p < hi) /\ \E c \in blocks : Holds(c, p)
  <2> SUFFICES ASSUME NEW d \in Outside(lo, hi), Holds(d, p)
               PROVE  ~(lo <= p /\ p < hi) /\ \E c \in blocks : Holds(c, p)
    OBVIOUS
  <2>1. d \in Rec /\ d.lo \in Int /\ d.hi \in Int /\ (lo < hi => d.hi <= lo \/ hi <= d.lo)
    BY <1>1, OutsidePiece, Fields
  <2>2. PICK c \in blocks : c.lo <= d.lo /\ d.hi <= c.hi
    BY <1>1, OutsidePiece
  <2>3. c.lo \in Int /\ c.hi \in Int
    BY <1>1, Fields DEF Proper
  <2> QED
    BY <1>1, <2>1, <2>2, <2>3 DEF Holds
<1>7. ASSUME ~(lo <= p /\ p < hi)
      PROVE  EntryOf(blocks', p) = EntryOf(blocks, p)
  <2>1. CASE \A c \in blocks : ~Holds(c, p)
    <3>1. \A d \in blocks' : ~Holds(d, p)
      BY <1>1, <1>5, <1>6, <1>7, <2>1 DEF Holds
    <3> QED
      BY <2>1, <3>1, EntryNone
  <2>2. ASSUME NEW c \in blocks, Holds(c, p)
        PROVE  EntryOf(blocks', p) = EntryOf(blocks, p)
    <3>1. PICK d \in Outside(lo, hi) : Holds(d, p) /\ d.flags = c.flags /\ d.tag = c.tag
      BY <1>1, <1>7, <2>2, OutsideCovers
    <3>2. EntryOf(blocks', p) = EntryFrom(d)
      BY <1>1, <1>2, <1>3, <3>1, EntryOne
    <3>3. EntryOf(blocks, p) = EntryFrom(c)
      BY <1>1, <1>4, <2>2, EntryOne
    <3> QED
      BY <3>1, <3>2, <3>3 DEF EntryFrom
  <2> QED
    BY <2>1, <2>2
<1>8. ASSUME NEW n \in N, Holds(n, p)
      PROVE  EntryOf(blocks', p) = EntryFrom(n)
  BY <1>1, <1>2, <1>3, <1>8, EntryOne
<1>9. ASSUME lo <= p, p < hi, \A n \in N : ~Holds(n, p)
      PROVE  EntryOf(blocks', p) = Nothing
  <2>1. \A d \in blocks' : ~Holds(d, p)
    BY <1>1, <1>6, <1>9
  <2> QED
    BY <2>1, EntryNone
<1> QED
  BY <1>7, <1>8, <1>9

\* Removing a range removes the entries of its pages.
LEMMA UnmapEntries ==
  ASSUME IInv, NEW lo \in Int, NEW hi \in Int, Unmapped(lo, hi)
  PROVE  TableView' = [p \in Pages |-> IF p \in PagesOf(lo, hi) THEN Nothing ELSE TableView[p]]
<1>1. Replaces({}, lo, hi)
  BY UnmapReplaces DEF IInv
<1>2. \A p \in Pages : EntryOf(blocks', p) = IF lo <= p /\ p < hi THEN Nothing
                                             ELSE EntryOf(blocks, p)
  BY <1>1, ReplaceEntries
<1> QED
  BY <1>2, ViewEntries, PageFacts

\* Mapping a range gives its pages one entry.
LEMMA MapEntries ==
  ASSUME IInv, NEW lo \in Int, NEW hi \in Int, lo < hi, NEW flags \in Flags,
         NEW tag \in Tags \cup {BrkTag}, MapPages(lo, hi, flags, tag)
  PROVE  TableView' = [p \in Pages |-> IF p \in PagesOf(lo, hi)
                                        THEN [flags |-> HostFlags(flags), tag |-> tag]
                                        ELSE TableView[p]]
<1> DEFINE n == [lo |-> lo, hi |-> hi, flags |-> HostFlags(flags), tag |-> tag]
<1>1. Replaces({n}, lo, hi)
  BY MapReplaces
<1>2. n.lo = lo /\ n.hi = hi /\ EntryFrom(n) = [flags |-> HostFlags(flags), tag |-> tag]
  BY FlagFacts DEF EntryFrom
<1> HIDE DEF n
<1>3. \A p \in Pages : EntryOf(blocks', p) = IF lo <= p /\ p < hi THEN EntryFrom(n)
                                             ELSE EntryOf(blocks, p)
  BY <1>1, <1>2, ReplaceEntries DEF Holds
<1> QED
  BY <1>2, <1>3, ViewEntries, PageFacts

\* Protecting a range changes the flags of its mapped pages.
LEMMA ProtectEntries ==
  ASSUME IInv, NEW lo \in Int, NEW hi \in Int, NEW flags \in Flags,
         prot' = Protected(lo, hi, HostFlags(flags)),
         blocks' = Outside(lo, hi) \cup {[b EXCEPT !.flags = flags] : b \in Inside(lo, hi)}
  PROVE  TableView' = [p \in Pages |-> IF p \in PagesOf(lo, hi) /\ TableView[p] # Nothing
                                        THEN [TableView[p] EXCEPT !.flags = HostFlags(flags)]
                                        ELSE TableView[p]]
<1> DEFINE Paint(b) == [b EXCEPT !.flags = flags]
           N == {Paint(b) : b \in Inside(lo, hi)}
<1>1. Replaces(N, lo, hi)
  BY ProtectReplaces
<1>2. Proper(blocks) /\ \A b, c \in blocks : b # c => Apart(b, c)
  BY DEF IInv, RecordsDisjoint, Apart
<1>3. \A b \in Inside(lo, hi) :
        /\ b \in Rec /\ Paint(b) \in Rec /\ Paint(b).lo = b.lo /\ Paint(b).hi = b.hi
        /\ Paint(b).flags = flags /\ Paint(b).tag = b.tag
  BY <1>2, InsideFacts, Painted
<1> HIDE DEF Paint
<1>4. ASSUME NEW p \in Pages
      PROVE  EntryOf(blocks', p) =
               IF p \in PagesOf(lo, hi) /\ EntryOf(blocks, p) # Nothing
               THEN [EntryOf(blocks, p) EXCEPT !.flags = HostFlags(flags)]
               ELSE EntryOf(blocks, p)
  <2>1. p \in Int /\ (p \in PagesOf(lo, hi) <=> lo <= p /\ p < hi)
    BY PageFacts
  <2>2. CASE ~(lo <= p /\ p < hi)
    BY <1>1, <2>1, <2>2, ReplaceEntries
  <2>3. CASE lo <= p /\ p < hi /\ \A c \in blocks : ~Holds(c, p)
    <3>1. EntryOf(blocks, p) = Nothing
      BY <2>3, EntryNone
    <3>2. \A n \in N : ~Holds(n, p)
      <4> SUFFICES ASSUME NEW b \in Inside(lo, hi), Holds(Paint(b), p)
                   PROVE  FALSE
        OBVIOUS
      <4>1. PICK c \in blocks : c.lo <= b.lo /\ b.hi <= c.hi
        BY <1>2, InsideFacts
      <4>2. b.lo \in Int /\ b.hi \in Int /\ c.lo \in Int /\ c.hi \in Int
        BY <1>2, <1>3, Fields DEF Proper
      <4>3. Holds(c, p)
        BY <1>3, <2>1, <4>1, <4>2 DEF Holds
      <4> QED
        BY <2>3, <4>3
    <3> QED
      BY <1>1, <2>3, <3>1, <3>2, ReplaceEntries
  <2>4. ASSUME lo <= p, p < hi, NEW c \in blocks, Holds(c, p)
        PROVE  EntryOf(blocks', p) =
                 IF p \in PagesOf(lo, hi) /\ EntryOf(blocks, p) # Nothing
                 THEN [EntryOf(blocks, p) EXCEPT !.flags = HostFlags(flags)]
                 ELSE EntryOf(blocks, p)
    <3>1. EntryOf(blocks, p) = EntryFrom(c) /\ EntryFrom(c) # Nothing
      BY <1>2, <2>1, <2>4, EntryOne, EntryIsSome DEF Proper
    <3>2. PICK b \in Inside(lo, hi) : Holds(b, p) /\ b.tag = c.tag
      BY <1>2, <2>1, <2>4, InsideCovers
    <3>3. Holds(Paint(b), p) /\ Paint(b) \in N
      BY <1>3, <3>2 DEF Holds
    <3>4. EntryOf(blocks', p) = EntryFrom(Paint(b))
      BY <1>1, <3>3, ReplaceEntries
    <3>5. EntryFrom(Paint(b)) = [flags |-> HostFlags(flags), tag |-> c.tag]
      BY <1>3, <3>2 DEF EntryFrom
    <3>6. [EntryFrom(c) EXCEPT !.flags = HostFlags(flags)] = [flags |-> HostFlags(flags), tag |-> c.tag]
      BY DEF EntryFrom
    <3> QED
      BY <2>1, <2>4, <3>1, <3>4, <3>5, <3>6
  <2> QED
    BY <2>2, <2>3, <2>4
<1> QED
  BY <1>4, ViewEntries

\* A shrink and what of it has been done when an mprotect fails removes entries of
\* the break.
LEMMA ShrinkEntries ==
  ASSUME IInv, NEW lo \in Int, NEW end \in Int, NEW hi \in Int,
         IsBrkEnd(lo, end), hi <= end, Unmapped(lo, hi), end <= Limit
  PROVE  \E S \in SUBSET PagesOf(lo, Limit) :
           /\ \A p \in S : TableView[p] # Nothing /\ TableView[p].tag = BrkTag
           /\ TableView' = [p \in Pages |-> IF p \in S THEN Nothing ELSE TableView[p]]
<1> DEFINE S == PagesOf(lo, hi)
<1>1. TableView' = [p \in Pages |-> IF p \in S THEN Nothing ELSE TableView[p]]
  BY UnmapEntries
<1>2. Limit \in Int
  BY MemoryConstants
<1>3. \A p \in S : p \in Pages /\ p \in Int /\ lo <= p /\ p < hi
  BY PageFacts
<1>4. S \in SUBSET PagesOf(lo, Limit)
  BY <1>2, <1>3, PageFacts
<1>5. ASSUME NEW p \in S
      PROVE  TableView[p] # Nothing /\ TableView[p].tag = BrkTag
  <2>1. p \in PagesOf(lo, end)
    BY <1>3, PageFacts
  <2>2. p \in BrkPages(lo)
    BY <2>1 DEF IsBrkEnd
  <2>3. p \in PagesOf(lo, p + 1)
    BY <1>3, PageFacts
  <2>4. PICK b \in blocks : Holds(b, p) /\ b.tag = BrkTag
    BY <2>2, <2>3 DEF BrkPages, Holds
  <2>5. Proper(blocks) /\ \A b1, b2 \in blocks : b1 # b2 => Apart(b1, b2)
    BY DEF IInv, RecordsDisjoint, Apart
  <2>6. EntryOf(blocks, p) = EntryFrom(b) /\ b \in Rec
    BY <1>3, <2>4, <2>5, EntryOne DEF Proper
  <2>7. TableView[p] = EntryOf(blocks, p)
    BY <1>3, ViewEntries
  <2> QED
    BY <2>4, <2>6, <2>7, EntryIsSome
<1> QED
  BY <1>1, <1>4, <1>5

\* What a step does to the table and to the call's name.
LEMMA Maps ==
  ASSUME IInv, NEW lo \in Int, NEW hi \in Int, lo < hi,
         NEW flags \in FlagSets \cup {{"r", "w"}}, NEW tag \in Tags \cup {BrkTag},
         MapPages(lo, hi, flags, tag), NEW op, Ask(op, lo, hi),
         NEW tags, tag \in tags
  PROVE  Table!Map(op, tags)
<1>1. flags \in Flags
  BY DEF Flags
<1>2. asked'.op = op /\ asked'.pages = PagesOf(lo, hi)
  BY DEF Ask
<1>3. TableView' = [p \in Pages |-> IF p \in asked'.pages
                                     THEN [flags |-> HostFlags(flags), tag |-> tag]
                                     ELSE TableView[p]]
  BY <1>1, <1>2, MapEntries
<1>4. HostFlags(flags) \in {HostFlags(f) : f \in FlagSets \cup {{"r", "w"}}}
  OBVIOUS
<1>5. asked'.pages \subseteq Pages
  BY <1>2, PageFacts
<1> QED
  BY <1>2, <1>3, <1>4, <1>5 DEF Table!Map, Table!Call

\* A step that changes neither records nor pages and names none.
LEMMA Quiets ==
  ASSUME AskNothing, blocks' = blocks
  PROVE  Table!Quiet
<1>1. asked'.op = "none" /\ asked'.pages = {}
  BY DEF AskNothing
<1>2. TableView' = TableView
  BY ViewEntries
<1> QED
  BY <1>1, <1>2 DEF Table!Quiet, Table!Call

\* Every step of the records is a step of the table.
LEMMA TableStep ==
  ASSUME IInv, Next
  PROVE  Table!Next
<1>1. programBreak \in Int /\ Limit \in Int
  BY MemoryConstants DEF IInv
<1>2. ASSUME NEW va \in Addresses, NEW size \in Sizes, NEW flags \in FlagSets, NEW tag \in Tags,
             MapMemory(va, size, flags, tag)
      PROVE  Table!Map("map", Tags)
  <2>1. 0 < size /\ va \in Int /\ size \in Int
    BY <1>2, Arguments DEF MapMemory
  <2>2. Down(va) \in Int /\ Up(va + size) \in Int /\ Down(va) < Up(va + size)
    BY <2>1, Ranges
  <2>3. /\ MapPages(Down(va), Up(va + size), flags, tag)
        /\ Ask("map", Down(va), Up(va + size))
    BY <1>2 DEF MapMemory
  <2> QED
    BY <2>2, <2>3, Maps
<1>3. ASSUME NEW va \in Addresses, NEW size \in Sizes, NEW flags \in FlagSets,
             ProtectMemory(va, size, flags)
      PROVE  Table!Protect
  <2> DEFINE lo == Down(va)
             hi == Up(va + Greater(size, 1))
  <2>1. lo \in Int /\ hi \in Int /\ flags \in Flags
    BY Arguments, Ranges DEF Flags
  <2>2. /\ prot' = Protected(lo, hi, HostFlags(flags))
        /\ blocks' = Outside(lo, hi) \cup {[b EXCEPT !.flags = flags] : b \in Inside(lo, hi)}
        /\ asked' = [op |-> "protect", pages |-> PagesOf(lo, hi)]
    BY <1>3 DEF ProtectMemory, Ask
  <2> HIDE DEF lo, hi
  <2>3. asked'.op = "protect" /\ asked'.pages = PagesOf(lo, hi) /\ asked'.pages \subseteq Pages
    BY <2>2, PageFacts
  <2>4. TableView' = [p \in Pages |-> IF p \in PagesOf(lo, hi) /\ TableView[p] # Nothing
                                      THEN [TableView[p] EXCEPT !.flags = HostFlags(flags)]
                                      ELSE TableView[p]]
    BY <2>1, <2>2, ProtectEntries
  <2>5. \A p \in Pages : p \in asked'.pages \cap Table!Mapped
                          <=> p \in PagesOf(lo, hi) /\ TableView[p] # Nothing
    BY <2>3 DEF Table!Mapped
  <2>6. TableView' = [p \in Pages |-> IF p \in asked'.pages \cap Table!Mapped
                                      THEN [TableView[p] EXCEPT !.flags = HostFlags(flags)]
                                      ELSE TableView[p]]
    BY <2>4, <2>5
  <2>7. HostFlags(flags) \in {HostFlags(f) : f \in FlagSets \cup {{"r", "w"}}}
    OBVIOUS
  <2> QED
    BY <2>3, <2>6, <2>7 DEF Table!Protect, Table!Call
<1>4. ASSUME NEW va \in Addresses, NEW size \in Sizes, UnmapMemory(va, size)
      PROVE  Table!Unmap
  <2>1. Down(va) \in Int /\ Up(va + size) \in Int
    BY Arguments, Ranges
  <2>2. /\ Unmapped(Down(va), Up(va + size))
        /\ asked' = [op |-> "unmap", pages |-> PagesOf(Down(va), Up(va + size))]
    BY <1>4 DEF UnmapMemory, Ask
  <2>3. /\ asked'.op = "unmap" /\ asked'.pages = PagesOf(Down(va), Up(va + size))
        /\ asked'.pages \subseteq Pages
    BY <2>2, PageFacts
  <2>4. TableView' = [p \in Pages |-> IF p \in asked'.pages THEN Nothing ELSE TableView[p]]
    BY <2>1, <2>2, <2>3, UnmapEntries
  <2> QED
    BY <2>3, <2>4 DEF Table!Unmap, Table!Call, Table!Remove
<1>5. ASSUME NEW va \in Addresses, NEW size \in Sizes, UnmapFails(va, size)
      PROVE  Table!UnmapFails
  <2> DEFINE lo == Down(va)
             hi == Up(va + size)
  <2>1. lo \in Int /\ hi \in Int
    BY Arguments, Ranges
  <2>2. asked' = [op |-> "failed", pages |-> PagesOf(lo, hi)]
    BY <1>5 DEF UnmapFails, Ask
  <2>3. PICK b \in Inside(lo, hi) : Unmapped(lo, b.lo)
    BY <1>5 DEF UnmapFails
  <2> HIDE DEF lo, hi
  <2>4. b.lo \in Int /\ b.lo < hi
    <3>1. b \in Rec /\ b.lo < b.hi /\ b.hi <= hi
      BY <2>1, InsideFacts DEF IInv
    <3> QED
      BY <2>1, <3>1, Fields
  <2>5. /\ asked'.op = "failed" /\ asked'.pages = PagesOf(lo, hi)
        /\ asked'.pages \subseteq Pages
    BY <2>2, PageFacts
  <2>6. \A p \in PagesOf(lo, b.lo) : p \in Pages /\ p \in Int /\ lo <= p /\ p < b.lo
    BY PageFacts
  <2>7. PagesOf(lo, b.lo) \in SUBSET asked'.pages
    BY <2>1, <2>4, <2>5, <2>6, PageFacts
  <2>8. TableView' = [p \in Pages |-> IF p \in PagesOf(lo, b.lo) THEN Nothing ELSE TableView[p]]
    BY <2>1, <2>3, <2>4, UnmapEntries
  <2> QED
    BY <2>5, <2>7, <2>8 DEF Table!UnmapFails, Table!Call, Table!Remove
<1>6. ASSUME NEW a \in Breaks, BrkGrow(a)
      PROVE  Table!Map("grow", {BrkTag})
  <2>1. Up(a) \in Int /\ Up(programBreak) \in Int
    BY <1>1, Arguments, UpFacts
  <2>2. /\ Up(programBreak) < Up(a)
        /\ MapPages(Up(programBreak), Up(a), {"r", "w"}, BrkTag)
        /\ Ask("grow", Up(programBreak), Up(a))
    BY <1>6, <2>1 DEF BrkGrow
  <2> QED
    BY <2>1, <2>2, Maps
<1>7. ASSUME NEW a \in Breaks, BrkShrink(a) \/ BrkShrinkFails(a)
      PROVE  Table!Shrink
  <2> DEFINE lo == Up(a)
  <2>1. lo \in Int
    BY Arguments, UpFacts
  <2>2. asked' = [op |-> "shrink", pages |-> PagesOf(lo, Limit)]
    BY <1>7 DEF BrkShrink, BrkShrinkFails, Ask
  <2>3. \E end \in lo .. Limit, hi \in Int : IsBrkEnd(lo, end) /\ hi <= end /\ Unmapped(lo, hi)
    <3>1. CASE BrkShrink(a)
      BY <1>1, <2>1, <3>1 DEF BrkShrink
    <3>2. CASE BrkShrinkFails(a)
      <4>1. PICK end \in lo .. Limit : \E b \in Inside(lo, end) : IsBrkEnd(lo, end) /\ Unmapped(lo, b.lo)
        BY <3>2 DEF BrkShrinkFails
      <4>2. PICK b \in Inside(lo, end) : IsBrkEnd(lo, end) /\ Unmapped(lo, b.lo)
        BY <4>1
      <4>3. b \in Rec /\ b.lo < b.hi /\ b.hi <= end /\ end \in Int
        BY <1>1, <2>1, InsideFacts DEF IInv
      <4>4. b.lo \in Int /\ b.lo <= end
        BY <4>3, Fields
      <4> QED
        BY <4>2, <4>4
    <3> QED
      BY <1>7, <3>1, <3>2
  <2> HIDE DEF lo
  <2>4. PICK end \in lo .. Limit, hi \in Int : IsBrkEnd(lo, end) /\ hi <= end /\ Unmapped(lo, hi)
    BY <2>3
  <2>5. PICK S \in SUBSET PagesOf(lo, Limit) :
           /\ \A p \in S : TableView[p] # Nothing /\ TableView[p].tag = BrkTag
           /\ TableView' = [p \in Pages |-> IF p \in S THEN Nothing ELSE TableView[p]]
    <3>1. end \in Int /\ end <= Limit
      BY <1>1, <2>1
    <3> QED
      BY <2>1, <2>4, <3>1, ShrinkEntries
  <2>6. /\ asked'.op = "shrink" /\ asked'.pages = PagesOf(lo, Limit)
        /\ asked'.pages \subseteq Pages
    BY <2>2, PageFacts
  <2>7. S \in SUBSET (asked'.pages \cap Table!OfBreak)
    BY <2>5, <2>6 DEF Table!OfBreak, Table!Mapped
  <2> QED
    BY <2>5, <2>6, <2>7 DEF Table!Shrink, Table!Call, Table!Remove
<1>8. ASSUME Shutdown
      PROVE  Table!Reset
  <2>1. asked'.op = "none" /\ asked'.pages = {} /\ blocks' = {}
    BY <1>8 DEF Shutdown, AskNothing
  <2>2. \A p \in Pages : EntryOf(blocks', p) = Nothing
    BY <2>1, EntryNone
  <2>3. TableView' = [p \in Pages |-> IF p \in Pages THEN Nothing ELSE TableView[p]]
    BY <2>2, ViewEntries
  <2> QED
    BY <2>1, <2>3 DEF Table!Reset, Table!Call, Table!Remove
<1>9. ASSUME NEW a \in Breaks, SetProgramBreak(a) \/ BrkStays(a)
      PROVE  Table!Quiet
  BY <1>9, Quiets DEF SetProgramBreak, BrkStays
<1>10. ASSUME Refused \/ Initialize
       PROVE  Table!Quiet
  BY <1>10, Quiets DEF Refused, Initialize
<1> QED
  BY <1>2, <1>3, <1>4, <1>5, <1>6, <1>7, <1>8, <1>9, <1>10 DEF Next, Table!Next

\* Splitting, replacing and releasing records amounts to changing the entries of the
\* pages a call names, and of no others, for any window and any sequence of calls.
THEOREM RecordsImplementTable == Spec => ImplementsPageTable
<1>1. Init => Table!Init
  <2> SUFFICES ASSUME Init
               PROVE  Table!Init
    OBVIOUS
  <2>1. \A p \in Pages : EntryOf(blocks, p) = Nothing
    BY EntryNone DEF Init
  <2>2. TableView = [p \in Pages |-> Nothing]
    BY <2>1, ViewEntries
  <2> QED
    BY <2>2 DEF Init, Table!Init
<1>2. IInv /\ [Next]_vars => [Table!Next]_<<TableView, asked>>
  <2> SUFFICES ASSUME IInv, [Next]_vars
               PROVE  [Table!Next]_<<TableView, asked>>
    OBVIOUS
  <2>1. CASE UNCHANGED vars
    BY <2>1, ViewEntries DEF vars
  <2>2. CASE Next
    BY <2>2, TableStep
  <2> QED
    BY <2>1, <2>2
<1> QED
  BY <1>1, <1>2, Inductive, PTL DEF Spec, ImplementsPageTable, Table!Spec
-----------------------------------------------------------------------------
(* Counting bytes.                                                         *)

\* The addresses a set of records holds.
Held(B) == {a \in Int : \E b \in B : Holds(b, a)}

\* A function that adds up the lengths of every part of a set of records, as the
\* fold does.
Adds(f, B) ==
  f = [s \in SUBSET B |-> IF s = {} THEN 0
                          ELSE Length(CHOOSE x \in s : TRUE) + f[s \ {CHOOSE x \in s : TRUE}]]

\* Two finite sets with nothing in common.
LEMMA DisjointUnion ==
  ASSUME NEW S, NEW T, IsFiniteSet(S), IsFiniteSet(T), S \cap T = {}
  PROVE  /\ Cardinality(S) \in Nat /\ Cardinality(T) \in Nat
         /\ Cardinality(S \cup T) = Cardinality(S) + Cardinality(T)
<1>1. Cardinality(S) \in Nat /\ Cardinality(T) \in Nat
  BY FS_CardinalityType
<1>2. Cardinality(S \cap T) = 0
  BY FS_EmptySet
<1>3. Cardinality(S \cup T) = Cardinality(S) + Cardinality(T) - Cardinality(S \cap T)
  BY FS_Union
<1> QED
  BY <1>1, <1>2, <1>3

\* What the fold is.
LEMMA BytesAdds ==
  ASSUME NEW B
  PROVE  Bytes(B) = (CHOOSE f : Adds(f, B))[B]
BY DEF Bytes, MapThenSumSet, MapThenFoldSet, Adds

\* Only one function does it.
LEMMA AddsOnce ==
  ASSUME NEW B, IsFiniteSet(B), NEW f, NEW g, Adds(f, B), Adds(g, B)
  PROVE  f = g
<1> DEFINE D == {s \in SUBSET B : f[s] # g[s]}
           Some(s) == CHOOSE x \in s : TRUE
<1>1. D = {}
  <2> SUFFICES ASSUME D # {}
               PROVE  FALSE
    OBVIOUS
  <2>1. D \subseteq FiniteSubsetsOf(B)
    BY FS_Subset DEF FiniteSubsetsOf
  <2>2. PICK s \in D : \A t \in D : <<t, s>> \notin StrictSubsetOrdering(B)
    <3>1. IsWellFoundedOn(StrictSubsetOrdering(B), FiniteSubsetsOf(B))
      BY FS_StrictSubsetOrderingWellFounded
    <3> QED
      BY <2>1, <3>1, WFMin, Zenon
  <2>3. s \in SUBSET B /\ f[s] # g[s]
    OBVIOUS
  <2>4. CASE s = {}
    BY <2>3, <2>4 DEF Adds
  <2>5. CASE s # {}
    <3> DEFINE x == Some(s)
               r == s \ {x}
    <3>1. x \in s
      BY <2>5
    <3>2. r \in SUBSET B /\ r \subseteq s /\ r # s
      BY <2>3, <3>1
    <3>3. <<r, s>> \in StrictSubsetOrdering(B)
      BY <2>3, <3>2 DEF StrictSubsetOrdering
    <3>4. f[r] = g[r]
      BY <2>2, <3>2, <3>3
    <3>5. f[s] = Length(x) + f[r] /\ g[s] = Length(x) + g[r]
      BY <2>3, <2>5 DEF Adds
    <3> QED
      BY <2>3, <3>4, <3>5
  <2> QED
    BY <2>4, <2>5
<1>2. /\ f = [s \in SUBSET B |-> f[s]]
      /\ g = [s \in SUBSET B |-> g[s]]
  BY DEF Adds
<1> QED
  BY <1>1, <1>2

\* The records of a finite set hold finitely many addresses.
LEMMA HeldFinite ==
  ASSUME NEW B, Proper(B), IsFiniteSet(B)
  PROVE  IsFiniteSet(Held(B))
<1> DEFINE R == {b.lo .. b.hi - 1 : b \in B}
<1>1. \A b \in B : b.lo \in Int /\ b.hi \in Int
  BY Fields DEF Proper
<1>2. IsFiniteSet(R)
  <2>1. [b \in B |-> b.lo .. b.hi - 1] \in Surjection(B, R)
    BY DEF Surjection
  <2> QED
    BY <2>1, FS_Surjection
<1>3. \A T \in R : IsFiniteSet(T)
  BY <1>1, FS_Interval
<1>4. Held(B) = UNION R
  BY <1>1 DEF Held, Holds
<1> QED
  BY <1>2, <1>3, <1>4, FS_UNION

\* A record holds as many addresses as it is long.
LEMMA HeldOne ==
  ASSUME NEW b \in Rec, b.lo < b.hi
  PROVE  IsFiniteSet(Held({b})) /\ Cardinality(Held({b})) = Length(b)
<1>1. b.lo \in Int /\ b.hi \in Int
  BY Fields
<1>2. Held({b}) = b.lo .. b.hi - 1
  BY <1>1 DEF Held, Holds
<1> QED
  BY <1>1, <1>2, FS_Interval DEF Length

\* Records that do not overlap hold as many addresses as they are long together.
LEMMA BytesAreHeld ==
  ASSUME NEW B, Proper(B), IsFiniteSet(B), \A b, c \in B : b # c => Apart(b, c)
  PROVE  Bytes(B) = Cardinality(Held(B))
<1> DEFINE f == [s \in SUBSET B |-> Cardinality(Held(s))]
           Some(s) == CHOOSE x \in s : TRUE
<1>1. ASSUME NEW s \in SUBSET B, s # {}
      PROVE  Cardinality(Held(s)) = Length(Some(s)) + Cardinality(Held(s \ {Some(s)}))
  <2> DEFINE x == Some(s)
             r == s \ {x}
  <2>1. x \in s /\ r \in SUBSET B
    BY <1>1
  <2> HIDE DEF x
  <2>2. x \in Rec /\ x.lo < x.hi /\ x.lo \in Int /\ x.hi \in Int
    BY <1>1, <2>1, Fields DEF Proper
  <2>3. IsFiniteSet(Held(r))
    <3>1. Proper(r) /\ IsFiniteSet(r)
      BY <2>1, FS_Subset DEF Proper
    <3> QED
      BY <3>1, HeldFinite
  <2>4. IsFiniteSet(Held({x})) /\ Cardinality(Held({x})) = Length(x)
    BY <2>2, HeldOne
  <2>5. Held(s) = Held({x}) \cup Held(r)
    BY <2>1 DEF Held
  <2>6. Held({x}) \cap Held(r) = {}
    <3> SUFFICES ASSUME NEW a \in Int, Holds(x, a), NEW b \in r, Holds(b, a)
                 PROVE  FALSE
      BY DEF Held
    <3>1. Apart(x, b) /\ b \in Rec
      BY <1>1, <2>1 DEF Proper
    <3>2. b.lo \in Int /\ b.hi \in Int
      BY <3>1, Fields
    <3> QED
      BY <2>2, <3>1, <3>2 DEF Apart, Holds
  <2>7. Cardinality(Held(s)) = Length(x) + Cardinality(Held(r))
    <3>1. Cardinality(Held({x}) \cup Held(r)) = Cardinality(Held({x})) + Cardinality(Held(r))
      BY <2>3, <2>4, <2>6, DisjointUnion
    <3> QED
      BY <2>4, <2>5, <3>1
  <2> QED
    BY <2>7 DEF x
<1>2. Cardinality(Held({})) = 0
  BY FS_EmptySet DEF Held
<1>3. Adds(f, B)
  BY <1>1, <1>2 DEF Adds
<1> HIDE DEF f
<1>4. (CHOOSE g : Adds(g, B)) = f
  BY <1>3, AddsOnce
<1>5. Bytes(B) = f[B]
  BY <1>4, BytesAdds
<1> QED
  BY <1>5 DEF f
\* No records are no bytes.
LEMMA BytesNone == Bytes({}) = 0
<1>1. Proper({}) /\ IsFiniteSet({}) /\ Held({}) = {} /\ Cardinality({}) = 0
  BY FS_EmptySet DEF Proper, Held
<1> QED
  BY <1>1, BytesAreHeld

\* What replacing the records of a range does to the bytes they hold.
LEMMA ReplaceCounts ==
  ASSUME IInv, NEW N, NEW lo, NEW hi, Replaces(N, lo, hi)
  PROVE  /\ Bytes(blocks') = Bytes(blocks) - Bytes(Inside(lo, hi)) + Bytes(N)
         /\ Bytes(blocks) \in Nat /\ Bytes(Inside(lo, hi)) \in Nat /\ Bytes(N) \in Nat
<1> DEFINE O == Outside(lo, hi)
           I == Inside(lo, hi)
<1>1. /\ lo \in Int /\ hi \in Int /\ Proper(blocks) /\ RecordsDisjoint
      /\ IsFiniteSet(blocks) /\ Fill(N, lo, hi) /\ blocks' = O \cup N
  BY DEF IInv, Replaces
<1>2. \A d \in O : /\ d \in Rec /\ d.lo < d.hi /\ d.lo \in Int /\ d.hi \in Int
                   /\ lo < hi => d.hi <= lo \/ hi <= d.lo
                   /\ \E c \in blocks : c.lo <= d.lo /\ d.hi <= c.hi
  BY <1>1, OutsidePiece, Fields
<1>3. \A d \in I : /\ d \in Rec /\ d.lo \in Int /\ d.hi \in Int
                   /\ lo <= d.lo /\ d.lo < d.hi /\ d.hi <= hi
                   /\ \E c \in blocks : c.lo <= d.lo /\ d.hi <= c.hi
  BY <1>1, InsideFacts, Fields
<1>4. \A n \in N : /\ n \in Rec /\ n.lo \in Int /\ n.hi \in Int
                   /\ lo <= n.lo /\ n.lo < n.hi /\ n.hi <= hi
  BY <1>1, Fields DEF Fill
<1>5. \A c \in blocks : c \in Rec /\ c.lo \in Int /\ c.hi \in Int
  BY <1>1, Fields DEF Proper
<1>6. Proper(O) /\ Proper(I) /\ Proper(N)
  BY <1>2, <1>3, <1>4 DEF Proper
<1>7. IsFiniteSet(O) /\ IsFiniteSet(I) /\ IsFiniteSet(N)
  BY <1>1, CutFinite DEF Fill
<1>8. Proper(blocks') /\ IsFiniteSet(blocks') /\ RecordsDisjoint'
  BY ReplaceKeeps
<1>9. /\ Bytes(blocks') = Cardinality(Held(blocks')) /\ Bytes(N) = Cardinality(Held(N))
      /\ Bytes(blocks) = Cardinality(Held(blocks)) /\ Bytes(I) = Cardinality(Held(I))
  <2>1. \A b, c \in blocks' : b # c => Apart(b, c)
    BY <1>8 DEF RecordsDisjoint, Apart
  <2>2. \A b, c \in blocks : b # c => Apart(b, c)
    BY <1>1 DEF RecordsDisjoint, Apart
  <2>3. \A b, c \in I : b # c => Apart(b, c)
    BY <1>1, InsideApart
  <2>4. \A b, c \in N : b # c => Apart(b, c)
    BY <1>1 DEF Fill
  <2>5. Bytes(blocks') = Cardinality(Held(blocks'))
    BY <1>8, <2>1, BytesAreHeld
  <2>6. Bytes(blocks) = Cardinality(Held(blocks))
    BY <1>1, <2>2, BytesAreHeld
  <2>7. Bytes(I) = Cardinality(Held(I))
    BY <1>6, <1>7, <2>3, BytesAreHeld
  <2>8. Bytes(N) = Cardinality(Held(N))
    BY <1>6, <1>7, <2>4, BytesAreHeld
  <2> QED
    BY <2>5, <2>6, <2>7, <2>8
<1> HIDE DEF O, I
<1>10. Held(blocks) = Held(O) \cup Held(I)
  <2>1. ASSUME NEW a \in Held(blocks)
        PROVE  a \in Held(O) \cup Held(I)
    <3>1. a \in Int /\ \E c \in blocks : Holds(c, a)
      BY DEF Held
    <3>2. CASE lo <= a /\ a < hi
      BY <1>1, <3>1, <3>2, InsideCovers DEF Held, I
    <3>3. CASE ~(lo <= a /\ a < hi)
      BY <1>1, <3>1, <3>3, OutsideCovers DEF Held, O
    <3> QED
      BY <3>2, <3>3
  <2>2. ASSUME NEW a \in Held(O) \cup Held(I)
        PROVE  a \in Held(blocks)
    BY <1>2, <1>3, <1>5 DEF Held, Holds
  <2> QED
    BY <2>1, <2>2
<1>11. Held(blocks') = Held(O) \cup Held(N)
  BY <1>1 DEF Held
<1>12. Held(O) \cap Held(I) = {} /\ Held(O) \cap Held(N) = {}
  <2>1. ASSUME NEW a \in Held(O)
        PROVE  ~(lo <= a /\ a < hi) /\ a \in Int
    BY <1>1, <1>2 DEF Held, Holds
  <2>2. ASSUME NEW a \in Held(I) \cup Held(N)
        PROVE  lo <= a /\ a < hi
    BY <1>1, <1>3, <1>4 DEF Held, Holds
  <2> QED
    BY <2>1, <2>2
<1>13. IsFiniteSet(Held(O)) /\ IsFiniteSet(Held(I)) /\ IsFiniteSet(Held(N))
  BY <1>6, <1>7, HeldFinite
<1>14. /\ Cardinality(Held(O)) \in Nat /\ Cardinality(Held(I)) \in Nat
       /\ Cardinality(Held(N)) \in Nat
  BY <1>13, FS_CardinalityType
<1>15. Cardinality(Held(blocks)) = Cardinality(Held(O)) + Cardinality(Held(I))
  BY <1>10, <1>12, <1>13, DisjointUnion
<1>16. Cardinality(Held(blocks')) = Cardinality(Held(O)) + Cardinality(Held(N))
  BY <1>11, <1>12, <1>13, DisjointUnion
<1>17. /\ Bytes(blocks') = Bytes(blocks) - Bytes(I) + Bytes(N)
       /\ Bytes(blocks) \in Nat /\ Bytes(I) \in Nat /\ Bytes(N) \in Nat
  BY <1>9, <1>14, <1>15, <1>16
<1> QED
  BY <1>17 DEF I

-----------------------------------------------------------------------------
(* Where records begin and end.                                            *)

\* A page boundary of the window, its end included.
Edge(x) == x \in Base .. Limit /\ x % PageSize = 0

Placed(B) == \A b \in B : Edge(b.lo) /\ Edge(b.hi)

Entries(S) == \A e \in S : e.lo \in Pages /\ e.lo < e.hi /\ e.writable \in BOOLEAN

\* A number is its page and its offset.
LEMMA Divides ==
  ASSUME NEW a \in Int
  PROVE  /\ a \div PageSize \in Int
         /\ a % PageSize = 0 => a = (a \div PageSize) * PageSize
<1>1. PageSize \in Int /\ 0 < PageSize
  BY MemoryConstants
<1>2. a \div PageSize \in Int
  BY <1>1
<1>3. a % PageSize = a - PageSize * (a \div PageSize)
  BY <1>1, Z3
<1>4. PageSize * (a \div PageSize) \in Int
  BY <1>1, <1>2
<1>5. (a \div PageSize) * PageSize = PageSize * (a \div PageSize)
  BY <1>1, <1>2
<1> QED
  BY <1>1, <1>2, <1>3, <1>4, <1>5

\* A multiple of the page size has no offset.
LEMMA Multiple ==
  ASSUME NEW q \in Int
  PROVE  (q * PageSize) % PageSize = 0 /\ q * PageSize \in Int
BY MemoryConstants

\* Of two multiples of the page size the smaller has the smaller factor.
LEMMA Closer ==
  ASSUME NEW q \in Int, NEW r \in Int, q * PageSize < r * PageSize + PageSize
  PROVE  q * PageSize <= r * PageSize
<1>1. PageSize \in Int /\ 0 < PageSize
  BY MemoryConstants
<1>2. CASE q <= r
  BY <1>1, <1>2
<1>3. CASE r + 1 <= q
  <2>1. (r + 1) * PageSize <= q * PageSize
    BY <1>1, <1>3
  <2>2. (r + 1) * PageSize = r * PageSize + PageSize
    BY <1>1
  <2> QED
    BY <1>1, <2>1, <2>2
<1> QED
  BY <1>2, <1>3

\* Rounding down stays in the window.
LEMMA DownEdge ==
  ASSUME NEW a \in Int, Base <= a, a < Limit
  PROVE  Edge(Down(a))
<1>1. Base \in Int /\ Limit \in Int /\ PageSize \in Int /\ Base % PageSize = 0
  BY MemoryConstants
<1>2. /\ a \div PageSize \in Int /\ Base \div PageSize \in Int
      /\ Base = (Base \div PageSize) * PageSize
  BY <1>1, Divides
<1>3. Down(a) = (a \div PageSize) * PageSize
  BY DEF Down
<1>4. Down(a) \in Int /\ Down(a) <= a /\ a < Down(a) + PageSize
  BY DownFacts
<1>5. Base <= Down(a)
  BY <1>1, <1>2, <1>3, <1>4, Closer
<1>6. Down(a) % PageSize = 0
  BY <1>2, <1>3, Multiple
<1> QED
  BY <1>1, <1>4, <1>5, <1>6 DEF Edge

\* Rounding up ends on a page.
LEMMA UpWhole ==
  ASSUME NEW a \in Int
  PROVE  Up(a) % PageSize = 0
<1>1. (a + PageSize - 1) \div PageSize \in Int
  BY Divides, MemoryConstants
<1>2. Up(a) = ((a + PageSize - 1) \div PageSize) * PageSize
  BY DEF Up, Down
<1> QED
  BY <1>1, <1>2, Multiple

\* Rounding up stays in the window.
LEMMA UpEdge ==
  ASSUME NEW a \in Int, Base <= a, a <= Limit
  PROVE  Edge(Up(a))
<1>1. Base \in Int /\ Limit \in Int /\ PageSize \in Int /\ Limit % PageSize = 0
  BY MemoryConstants
<1>2. Limit \div PageSize \in Int /\ Limit = (Limit \div PageSize) * PageSize
  BY <1>1, Divides
<1>3. (a + PageSize - 1) \div PageSize \in Int
  BY <1>1, Divides
<1>4. Up(a) = ((a + PageSize - 1) \div PageSize) * PageSize
  BY DEF Up, Down
<1>5. a + PageSize - 1 \in Int /\ Up(a) = Down(a + PageSize - 1)
  BY <1>1 DEF Up
<1>6. Up(a) \in Int /\ a <= Up(a) /\ Up(a) <= a + PageSize - 1
  BY <1>5, DownFacts, UpFacts
<1>7. Up(a) <= Limit
  <2>1. Up(a) < Limit + PageSize
    BY <1>1, <1>6
  <2> QED
    BY <1>2, <1>3, <1>4, <2>1, Closer
<1> QED
  BY <1>1, <1>6, <1>7, UpWhole DEF Edge

\* An edge before the end is a page.
LEMMA EdgeIsPage ==
  ASSUME NEW x, Edge(x), x < Limit
  PROVE  x \in Pages
BY MemoryConstants DEF Edge, Pages

\* Records at page boundaries are the records of the type.
LEMMA PlacedAreRecords ==
  ASSUME NEW B, Proper(B), Placed(B)
  PROVE  B \subseteq Records /\ \A b \in B : b.lo < b.hi /\ b.hi % PageSize = 0 /\ b.lo \in Pages
<1> SUFFICES ASSUME NEW b \in B
             PROVE  b \in Records /\ b.lo < b.hi /\ b.hi % PageSize = 0 /\ b.lo \in Pages
  OBVIOUS
<1>1. b \in Rec /\ b.lo < b.hi /\ Edge(b.lo) /\ Edge(b.hi)
  BY DEF Proper, Placed
<1>2. Base \in Int /\ Limit \in Int
  BY MemoryConstants
<1>3. b.lo \in Pages /\ b.hi \in Base + 1 .. Limit /\ b.hi % PageSize = 0
  BY <1>1, <1>2, EdgeIsPage DEF Edge
<1>4. b \in Records
  BY <1>1, <1>3 DEF Rec, Records, Flags
<1> QED
  BY <1>1, <1>3, <1>4

\* What lies inside a range of pages begins and ends on pages.
LEMMA InsidePlaced ==
  ASSUME Proper(blocks), Placed(blocks), NEW lo, NEW hi, Edge(lo), Edge(hi)
  PROVE  Placed(Inside(lo, hi))
<1>1. lo \in Int /\ hi \in Int
  BY MemoryConstants DEF Edge
<1> SUFFICES ASSUME NEW d \in Inside(lo, hi)
             PROVE  Edge(d.lo) /\ Edge(d.hi)
  BY DEF Placed
<1>2. PICK c \in blocks : d = Clamp(c, lo, hi)
  BY <1>1, InsideFacts
<1>3. d.lo = Greater(c.lo, lo) /\ d.hi = Lesser(c.hi, hi)
  BY <1>1, <1>2, Clamped DEF Proper
<1> QED
  BY <1>3 DEF Placed, Greater, Lesser

\* Replacing a range of pages keeps records on pages.
LEMMA ReplacePlaced ==
  ASSUME IInv, Placed(blocks), NEW N, NEW lo, NEW hi, Replaces(N, lo, hi),
         Placed(N), Edge(lo), Edge(hi)
  PROVE  Placed(blocks')
<1>1. /\ lo \in Int /\ hi \in Int /\ Proper(blocks) /\ blocks' = Outside(lo, hi) \cup N
  BY DEF IInv, Replaces
<1> SUFFICES ASSUME NEW d \in Outside(lo, hi)
             PROVE  Edge(d.lo) /\ Edge(d.hi)
  BY <1>1 DEF Placed
<1>2. PICK c \in blocks : d = c \/ d = Below(c, lo) \/ d = Above(c, hi)
  BY OutsideKinds
<1>3. c \in Rec /\ Edge(c.lo) /\ Edge(c.hi)
  BY <1>1 DEF Proper, Placed
<1>4. Below(c, lo).lo = c.lo /\ Below(c, lo).hi = lo
  BY <1>1, <1>3, Ended
<1>5. Above(c, hi).lo = hi /\ Above(c, hi).hi = c.hi
  BY <1>1, <1>3, Started
<1> QED
  BY <1>2, <1>3, <1>4, <1>5

\* A snapshot of such records.
LEMMA RebuiltEntries ==
  ASSUME NEW B, Proper(B), Placed(B)
  PROVE  Entries(Rebuilt(B))
<1>1. \A b \in B : b.lo \in Pages /\ b.lo < b.hi /\ Writable(b) \in BOOLEAN
  BY PlacedAreRecords DEF Writable
<1> SUFFICES ASSUME NEW e \in Rebuilt(B)
             PROVE  e.lo \in Pages /\ e.lo < e.hi /\ e.writable \in BOOLEAN
  BY DEF Entries
<1>2. PICK b \in B : e = [lo |-> b.lo, hi |-> b.hi, writable |-> Writable(b)]
  BY DEF Rebuilt, ExecBlocks
<1> QED
  BY <1>1, <1>2

-----------------------------------------------------------------------------
(* The books, typed and counted.                                           *)

Shape ==
  /\ initialized \in BOOLEAN
  /\ ~initialized => blocks = {}
  /\ programBreak \in Breaks \cup {0}
  /\ initialized /\ programBreak # 0 => Base <= Up(programBreak)
  /\ prot \in [Pages -> SUBSET {"r", "w", "x"}]
  /\ Entries(snapshot)
  /\ notified \subseteq Pages
  /\ asked.pages \subseteq Pages

BooksInv == IInv /\ Placed(blocks) /\ BytesCounted /\ Shape

\* What a call adds to the count when it replaces the records of a range.
LEMMA ReplaceBooks ==
  ASSUME BooksInv, NEW N, NEW lo, NEW hi, Edge(lo), Edge(hi), Replaces(N, lo, hi), Placed(N),
         allocatedBytes' = allocatedBytes - Bytes(Inside(lo, hi)) + Bytes(N)
  PROVE  Proper(blocks') /\ Placed(blocks') /\ BytesCounted'
<1>1. IInv /\ Placed(blocks) /\ allocatedBytes = Bytes(blocks)
  BY DEF BooksInv, BytesCounted
<1>2. Placed(blocks') /\ Proper(blocks')
  BY <1>1, ReplacePlaced, ReplaceKeeps
<1>3. allocatedBytes' = Bytes(blocks')
  BY <1>1, ReplaceCounts
<1> QED
  BY <1>2, <1>3 DEF BytesCounted

\* MapMemoryImpl_Unlocked.
LEMMA MapBooks ==
  ASSUME BooksInv, NEW lo, NEW hi, Edge(lo), Edge(hi), lo < hi, NEW flags \in Flags,
         NEW tag \in Tags \cup {BrkTag}, MapPages(lo, hi, flags, tag)
  PROVE  /\ Placed(blocks') /\ BytesCounted'
         /\ prot' \in [Pages -> SUBSET {"r", "w", "x"}] /\ Entries(snapshot')
         /\ notified' \subseteq Pages
<1> DEFINE n == [lo |-> lo, hi |-> hi, flags |-> HostFlags(flags), tag |-> tag]
<1>1. lo \in Int /\ hi \in Int
  BY MemoryConstants DEF Edge
<1>2. Replaces({n}, lo, hi)
  BY <1>1, MapReplaces
<1>3. n \in Rec /\ n.lo = lo /\ n.hi = hi
  BY <1>1, FlagFacts DEF Rec
<1>4. allocatedBytes' = allocatedBytes - Bytes(Inside(lo, hi)) + (hi - lo)
  BY DEF MapPages
<1> HIDE DEF n
<1>5. Placed({n})
  BY <1>3 DEF Placed
<1>6. Bytes({n}) = hi - lo
  <2>1. Proper({n}) /\ IsFiniteSet({n})
    BY <1>3, FS_Singleton DEF Proper
  <2>2. Bytes({n}) = Cardinality(Held({n}))
    BY <2>1, BytesAreHeld
  <2> QED
    BY <1>3, <2>2, HeldOne DEF Length
<1>7. Proper(blocks') /\ Placed(blocks') /\ BytesCounted'
  BY <1>2, <1>4, <1>5, <1>6, ReplaceBooks
<1>8. prot' \in [Pages -> SUBSET {"r", "w", "x"}]
  BY FlagFacts DEF MapPages, Protected, BooksInv, Shape
<1>9. notified' \subseteq Pages
  BY PageFacts DEF MapPages, ExecOverlaps
<1>10. Entries(snapshot')
  BY <1>7, RebuiltEntries DEF MapPages
<1> QED
  BY <1>7, <1>8, <1>9, <1>10

\* UnmapMemory, a shrink, and what of them has been done when an mprotect fails.
LEMMA UnmapBooks ==
  ASSUME BooksInv, NEW lo, NEW hi, Edge(lo), Edge(hi), Unmapped(lo, hi)
  PROVE  /\ Proper(blocks') /\ Placed(blocks') /\ BytesCounted'
         /\ prot' \in [Pages -> SUBSET {"r", "w", "x"}]
<1>1. lo \in Int /\ hi \in Int
  BY MemoryConstants DEF Edge
<1>2. Replaces({}, lo, hi)
  BY <1>1, UnmapReplaces DEF BooksInv, IInv
<1>3. IInv
  BY DEF BooksInv
<1>4. Bytes({}) = 0
  BY BytesNone
<1>5. allocatedBytes' = allocatedBytes - Bytes(Inside(lo, hi)) + Bytes({})
  <2>1. allocatedBytes = Bytes(blocks) /\ Bytes(blocks) \in Nat /\ Bytes(Inside(lo, hi)) \in Nat
    BY <1>2, <1>3, ReplaceCounts DEF BooksInv, BytesCounted
  <2>2. allocatedBytes' = allocatedBytes - Bytes(Inside(lo, hi))
    BY DEF Unmapped
  <2> QED
    BY <1>4, <2>1, <2>2
<1>6. Placed({})
  BY DEF Placed
<1>7. Proper(blocks') /\ Placed(blocks') /\ BytesCounted'
  BY <1>2, <1>5, <1>6, ReplaceBooks
<1>8. prot' \in [Pages -> SUBSET {"r", "w", "x"}]
  BY DEF Unmapped, BooksInv, Shape
<1> QED
  BY <1>7, <1>8

\* ProtectMemory keeps the count: the pieces have the lengths they had.
LEMMA ProtectBooks ==
  ASSUME BooksInv, NEW lo, NEW hi, Edge(lo), Edge(hi), NEW flags \in Flags,
         prot' = Protected(lo, hi, HostFlags(flags)), allocatedBytes' = allocatedBytes,
         blocks' = Outside(lo, hi) \cup {[b EXCEPT !.flags = flags] : b \in Inside(lo, hi)}
  PROVE  Proper(blocks') /\ Placed(blocks') /\ BytesCounted'
<1> DEFINE Paint(b) == [b EXCEPT !.flags = flags]
           N == {Paint(b) : b \in Inside(lo, hi)}
<1>1. lo \in Int /\ hi \in Int /\ IInv /\ Proper(blocks) /\ Placed(blocks)
      /\ RecordsDisjoint /\ IsFiniteSet(blocks)
  BY MemoryConstants DEF Edge, BooksInv, IInv
<1>2. Replaces(N, lo, hi)
  BY <1>1, ProtectReplaces
<1>3. \A b \in Inside(lo, hi) : /\ b \in Rec /\ b.lo < b.hi
                                /\ Paint(b).lo = b.lo /\ Paint(b).hi = b.hi
  BY <1>1, InsideFacts, Painted
<1> HIDE DEF Paint
<1>4. Placed(N)
  BY <1>1, <1>3, InsidePlaced DEF Placed
<1>5. Held(N) = Held(Inside(lo, hi))
  BY <1>3 DEF Held, Holds
<1>6. Bytes(N) = Bytes(Inside(lo, hi))
  <2>1. Fill(N, lo, hi)
    BY <1>2 DEF Replaces
  <2>2. Proper(N) /\ IsFiniteSet(N) /\ \A b, c \in N : b # c => Apart(b, c)
    BY <2>1 DEF Fill, Proper
  <2>3. Proper(Inside(lo, hi)) /\ IsFiniteSet(Inside(lo, hi))
    BY <1>1, <1>3, CutFinite DEF Proper
  <2>4. \A b, c \in Inside(lo, hi) : b # c => Apart(b, c)
    BY <1>1, InsideApart
  <2>5. Bytes(N) = Cardinality(Held(N))
    BY <2>2, BytesAreHeld
  <2>6. Bytes(Inside(lo, hi)) = Cardinality(Held(Inside(lo, hi)))
    BY <2>3, <2>4, BytesAreHeld
  <2> QED
    BY <1>5, <2>5, <2>6
<1>7. allocatedBytes' = allocatedBytes - Bytes(Inside(lo, hi)) + Bytes(N)
  <2>1. allocatedBytes = Bytes(blocks) /\ Bytes(blocks) \in Nat /\ Bytes(Inside(lo, hi)) \in Nat
    BY <1>1, <1>2, ReplaceCounts DEF BooksInv, BytesCounted
  <2> QED
    BY <1>6, <2>1
<1> HIDE DEF N
<1> QED
  BY <1>2, <1>4, <1>7, ReplaceBooks

\* The range of a call that fits the window consists of its pages.
LEMMA FittingRange ==
  ASSUME NEW va \in Int, NEW size \in Int, 0 < size, InWindow(va, size)
  PROVE  Edge(Down(va)) /\ Edge(Up(va + size)) /\ Down(va) < Up(va + size)
<1>1. Base \in Int /\ Limit \in Int /\ Base <= va /\ va < Limit /\ va + size <= Limit
  BY MemoryConstants DEF InWindow
<1>2. va + size \in Int /\ Base <= va + size
  BY <1>1
<1>3. Edge(Down(va))
  BY <1>1, DownEdge
<1>4. Edge(Up(va + size))
  BY <1>1, <1>2, UpEdge
<1> QED
  BY <1>3, <1>4, Ranges

\* The pages a call names.
LEMMA AskedPages ==
  ASSUME NEW op, NEW lo, NEW hi, Ask(op, lo, hi)
  PROVE  asked'.pages \subseteq Pages
BY PageFacts DEF Ask

\* MemoryManager's calls on ranges.
LEMMA RangeBooks ==
  ASSUME BooksInv, NEW va \in Addresses, NEW size \in Sizes,
         \/ \E flags \in FlagSets :
              (\E tag \in Tags : MapMemory(va, size, flags, tag)) \/ ProtectMemory(va, size, flags)
         \/ UnmapMemory(va, size) \/ UnmapFails(va, size)
  PROVE  Placed(blocks') /\ BytesCounted' /\ Shape'
<1>1. va \in Int /\ size \in Nat /\ Greater(size, 1) \in Nat \ {0}
  BY Arguments
<1>2. IInv /\ Shape /\ Proper(blocks) /\ Placed(blocks)
  BY DEF BooksInv, IInv
<1>3. FlagSets \subseteq Flags
  BY DEF Flags
<1>4. ASSUME NEW flags \in FlagSets, NEW tag \in Tags, MapMemory(va, size, flags, tag)
      PROVE  Placed(blocks') /\ BytesCounted' /\ Shape'
  <2>1. Edge(Down(va)) /\ Edge(Up(va + size)) /\ Down(va) < Up(va + size)
    BY <1>1, <1>4, FittingRange DEF MapMemory
  <2>2. /\ MapPages(Down(va), Up(va + size), flags, tag)
        /\ Ask("map", Down(va), Up(va + size)) /\ UNCHANGED <<initialized, programBreak>>
        /\ initialized
    BY <1>4 DEF MapMemory
  <2>3. /\ Placed(blocks') /\ BytesCounted'
        /\ prot' \in [Pages -> SUBSET {"r", "w", "x"}] /\ Entries(snapshot')
        /\ notified' \subseteq Pages
    BY <1>3, <2>1, <2>2, MapBooks
  <2>4. asked'.pages \subseteq Pages
    BY <2>2, AskedPages
  <2> QED
    BY <1>2, <2>2, <2>3, <2>4 DEF Shape
<1>5. ASSUME NEW flags \in FlagSets, ProtectMemory(va, size, flags)
      PROVE  Placed(blocks') /\ BytesCounted' /\ Shape'
  <2> DEFINE lo == Down(va)
             hi == Up(va + Greater(size, 1))
  <2>1. Edge(lo) /\ Edge(hi)
    BY <1>1, <1>5, FittingRange DEF ProtectMemory
  <2>2. /\ prot' = Protected(lo, hi, HostFlags(flags)) /\ allocatedBytes' = allocatedBytes
        /\ blocks' = Outside(lo, hi) \cup {[b EXCEPT !.flags = flags] : b \in Inside(lo, hi)}
        /\ notified' = (IF "w" \in flags THEN {} ELSE ExecOverlaps(lo, hi))
        /\ Ask("protect", lo, hi) /\ snapshot' = Rebuilt(blocks')
        /\ initialized /\ UNCHANGED <<initialized, programBreak>>
    BY <1>5 DEF ProtectMemory
  <2> HIDE DEF lo, hi
  <2>3. Proper(blocks') /\ Placed(blocks') /\ BytesCounted'
    BY <1>3, <2>1, <2>2, ProtectBooks
  <2>4. Entries(snapshot') /\ asked'.pages \subseteq Pages /\ notified' \subseteq Pages
    BY <2>2, <2>3, RebuiltEntries, AskedPages, PageFacts DEF ExecOverlaps
  <2>5. prot' \in [Pages -> SUBSET {"r", "w", "x"}]
    BY <1>2, <1>3, <2>2, FlagFacts DEF Protected, Shape
  <2> QED
    BY <1>2, <2>2, <2>3, <2>4, <2>5 DEF Shape
<1>6. CASE UnmapMemory(va, size)
  <2> DEFINE lo == Down(va)
             hi == Up(va + size)
  <2>1. Edge(lo) /\ Edge(hi)
    BY <1>1, <1>6, FittingRange DEF UnmapMemory
  <2>2. /\ Unmapped(lo, hi) /\ notified' = ExecOverlaps(lo, hi) /\ Ask("unmap", lo, hi)
        /\ snapshot' = (IF Inside(lo, hi) = {} THEN snapshot ELSE Rebuilt(blocks'))
        /\ initialized /\ UNCHANGED <<initialized, programBreak>>
    BY <1>6 DEF UnmapMemory
  <2> HIDE DEF lo, hi
  <2>3. /\ Proper(blocks') /\ Placed(blocks') /\ BytesCounted'
        /\ prot' \in [Pages -> SUBSET {"r", "w", "x"}]
    BY <2>1, <2>2, UnmapBooks
  <2>4. Entries(snapshot')
    BY <1>2, <2>2, <2>3, RebuiltEntries DEF Shape
  <2>5. asked'.pages \subseteq Pages /\ notified' \subseteq Pages
    BY <2>2, AskedPages, PageFacts DEF ExecOverlaps
  <2> QED
    BY <1>2, <2>2, <2>3, <2>4, <2>5 DEF Shape
<1>7. CASE UnmapFails(va, size)
  <2> DEFINE lo == Down(va)
             hi == Up(va + size)
  <2>1. Edge(lo) /\ Edge(hi)
    BY <1>1, <1>7, FittingRange DEF UnmapFails
  <2>2. /\ \E b \in Inside(lo, hi) : Unmapped(lo, b.lo)
        /\ Ask("failed", lo, hi) /\ notified' = {}
        /\ initialized /\ UNCHANGED <<initialized, programBreak, snapshot>>
    BY <1>7 DEF UnmapFails
  <2> HIDE DEF lo, hi
  <2>3. PICK b \in Inside(lo, hi) : Unmapped(lo, b.lo)
    BY <2>2
  <2>4. Edge(b.lo)
    BY <1>2, <2>1, InsidePlaced DEF Placed
  <2>5. /\ Placed(blocks') /\ BytesCounted'
        /\ prot' \in [Pages -> SUBSET {"r", "w", "x"}]
    BY <2>1, <2>3, <2>4, UnmapBooks
  <2>6. asked'.pages \subseteq Pages
    BY <2>2, AskedPages
  <2> QED
    BY <1>2, <2>2, <2>5, <2>6 DEF Shape
<1> QED
  BY <1>4, <1>5, <1>6, <1>7

\* SetBrk and the loader's SetProgramBreak.
LEMMA BreakBooks ==
  ASSUME BooksInv, NEW a \in Breaks,
         SetProgramBreak(a) \/ BrkGrow(a) \/ BrkShrink(a) \/ BrkShrinkFails(a) \/ BrkStays(a)
  PROVE  Placed(blocks') /\ BytesCounted' /\ Shape'
<1>1. a \in Int /\ Up(a) \in Int /\ a <= Up(a) /\ Base \in Int /\ Limit \in Int
      /\ Limit % PageSize = 0
  BY Arguments, UpFacts, MemoryConstants
<1>2. IInv /\ Shape /\ Proper(blocks) /\ Placed(blocks) /\ programBreak \in Int /\ BytesCounted
  BY DEF BooksInv, IInv
<1>3. Up(programBreak) \in Int
  BY <1>2, UpFacts
<1>4. ASSUME BrkAllowed(a)
      PROVE  /\ initialized /\ Base <= Up(programBreak)
             /\ Base <= Up(a) /\ Up(a) < Limit /\ Edge(Up(a))
  BY <1>1, <1>2, <1>4, UpWhole DEF BrkAllowed, Shape, Edge
<1>5. CASE SetProgramBreak(a)
  <2>1. initialized => Base <= Up(a)
    BY <1>1, <1>5 DEF SetProgramBreak
  <2>2. /\ notified' = {} /\ asked'.pages = {} /\ programBreak' = a
        /\ UNCHANGED <<initialized, blocks, allocatedBytes, prot, snapshot>>
    BY <1>5 DEF SetProgramBreak, AskNothing
  <2> QED
    BY <1>2, <2>1, <2>2 DEF Shape, BytesCounted
<1>6. CASE BrkStays(a)
  <2>1. initialized => Base <= Up(a)
    BY <1>4, <1>6 DEF BrkStays
  <2>2. /\ notified' = {} /\ asked'.pages = {} /\ programBreak' = a
        /\ UNCHANGED <<initialized, blocks, allocatedBytes, prot, snapshot>>
    BY <1>6 DEF BrkStays, AskNothing
  <2> QED
    BY <1>2, <2>1, <2>2 DEF Shape, BytesCounted
<1>7. CASE BrkGrow(a)
  <2>1. BrkAllowed(a) /\ Up(programBreak) < Up(a)
    BY <1>1, <1>3, <1>7 DEF BrkGrow
  <2>2. /\ MapPages(Up(programBreak), Up(a), {"r", "w"}, BrkTag)
        /\ Ask("grow", Up(programBreak), Up(a)) /\ programBreak' = a /\ UNCHANGED initialized
    BY <1>7 DEF BrkGrow
  <2>3. Edge(Up(programBreak))
    BY <1>1, <1>2, <1>3, <1>4, <2>1, UpWhole DEF Edge
  <2>4. {"r", "w"} \in Flags
    BY DEF Flags
  <2>5. /\ Placed(blocks') /\ BytesCounted'
        /\ prot' \in [Pages -> SUBSET {"r", "w", "x"}] /\ Entries(snapshot')
        /\ notified' \subseteq Pages
    BY <1>4, <2>1, <2>2, <2>3, <2>4, MapBooks
  <2>6. asked'.pages \subseteq Pages
    BY <2>2, AskedPages
  <2> QED
    BY <1>2, <1>4, <2>1, <2>2, <2>5, <2>6 DEF Shape
<1>8. CASE BrkShrink(a) \/ BrkShrinkFails(a)
  <2>1. BrkAllowed(a)
    BY <1>8 DEF BrkShrink, BrkShrinkFails
  <2>2. PICK hi : Edge(hi) /\ Unmapped(Up(a), hi)
    <3>1. \A end \in Up(a) .. Limit : end % PageSize = 0 => Edge(end)
      BY <1>1, <1>4, <2>1 DEF Edge
    <3>2. CASE BrkShrink(a)
      BY <3>1, <3>2 DEF BrkShrink, IsBrkEnd
    <3>3. CASE BrkShrinkFails(a)
      <4>1. PICK end \in Up(a) .. Limit :
              \E b \in Inside(Up(a), end) : IsBrkEnd(Up(a), end) /\ Unmapped(Up(a), b.lo)
        BY <3>3 DEF BrkShrinkFails
      <4>2. PICK b \in Inside(Up(a), end) : IsBrkEnd(Up(a), end) /\ Unmapped(Up(a), b.lo)
        BY <4>1
      <4>3. Edge(end)
        BY <3>1, <4>2 DEF IsBrkEnd
      <4>4. Edge(b.lo)
        BY <1>2, <1>4, <2>1, <4>3, InsidePlaced DEF Placed
      <4> QED
        BY <4>2, <4>4
    <3> QED
      BY <1>8, <3>2, <3>3
  <2>3. /\ Placed(blocks') /\ BytesCounted'
        /\ prot' \in [Pages -> SUBSET {"r", "w", "x"}]
    BY <1>4, <2>1, <2>2, UnmapBooks
  <2>4. /\ notified' = {} /\ Ask("shrink", Up(a), Limit) /\ UNCHANGED <<initialized, snapshot>>
        /\ programBreak' \in {programBreak, a}
    BY <1>8 DEF BrkShrink, BrkShrinkFails
  <2>5. asked'.pages \subseteq Pages
    BY <2>4, AskedPages
  <2>6. programBreak' # 0 => Base <= Up(programBreak')
    BY <1>4, <2>1, <2>4
  <2>7. programBreak' \in Breaks \cup {0}
    BY <1>2, <2>4 DEF Shape
  <2> QED
    BY <1>2, <1>4, <2>1, <2>3, <2>4, <2>5, <2>6, <2>7 DEF Shape
<1> QED
  BY <1>5, <1>6, <1>7, <1>8

\* Every step keeps the books.
LEMMA BooksKept ==
  ASSUME BooksInv, [Next]_vars
  PROVE  BooksInv'
<1>1. IInv'
  BY Kept DEF BooksInv
<1>2. IInv /\ Shape /\ Proper(blocks) /\ Placed(blocks) /\ BytesCounted
  BY DEF BooksInv, IInv
<1>3. CASE UNCHANGED vars
  BY <1>2, <1>3 DEF vars, Shape, BytesCounted, BooksInv, IInv, Proper, RecordsDisjoint,
                    RecordsApplied, Record
<1>4. CASE Refused
  BY <1>1, <1>2, <1>4 DEF Refused, AskNothing, BooksInv, Shape, BytesCounted
<1>5. CASE Shutdown
  <2>1. Entries({}) /\ Placed({})
    BY DEF Entries, Placed
  <2>2. Shape'
    BY <1>2, <1>5, <2>1 DEF Shutdown, AskNothing, Shape
  <2>3. Placed(blocks') /\ BytesCounted'
    BY <1>5, <2>1, BytesNone DEF Shutdown, BytesCounted
  <2> QED
    BY <1>1, <2>2, <2>3 DEF BooksInv
<1>6. CASE Initialize
  <2>1. blocks = {} /\ blocks' = {} /\ allocatedBytes' = 0
    BY <1>2, <1>6 DEF Initialize, Shape
  <2>2. Entries(snapshot')
    BY <1>2, <1>6, RebuiltEntries DEF Initialize
  <2>3. Shape'
    BY <1>2, <1>6, <2>2 DEF Initialize, AskNothing, Shape
  <2>4. Placed(blocks') /\ BytesCounted'
    BY <2>1, BytesNone DEF BytesCounted, Placed
  <2> QED
    BY <1>1, <2>3, <2>4 DEF BooksInv
<1>7. ASSUME NEW va \in Addresses, NEW size \in Sizes,
             \/ \E flags \in FlagSets :
                  (\E tag \in Tags : MapMemory(va, size, flags, tag)) \/ ProtectMemory(va, size, flags)
             \/ UnmapMemory(va, size) \/ UnmapFails(va, size)
      PROVE  BooksInv'
  BY <1>1, <1>7, RangeBooks DEF BooksInv
<1>8. ASSUME NEW a \in Breaks,
             SetProgramBreak(a) \/ BrkGrow(a) \/ BrkShrink(a) \/ BrkShrinkFails(a) \/ BrkStays(a)
      PROVE  BooksInv'
  BY <1>1, <1>8, BreakBooks DEF BooksInv
<1> QED
  BY <1>3, <1>4, <1>5, <1>6, <1>7, <1>8 DEF Next

\* The records are typed, never overlap, say what the host applies, and are as long
\* together as the byte count, for any window, any page size and any sequence of
\* calls, also of calls that failed half way (MapMemoryImpl_Unlocked, UnmapMemory,
\* ProtectMemory, SetBrk, Shutdown, Initialize).
THEOREM BooksAgree == Spec => []RecordsAgree
<1>1. Init => BooksInv
  <2> SUFFICES ASSUME Init
               PROVE  BooksInv
    OBVIOUS
  <2>1. IInv
    BY FS_EmptySet DEF Init, IInv, Proper, RecordsDisjoint, RecordsApplied, Record
  <2>2. Placed(blocks) /\ BytesCounted
    BY BytesNone DEF Init, Placed, BytesCounted
  <2>3. Shape
    BY DEF Init, Shape, Entries
  <2> QED
    BY <2>1, <2>2, <2>3 DEF BooksInv
<1>2. BooksInv /\ [Next]_vars => BooksInv'
  BY BooksKept
<1>3. BooksInv => RecordsAgree
  <2> SUFFICES ASSUME BooksInv
               PROVE  RecordsAgree
    OBVIOUS
  <2>1. IInv /\ Shape /\ Proper(blocks) /\ Placed(blocks) /\ BytesCounted
    BY DEF BooksInv, IInv
  <2>2. /\ blocks \subseteq Records
        /\ \A b \in blocks : b.lo < b.hi /\ b.hi % PageSize = 0
    BY <2>1, PlacedAreRecords
  <2>3. allocatedBytes \in Nat
    <3>1. \A b, c \in blocks : b # c => Apart(b, c)
      BY <2>1 DEF IInv, RecordsDisjoint, Apart
    <3>2. Bytes(blocks) = Cardinality(Held(blocks)) /\ IsFiniteSet(Held(blocks))
      BY <2>1, <3>1, BytesAreHeld, HeldFinite DEF IInv
    <3> QED
      BY <2>1, <3>2, FS_CardinalityType DEF BytesCounted
  <2>4. TypeOK
    BY <2>1, <2>2, <2>3 DEF Shape, Entries, TypeOK
  <2> QED
    BY <2>1, <2>4 DEF RecordsAgree, IInv
<1> QED
  BY <1>1, <1>2, <1>3, PTL DEF Spec

-----------------------------------------------------------------------------
(* Audio output ports.  A call finds out about its port in one step and    *)
(* acts on it in a later one, with the player mutexes held and the table's *)
(* mutex free; the invariant says what it found out stays true meanwhile.  *)

PortRec == [used : BOOLEAN, len : Nat, sink : BOOLEAN, streams : 0 .. 2, queued : Int]
PlayRec == [pc : {"idle", "enter", "turn", "sleep", "drain", "push"}, todo : Seq(Items), wait : Nat]

\* The places of a call that holds the mutexes.
InPlay == {"turn", "sleep", "drain", "push"}

\* What a port has queued is within its bounds.
PortOk(q) ==
  \/ q = Unused
  \/ /\ q.used /\ q.len \in Lengths
     /\ q.sink => 0 <= q.queued /\ q.queued <= RingUnits /\ q.queued <= q.len + MinQueued(q.len)
     /\ ~q.sink => -MaxLate <= q.queued /\ q.queued <= q.len + Target

\* A call has blocks left while it plays one, and none when it does not play.
TodoOk(c) ==
  /\ c.pc \notin InPlay => c.todo = <<>>
  /\ c.pc \in InPlay \ {"turn"} => c.todo # <<>>
  /\ Len(c.todo) <= MaxCall

\* The ports of the blocks that are left are used.
Named(c, P) == \A i \in 1 .. Len(c.todo) : P[c.todo[i].port].used

\* What a call has found out about its port holds until it takes its block: a port
\* that paces will be at the latency target when the sleep is over, and a ring that has
\* drained keeps the room.
Paced(c, P) ==
  LET q == P[Head(c.todo).port]
      data == Head(c.todo).data
  IN /\ c.pc = "sleep" => ~q.sink /\ (data => q.queued - c.wait <= Target)
     /\ c.pc \in {"drain", "push"} => q.sink /\ data
     /\ c.pc = "push" => q.queued <= MinQueued(q.len)

PortsOk(P) == P \in [Ports -> PortRec] /\ \A p \in Ports : PortOk(P[p])

CallOk(c, P) == c \in PlayRec /\ TodoOk(c) /\ Named(c, P) /\ Paced(c, P)

AudioInv ==
  /\ PortsOk(ports)
  /\ call \in [Threads -> PlayRec]
  /\ \A t \in Threads : CallOk(call[t], ports)
  /\ playing \in Threads \cup {None}
  /\ \A t \in Threads : call[t].pc \in InPlay <=> playing = t
  /\ factory \in BOOLEAN /\ orphaned \in BOOLEAN /\ crashed \in BOOLEAN

-----------------------------------------------------------------------------
(* Ports and calls.                                                        *)

\* The drain wait's target is a number of units.
LEMMA MinQueuedNat ==
  ASSUME NEW len \in Lengths
  PROVE  len \in Nat /\ 0 < len /\ MinQueued(len) \in Nat
<1>1. len \in Nat /\ 0 < len /\ Target \in Nat
  BY AudioConstants
<1>2. (Target + len - 1) \div len \in Int
  BY <1>1
<1>3. Buffers(len) \in Nat
  BY <1>2 DEF Buffers
<1> QED
  BY <1>1, <1>3 DEF MinQueued

\* The thread that plays is no other, and nobody plays while the mutexes are free.
LEMMA OnePlays ==
  ASSUME AudioInv
  PROVE  /\ playing = None => \A t \in Threads : call[t].pc \notin InPlay /\ call[t].todo = <<>>
         /\ \A t, u \in Threads : call[t].pc \in InPlay /\ u # t =>
              call[u].pc \notin InPlay /\ call[u].todo = <<>>
<1>1. \A t \in Threads : call[t].pc \in InPlay <=> playing = t
  BY DEF AudioInv
<1>2. \A t \in Threads : TodoOk(call[t]) /\ t # None
  BY AudioConstants DEF AudioInv, CallOk
<1> QED
  BY <1>1, <1>2 DEF TodoOk

\* A call that does not play promises nothing about ports.
LEMMA NotPlaying ==
  ASSUME NEW c \in PlayRec, TodoOk(c), c.pc \notin InPlay, NEW P
  PROVE  CallOk(c, P)
<1>1. c.todo = <<>> /\ Len(c.todo) = 0
  BY DEF TodoOk
<1>2. c.pc \notin {"sleep", "drain", "push"}
  BY DEF InPlay
<1> QED
  BY <1>1, <1>2 DEF CallOk, Named, Paced

\* The table changes only while nobody plays.
LEMMA TableChanges ==
  ASSUME AudioInv, playing = None, PortsOk(ports'), UNCHANGED <<playing, call>>,
         factory' \in BOOLEAN, orphaned' \in BOOLEAN, crashed' \in BOOLEAN
  PROVE  AudioInv'
<1>1. ASSUME NEW t \in Threads
      PROVE  CallOk(call'[t], ports')
  <2>1. call[t] \in PlayRec /\ TodoOk(call[t]) /\ call[t].pc \notin InPlay
    BY OnePlays DEF AudioInv, CallOk
  <2> QED
    BY <2>1, NotPlaying
<1> QED
  BY <1>1 DEF AudioInv

\* A call of one thread moves on.
LEMMA CallMoves ==
  ASSUME AudioInv, NEW t \in Threads, call' \in [Threads -> PlayRec],
         \A u \in Threads \ {t} : call'[u] = call[u],
         PortsOk(ports'), CallOk(call'[t], ports'),
         ports' = ports \/ \A u \in Threads \ {t} : call[u].pc \notin InPlay,
         playing' \in Threads \cup {None},
         call'[t].pc \in InPlay <=> playing' = t,
         \A u \in Threads \ {t} : playing' = u <=> playing = u,
         UNCHANGED <<factory, orphaned, crashed>>
  PROVE  AudioInv'
<1>1. ASSUME NEW u \in Threads
      PROVE  CallOk(call'[u], ports') /\ (call'[u].pc \in InPlay <=> playing' = u)
  <2>1. CASE u = t
    BY <2>1
  <2>2. CASE u # t
    <3>1. call'[u] = call[u] /\ CallOk(call[u], ports)
      BY <2>2 DEF AudioInv
    <3>2. CallOk(call[u], ports')
      <4>1. CASE ports' = ports
        BY <3>1, <4>1
      <4>2. CASE call[u].pc \notin InPlay
        BY <3>1, <4>2, NotPlaying DEF CallOk
      <4> QED
        BY <2>2, <4>1, <4>2
    <3> QED
      BY <2>2, <3>1, <3>2 DEF AudioInv
  <2> QED
    BY <2>1, <2>2
<1> QED
  BY <1>1 DEF AudioInv

\* The fields of a port whose queue changes.
LEMMA Queued ==
  ASSUME NEW P \in [Ports -> PortRec], NEW p \in Ports, NEW n \in Int
  PROVE  /\ [P EXCEPT ![p].queued = n] \in [Ports -> PortRec]
         /\ [P EXCEPT ![p].queued = n][p].queued = n
         /\ \A x \in Ports : /\ [P EXCEPT ![p].queued = n][x].used = P[x].used
                             /\ [P EXCEPT ![p].queued = n][x].len = P[x].len
                             /\ [P EXCEPT ![p].queued = n][x].sink = P[x].sink
         /\ \A x \in Ports \ {p} : [P EXCEPT ![p].queued = n][x] = P[x]
BY DEF PortRec

\* The block that a call is about to take.
LEMMA ItemFacts ==
  ASSUME NEW c \in PlayRec, c.todo # <<>>, NEW P, Named(c, P)
  PROVE  /\ Head(c.todo).port \in Ports /\ Head(c.todo).data \in BOOLEAN
         /\ P[Head(c.todo).port].used
<1>1. c.todo \in Seq(Items)
  BY DEF PlayRec
<1>2. Head(c.todo) = c.todo[1] /\ 1 \in 1 .. Len(c.todo) /\ c.todo[1] \in Items
  BY <1>1
<1> QED
  BY <1>2 DEF Items, Named

\* Having taken a block, a call turns to the next.
LEMMA TailOk ==
  ASSUME NEW c \in PlayRec, c.todo # <<>>, TodoOk(c), NEW P, Named(c, P), NEW Q,
         \A x \in Ports : Q[x].used = P[x].used,
         NEW d \in PlayRec, d.pc = "turn", d.todo = Tail(c.todo)
  PROVE  CallOk(d, Q)
<1>1. c.todo \in Seq(Items)
  BY DEF PlayRec
<1>2. /\ Tail(c.todo) \in Seq(Items) /\ Len(Tail(c.todo)) = Len(c.todo) - 1
      /\ \A i \in 1 .. Len(c.todo) - 1 : Tail(c.todo)[i] = c.todo[i + 1]
  BY <1>1
<1>3. TodoOk(d)
  BY <1>1, <1>2, AudioConstants DEF TodoOk, InPlay
<1>4. Named(d, Q)
  <2> SUFFICES ASSUME NEW i \in 1 .. Len(c.todo) - 1
               PROVE  Q[c.todo[i + 1].port].used
    BY <1>2 DEF Named
  <2>1. i + 1 \in 1 .. Len(c.todo)
    BY <1>1
  <2>2. c.todo[i + 1] \in Items /\ P[c.todo[i + 1].port].used
    BY <1>1, <2>1 DEF Named
  <2> QED
    BY <2>2 DEF Items
<1>5. Paced(d, Q)
  BY DEF Paced
<1> QED
  BY <1>3, <1>4, <1>5 DEF CallOk

\* A queue that stays within its bounds.
LEMMA QueueOk ==
  ASSUME NEW P, PortsOk(P), NEW p \in Ports, P[p].used, NEW n \in Int,
         P[p].sink => 0 <= n /\ n <= RingUnits /\ n <= P[p].len + MinQueued(P[p].len),
         ~P[p].sink => -MaxLate <= n /\ n <= P[p].len + Target
  PROVE  PortsOk([P EXCEPT ![p].queued = n])
<1> DEFINE Q == [P EXCEPT ![p].queued = n]
<1>1. /\ Q \in [Ports -> PortRec] /\ Q[p].queued = n
      /\ Q[p].used = P[p].used /\ Q[p].len = P[p].len /\ Q[p].sink = P[p].sink
      /\ \A x \in Ports \ {p} : Q[x] = P[x]
  <2>1. P \in [Ports -> PortRec]
    BY DEF PortsOk
  <2>2. Q \in [Ports -> PortRec] /\ Q[p].queued = n
    BY <2>1, Queued
  <2>3. \A x \in Ports : /\ Q[x].used = P[x].used /\ Q[x].len = P[x].len
                         /\ Q[x].sink = P[x].sink
    BY <2>1, Queued
  <2>4. \A x \in Ports \ {p} : Q[x] = P[x]
    BY <2>1, Queued
  <2> QED
    BY <2>2, <2>3, <2>4
<1> HIDE DEF Q
<1>2. P[p].len \in Lengths
  BY DEF PortsOk, PortOk, Unused
<1>3. PortOk(Q[p])
  BY <1>1, <1>2 DEF PortOk
<1>4. PortsOk(Q)
  BY <1>1, <1>3 DEF PortsOk
<1> QED
  BY <1>4 DEF Q

-----------------------------------------------------------------------------
(* The steps.                                                              *)

\* Opening and closing, by the guest and by the emulator.
LEMMA OpenCloseStep ==
  ASSUME AudioInv,
         \/ \E t \in Threads, p \in Ports, len \in Lengths :
              OpenSinkless(t, p, len) \/ OpenWithSink(t, p, len)
         \/ \E t \in Threads, p \in Ports : Close(t, p)
         \/ SetSinkFactory \/ CloseAll
  PROVE  AudioInv'
<1>1. PortsOk(ports) /\ factory \in BOOLEAN /\ orphaned \in BOOLEAN /\ crashed \in BOOLEAN
  BY DEF AudioInv
<1>2. Unused \in PortRec /\ PortOk(Unused)
  BY DEF Unused, PortRec, PortOk
<1>3. \A len \in Lengths : /\ Opened(len, FALSE, 0) \in PortRec /\ PortOk(Opened(len, FALSE, 0))
                           /\ Opened(len, TRUE, 2) \in PortRec /\ PortOk(Opened(len, TRUE, 2))
  BY MinQueuedNat, AudioConstants DEF Opened, PortRec, PortOk
<1>4. ASSUME NEW p \in Ports, NEW q \in PortRec, PortOk(q)
      PROVE  PortsOk([ports EXCEPT ![p] = q])
  BY <1>1, <1>4 DEF PortsOk
<1>5. ASSUME NEW p \in Ports, Leaves(p) \in BOOLEAN
      PROVE  (orphaned \/ Leaves(p)) \in BOOLEAN
  OBVIOUS
<1>6. ASSUME NEW t \in Threads, NEW p \in Ports, NEW len \in Lengths,
             OpenSinkless(t, p, len) \/ OpenWithSink(t, p, len)
      PROVE  AudioInv'
  <2>1. PortsOk(ports')
    BY <1>3, <1>4, <1>6 DEF OpenSinkless, OpenWithSink
  <2> QED
    BY <1>1, <1>6, <2>1, TableChanges DEF OpenSinkless, OpenWithSink
<1>7. ASSUME NEW t \in Threads, NEW p \in Ports, Close(t, p)
      PROVE  AudioInv'
  <2>1. PortsOk(ports')
    BY <1>2, <1>4, <1>7 DEF Close
  <2> QED
    BY <1>1, <1>7, <2>1, TableChanges DEF Close
<1>8. CASE SetSinkFactory
  BY <1>1, <1>8, TableChanges DEF SetSinkFactory
<1>9. CASE CloseAll
  <2>1. PortsOk(ports')
    BY <1>2, <1>9 DEF CloseAll, PortsOk
  <2> QED
    BY <1>1, <1>9, <2>1, TableChanges DEF CloseAll
<1> QED
  BY <1>6, <1>7, <1>8, <1>9

\* A call is made, and obtains the mutexes.
LEMMA EnterStep ==
  ASSUME AudioInv, NEW t \in Threads, Call(t) \/ EnterAny(t)
  PROVE  AudioInv'
<1>1. /\ PortsOk(ports) /\ call \in [Threads -> PlayRec] /\ playing \in Threads \cup {None}
      /\ call[t] \in PlayRec /\ TodoOk(call[t]) /\ t # None
      /\ (call[t].pc \in InPlay <=> playing = t)
  BY AudioConstants DEF AudioInv, CallOk
<1>2. CASE Call(t)
  <2>1. /\ call' \in [Threads -> PlayRec] /\ call'[t].pc = "enter" /\ call'[t].todo = call[t].todo
        /\ \A u \in Threads \ {t} : call'[u] = call[u]
    BY <1>1, <1>2 DEF Call, PlayRec
  <2>2. call[t].pc = "idle" /\ UNCHANGED <<ports, factory, playing, orphaned, crashed>>
    BY <1>2 DEF Call, Is
  <2>3. TodoOk(call'[t]) /\ call'[t].pc \notin InPlay
    BY <1>1, <2>1, <2>2 DEF TodoOk, InPlay
  <2>4. CallOk(call'[t], ports')
    BY <2>1, <2>3, NotPlaying
  <2>5. playing # t
    BY <1>1, <2>2 DEF InPlay
  <2> QED
    BY <1>1, <2>1, <2>2, <2>3, <2>4, <2>5, CallMoves
<1>3. ASSUME NEW n \in 1 .. MaxCall, NEW todo \in [1 .. n -> Items], Enter(t, todo)
      PROVE  AudioInv'
  <2>1. playing = None /\ call[t].pc = "enter" /\ UNCHANGED <<ports, factory, orphaned, crashed>>
    BY <1>3 DEF Enter, Is
  <2>2. n \in Nat /\ todo \in Seq(Items) /\ Len(todo) = n /\ n <= MaxCall /\ MaxCall \in Nat
    BY AudioConstants
  <2>3. CASE \A i \in 1 .. Len(todo) : ports[todo[i].port].used
    <3>1. playing' = t /\ call' = [call EXCEPT ![t].pc = "turn", ![t].todo = todo]
      BY <1>3, <2>3 DEF Enter
    <3>2. /\ call' \in [Threads -> PlayRec] /\ call'[t].pc = "turn" /\ call'[t].todo = todo
          /\ \A u \in Threads \ {t} : call'[u] = call[u]
      BY <1>1, <2>2, <3>1 DEF PlayRec
    <3>3. CallOk(call'[t], ports')
      <4>1. TodoOk(call'[t]) /\ Paced(call'[t], ports') /\ call'[t] \in PlayRec
        BY <2>2, <3>2 DEF TodoOk, Paced, InPlay
      <4>2. Named(call'[t], ports')
        BY <2>1, <2>3, <3>2 DEF Named
      <4> QED
        BY <4>1, <4>2 DEF CallOk
    <3>4. call'[t].pc \in InPlay
      BY <3>2 DEF InPlay
    <3>5. \A u \in Threads \ {t} : (playing' = u <=> playing = u)
      BY <2>1, <3>1, AudioConstants
    <3> QED
      BY <1>1, <2>1, <3>1, <3>2, <3>3, <3>4, <3>5, CallMoves
  <2>4. CASE ~\A i \in 1 .. Len(todo) : ports[todo[i].port].used
    <3>1. playing' = playing /\ call' = [call EXCEPT ![t] = Idle]
      BY <1>3, <2>4 DEF Enter
    <3>2. Idle \in PlayRec /\ TodoOk(Idle) /\ Idle.pc = "idle" /\ Idle.pc \notin InPlay
      BY <2>2 DEF Idle, PlayRec, TodoOk, InPlay
    <3>3. /\ call' \in [Threads -> PlayRec] /\ call'[t] = Idle
          /\ \A u \in Threads \ {t} : call'[u] = call[u]
      BY <1>1, <3>1, <3>2
    <3>4. CallOk(call'[t], ports')
      BY <3>2, <3>3, NotPlaying
    <3> QED
      BY <1>1, <2>1, <3>1, <3>2, <3>3, <3>4, CallMoves
  <2> QED
    BY <2>3, <2>4
<1> QED
  BY <1>2, <1>3 DEF EnterAny

\* What is known when a thread in a call goes on.
LEMMA PlayerFacts ==
  ASSUME AudioInv, NEW t \in Threads, call[t].pc \in InPlay
  PROVE  /\ playing = t /\ \A u \in Threads \ {t} : call[u].pc \notin InPlay
         /\ call \in [Threads -> PlayRec] /\ call[t] \in PlayRec /\ TodoOk(call[t])
         /\ Named(call[t], ports) /\ Paced(call[t], ports)
         /\ PortsOk(ports)
         /\ call[t].todo # <<>> =>
              /\ Item(t).port \in Ports /\ Item(t).data \in BOOLEAN
              /\ Port(t) \in PortRec /\ Port(t).used /\ PortOk(Port(t)) /\ Port(t).len \in Lengths
<1>1. /\ playing = t /\ call \in [Threads -> PlayRec] /\ call[t] \in PlayRec /\ TodoOk(call[t])
      /\ Named(call[t], ports) /\ Paced(call[t], ports) /\ PortsOk(ports)
  BY DEF AudioInv, CallOk
<1>2. \A u \in Threads \ {t} : call[u].pc \notin InPlay
  BY OnePlays
<1>3. ASSUME call[t].todo # <<>>
      PROVE  /\ Item(t).port \in Ports /\ Item(t).data \in BOOLEAN
             /\ Port(t) \in PortRec /\ Port(t).used /\ PortOk(Port(t)) /\ Port(t).len \in Lengths
  <2>1. Item(t).port \in Ports /\ Item(t).data \in BOOLEAN /\ Port(t).used
    BY <1>1, <1>3, ItemFacts DEF Item, Port
  <2>2. Port(t) \in PortRec /\ PortOk(Port(t))
    BY <1>1, <2>1 DEF PortsOk, Port
  <2> QED
    BY <2>1, <2>2 DEF PortOk, Unused
<1> QED
  BY <1>1, <1>2, <1>3

\* The player moves on and keeps the mutexes.
LEMMA PlayerMoves ==
  ASSUME AudioInv, NEW t \in Threads, call[t].pc \in InPlay,
         call' \in [Threads -> PlayRec], \A u \in Threads \ {t} : call'[u] = call[u],
         PortsOk(ports'), CallOk(call'[t], ports'), call'[t].pc \in InPlay,
         UNCHANGED <<factory, playing, orphaned, crashed>>
  PROVE  AudioInv'
<1>1. playing = t /\ \A u \in Threads \ {t} : call[u].pc \notin InPlay
  BY PlayerFacts
<1> QED
  BY <1>1, CallMoves

\* The player turns to its next block.
LEMMA NextTurn ==
  ASSUME AudioInv, NEW t \in Threads, call[t].pc \in InPlay, call[t].todo # <<>>,
         NextItem(t), PortsOk(ports'),
         \A x \in Ports : ports'[x].used = ports[x].used,
         UNCHANGED <<factory, playing, orphaned, crashed>>
  PROVE  AudioInv'
<1>1. call \in [Threads -> PlayRec] /\ call[t] \in PlayRec /\ TodoOk(call[t]) /\ Named(call[t], ports)
  BY PlayerFacts
<1> DEFINE d == [Idle EXCEPT !.pc = "turn", !.todo = Tail(call[t].todo)]
<1>2. d.pc = "turn" /\ d.todo = Tail(call[t].todo)
  BY DEF Idle
<1>3. d \in PlayRec
  <2>1. Idle \in [pc : {"idle", "turn"}, todo : Seq(Items), wait : Nat]
    BY DEF Idle
  <2>2. Tail(call[t].todo) \in Seq(Items)
    BY <1>1 DEF PlayRec
  <2> QED
    BY <2>1, <2>2 DEF PlayRec
<1>4. call' = [call EXCEPT ![t] = d]
  BY DEF NextItem
<1> HIDE DEF d
<1>5. CallOk(d, ports')
  BY <1>1, <1>2, <1>3, TailOk
<1>6. /\ call' \in [Threads -> PlayRec] /\ call'[t] = d
      /\ \A u \in Threads \ {t} : call'[u] = call[u]
  BY <1>1, <1>3, <1>4
<1> QED
  BY <1>2, <1>5, <1>6, PlayerMoves DEF InPlay

\* The port is paced: the sleep lasts until the queue is at the target.
LEMMA PaceStep ==
  ASSUME AudioInv, NEW t \in Threads, PaceVirtual(t)
  PROVE  AudioInv'
<1> DEFINE p == Item(t).port
           n == Larger(0, ports[p].queued)
<1>1. call[t].pc = "turn" /\ call[t].pc \in InPlay /\ call[t].todo # <<>> /\ ~Port(t).sink
  BY DEF PaceVirtual, Is, InPlay
<1>2. /\ call \in [Threads -> PlayRec] /\ call[t] \in PlayRec /\ TodoOk(call[t])
      /\ Named(call[t], ports) /\ PortsOk(ports)
      /\ p \in Ports /\ Item(t).data \in BOOLEAN
      /\ Port(t) \in PortRec /\ Port(t).used /\ PortOk(Port(t)) /\ Port(t).len \in Lengths
  BY <1>1, PlayerFacts
<1>3. Port(t) = ports[p] /\ Port(t).queued \in Int /\ Target \in Nat
  BY <1>2, AudioConstants DEF Port, PortRec
<1>4. n \in Int /\ 0 <= n /\ n <= ports[p].len + Target
  <2>1. Port(t).len \in Nat /\ Port(t).queued <= Port(t).len + Target
    BY <1>1, <1>2, MinQueuedNat DEF PortOk, Unused
  <2> QED
    BY <1>3, <2>1 DEF Larger
<1>5. Wait(t) \in Nat /\ (Item(t).data => n - Wait(t) <= Target)
  BY <1>2, <1>3 DEF Wait, Larger
<1>6. ports' = [ports EXCEPT ![p].queued = n]
  BY DEF PaceVirtual
<1>7. call' = [call EXCEPT ![t].pc = "sleep", ![t].wait = Wait(t)]
  BY DEF PaceVirtual
<1>8. UNCHANGED <<factory, playing, orphaned, crashed>>
  BY DEF PaceVirtual
<1> HIDE DEF p, n
<1>9. PortsOk(ports')
  <2>1. ports[p].used /\ ~ports[p].sink
    BY <1>1, <1>2, <1>3
  <2>2. -MaxLate <= n
    BY <1>4, AudioConstants
  <2> QED
    BY <1>2, <1>4, <1>6, <2>1, <2>2, QueueOk
<1>10. /\ \A x \in Ports : /\ ports'[x].used = ports[x].used /\ ports'[x].sink = ports[x].sink
       /\ ports'[p].queued = n
  BY <1>2, <1>4, <1>6, Queued DEF PortsOk
<1>11. /\ call' \in [Threads -> PlayRec] /\ call'[t].pc = "sleep" /\ call'[t].wait = Wait(t)
       /\ call'[t].todo = call[t].todo /\ \A u \in Threads \ {t} : call'[u] = call[u]
  BY <1>2, <1>5, <1>7 DEF PlayRec
<1>12. CallOk(call'[t], ports')
  <2>1. TodoOk(call'[t])
    BY <1>1, <1>2, <1>11 DEF TodoOk, InPlay
  <2>2. Named(call'[t], ports')
    <3>1. call[t].todo \in Seq(Items)
      BY <1>2 DEF PlayRec
    <3>2. \A i \in 1 .. Len(call[t].todo) : call[t].todo[i] \in Items
      BY <3>1
    <3> QED
      BY <1>2, <1>10, <1>11, <3>2 DEF Named, Items
  <2>3. Paced(call'[t], ports')
    BY <1>1, <1>2, <1>3, <1>5, <1>10, <1>11 DEF Paced, Item, p
  <2> QED
    BY <1>11, <2>1, <2>2, <2>3 DEF CallOk
<1> QED
  BY <1>1, <1>8, <1>9, <1>11, <1>12, PlayerMoves DEF InPlay

\* A block is taken, into the clock's queue or into the ring.
LEMMA TakeStep ==
  ASSUME AudioInv, NEW t \in Threads, Awake(t) \/ Push(t)
  PROVE  AudioInv'
<1> DEFINE p == Item(t).port
<1>1. call[t].pc \in {"sleep", "push"} /\ call[t].pc \in InPlay \ {"turn"}
  BY DEF Awake, Push, Is, InPlay
<1>2. call[t].todo # <<>>
  BY <1>1, PlayerFacts DEF TodoOk
<1>3. /\ call \in [Threads -> PlayRec] /\ call[t] \in PlayRec /\ TodoOk(call[t])
      /\ Named(call[t], ports) /\ PortsOk(ports) /\ Paced(call[t], ports)
      /\ p \in Ports /\ Item(t).data \in BOOLEAN
      /\ Port(t) \in PortRec /\ Port(t).used /\ PortOk(Port(t)) /\ Port(t).len \in Lengths
  BY <1>1, <1>2, PlayerFacts
<1>4. /\ Port(t) = ports[p] /\ Port(t).queued \in Int /\ Target \in Nat /\ Port(t).len \in Nat
      /\ RingUnits \in Nat /\ MaxLate \in Nat /\ MinQueued(Port(t).len) \in Nat
  BY <1>3, MinQueuedNat, AudioConstants DEF Port, PortRec
<1>5. PICK n \in Int :
        /\ ports' = [ports EXCEPT ![p].queued = n]
        /\ ports[p].sink => 0 <= n /\ n <= RingUnits /\ n <= ports[p].len + MinQueued(ports[p].len)
        /\ ~ports[p].sink => -MaxLate <= n /\ n <= ports[p].len + Target
  <2>1. CASE Awake(t)
    <3> DEFINE n == ports[p].queued + (IF Item(t).data THEN ports[p].len ELSE 0)
    <3>1. ports' = [ports EXCEPT ![p].queued = n]
      BY <1>4, <2>1 DEF Awake
    <3>2. ~Port(t).sink /\ (Item(t).data => Port(t).queued <= Target)
      <4>1. call[t].pc = "sleep" /\ call[t].wait = 0
        BY <2>1 DEF Awake, Is
      <4>2. ~Port(t).sink /\ (Item(t).data => Port(t).queued - 0 <= Target)
        BY <1>3, <4>1 DEF Paced, Item, Port
      <4> QED
        BY <1>4, <4>2
    <3>3. n \in Int /\ -MaxLate <= n /\ n <= ports[p].len + Target
      BY <1>3, <1>4, <3>2 DEF PortOk, Unused
    <3> QED
      BY <1>4, <3>1, <3>2, <3>3
  <2>2. CASE Push(t)
    <3> DEFINE n == ports[p].queued + ports[p].len
    <3>1. ports' = [ports EXCEPT ![p].queued = n]
      BY <1>4, <2>2 DEF Push
    <3>2. Port(t).sink /\ Port(t).queued <= MinQueued(Port(t).len)
      BY <1>3, <1>4, <2>2 DEF Paced, Push, Is, Item, Port
    <3>3. n <= RingUnits
      BY <1>4, <2>2 DEF Push, Fits
    <3>4. n \in Int /\ 0 <= n /\ n <= ports[p].len + MinQueued(ports[p].len)
      BY <1>3, <1>4, <3>2 DEF PortOk, Unused
    <3> QED
      BY <1>4, <3>1, <3>2, <3>3, <3>4
  <2> QED
    BY <2>1, <2>2
<1>6. NextItem(t) /\ UNCHANGED <<factory, playing, orphaned, crashed>>
  BY DEF Awake, Push
<1> HIDE DEF p
<1>7. PortsOk(ports')
  BY <1>3, <1>4, <1>5, QueueOk
<1>8. \A x \in Ports : ports'[x].used = ports[x].used
  BY <1>3, <1>5, Queued DEF PortsOk
<1> QED
  BY <1>1, <1>2, <1>6, <1>7, <1>8, NextTurn

\* The ring has drained, or has been cleared.
LEMMA DrainStep ==
  ASSUME AudioInv, NEW t \in Threads, Drained(t)
  PROVE  AudioInv'
<1> DEFINE p == Item(t).port
           n == IF ports[p].queued > MinQueued(ports[p].len) THEN 0 ELSE ports[p].queued
<1>1. call[t].pc = "drain" /\ call[t].pc \in InPlay \ {"turn"}
  BY DEF Drained, Is, InPlay
<1>2. call[t].todo # <<>>
  BY <1>1, PlayerFacts DEF TodoOk
<1>3. /\ call \in [Threads -> PlayRec] /\ call[t] \in PlayRec /\ TodoOk(call[t])
      /\ Named(call[t], ports) /\ PortsOk(ports) /\ Paced(call[t], ports)
      /\ p \in Ports /\ Item(t).data \in BOOLEAN
      /\ Port(t) \in PortRec /\ Port(t).used /\ PortOk(Port(t)) /\ Port(t).len \in Lengths
  BY <1>1, <1>2, PlayerFacts
<1>4. /\ Port(t) = ports[p] /\ Port(t).queued \in Int /\ Port(t).len \in Nat
      /\ RingUnits \in Nat /\ MinQueued(Port(t).len) \in Nat
  BY <1>3, MinQueuedNat, AudioConstants DEF Port, PortRec
<1>5. Port(t).sink /\ Item(t).data
  BY <1>1, <1>3 DEF Paced, Item, Port
<1>6. /\ n \in Int /\ 0 <= n /\ n <= RingUnits /\ n <= MinQueued(ports[p].len)
      /\ n <= ports[p].len + MinQueued(ports[p].len)
  BY <1>3, <1>4, <1>5 DEF PortOk, Unused
<1>7. ports' = [ports EXCEPT ![p].queued = n]
  BY <1>4 DEF Drained
<1>8. /\ call' = [call EXCEPT ![t].pc = "push"]
      /\ UNCHANGED <<factory, playing, orphaned, crashed>>
  BY DEF Drained
<1> HIDE DEF p, n
<1>9. PortsOk(ports')
  BY <1>3, <1>4, <1>5, <1>6, <1>7, QueueOk
<1>10. /\ \A x \in Ports : /\ ports'[x].used = ports[x].used /\ ports'[x].sink = ports[x].sink
                            /\ ports'[x].len = ports[x].len
       /\ ports'[p].queued = n
  BY <1>3, <1>6, <1>7, Queued DEF PortsOk
<1>11. /\ call' \in [Threads -> PlayRec] /\ call'[t].pc = "push"
       /\ call'[t].todo = call[t].todo /\ \A u \in Threads \ {t} : call'[u] = call[u]
  BY <1>3, <1>8 DEF PlayRec
<1>12. CallOk(call'[t], ports')
  <2>1. TodoOk(call'[t])
    BY <1>2, <1>3, <1>11 DEF TodoOk, InPlay
  <2>2. Named(call'[t], ports')
    <3>1. call[t].todo \in Seq(Items)
      BY <1>3 DEF PlayRec
    <3>2. \A i \in 1 .. Len(call[t].todo) : call[t].todo[i] \in Items
      BY <3>1
    <3> QED
      BY <1>3, <1>10, <1>11, <3>2 DEF Named, Items
  <2>3. Paced(call'[t], ports')
    BY <1>3, <1>4, <1>5, <1>6, <1>10, <1>11 DEF Paced, Item, p
  <2> QED
    BY <1>11, <2>1, <2>2, <2>3 DEF CallOk
<1> QED
  BY <1>1, <1>8, <1>9, <1>11, <1>12, PlayerMoves DEF InPlay

\* A block that goes to a sink, a block without data, and a block that is dropped.
LEMMA PassStep ==
  ASSUME AudioInv, NEW t \in Threads, QueueOrPass(t) \/ Drop(t)
  PROVE  AudioInv'
<1>1. call[t].pc \in {"turn", "push"} /\ call[t].pc \in InPlay
  BY DEF QueueOrPass, Drop, Is, InPlay
<1>2. /\ call \in [Threads -> PlayRec] /\ call[t] \in PlayRec /\ TodoOk(call[t])
      /\ Named(call[t], ports) /\ PortsOk(ports) /\ ports' = ports
      /\ UNCHANGED <<factory, playing, orphaned, crashed>>
  BY <1>1, PlayerFacts DEF QueueOrPass, Drop
<1>3. call[t].todo # <<>>
  BY <1>2 DEF QueueOrPass, Drop, Is, TodoOk, InPlay
<1>4. CASE NextItem(t)
  BY <1>1, <1>2, <1>3, <1>4, NextTurn
<1>5. CASE QueueOrPass(t) /\ Item(t).data /\ call' = [call EXCEPT ![t].pc = "drain"]
  <2>1. /\ call' \in [Threads -> PlayRec] /\ call'[t].pc = "drain"
        /\ call'[t].todo = call[t].todo /\ \A u \in Threads \ {t} : call'[u] = call[u]
    BY <1>2, <1>5 DEF PlayRec
  <2>2. TodoOk(call'[t]) /\ Named(call'[t], ports)
    BY <1>2, <1>3, <2>1 DEF TodoOk, Named, InPlay
  <2>3. Paced(call'[t], ports)
    BY <1>5, <2>1 DEF Paced, QueueOrPass, Item, Port
  <2>4. CallOk(call'[t], ports')
    BY <1>2, <2>1, <2>2, <2>3 DEF CallOk
  <2> QED
    BY <1>1, <1>2, <2>1, <2>4, PlayerMoves DEF InPlay
<1> QED
  BY <1>4, <1>5 DEF QueueOrPass, Drop

\* A call returns.
LEMMA FinishStep ==
  ASSUME AudioInv, NEW t \in Threads, Finish(t)
  PROVE  AudioInv'
<1>1. call[t].pc \in InPlay /\ playing' = None /\ call' = [call EXCEPT ![t] = Idle]
      /\ UNCHANGED <<ports, factory, orphaned, crashed>>
  BY DEF Finish, Is, InPlay
<1>2. /\ call \in [Threads -> PlayRec] /\ PortsOk(ports) /\ playing = t
  BY <1>1, PlayerFacts
<1>3. Idle \in PlayRec /\ TodoOk(Idle) /\ Idle.pc \notin InPlay
  BY AudioConstants DEF Idle, PlayRec, TodoOk, InPlay
<1>4. /\ call' \in [Threads -> PlayRec] /\ call'[t] = Idle
      /\ \A u \in Threads \ {t} : call'[u] = call[u]
  BY <1>1, <1>2, <1>3
<1>5. CallOk(call'[t], ports')
  BY <1>3, <1>4, NotPlaying
<1>6. None \notin Threads
  BY AudioConstants
<1> QED
  BY <1>1, <1>2, <1>3, <1>4, <1>5, <1>6, CallMoves

\* What a call knows of its port survives what the device and the clock do.
LEMMA StillOk ==
  ASSUME NEW c \in PlayRec, NEW d \in PlayRec, d.pc = c.pc, d.todo = c.todo, NEW P, NEW Q,
         PortsOk(P), PortsOk(Q), CallOk(c, P),
         \A x \in Ports : /\ Q[x].used = P[x].used /\ Q[x].sink = P[x].sink /\ Q[x].len = P[x].len
                          /\ Q[x].queued <= P[x].queued
                          /\ ~P[x].sink /\ P[x].queued - c.wait <= Target
                                => Q[x].queued - d.wait <= Target
  PROVE  CallOk(d, Q)
<1>1. TodoOk(d)
  BY DEF CallOk, TodoOk
<1>2. CASE c.todo = <<>>
  <2>1. Len(d.todo) = 0 /\ d.pc \notin {"sleep", "drain", "push"}
    BY <1>2 DEF CallOk, TodoOk, InPlay
  <2>2. Named(d, Q) /\ Paced(d, Q)
    BY <2>1 DEF Named, Paced
  <2> QED
    BY <1>1, <2>2 DEF CallOk
<1>3. CASE c.todo # <<>>
  <2>1. Named(d, Q)
    <3>1. \A i \in 1 .. Len(c.todo) : c.todo[i] \in Items
      BY DEF PlayRec
    <3> QED
      BY <3>1 DEF CallOk, Named, Items
  <2> DEFINE p == Head(c.todo).port
  <2>2. p \in Ports /\ P[p].used
    BY <1>3, ItemFacts DEF CallOk
  <2>3. P[p] \in PortRec /\ Q[p] \in PortRec /\ P[p].len \in Lengths
    BY <2>2 DEF PortsOk, PortOk, Unused
  <2>4. P[p].queued \in Int /\ Q[p].queued \in Int /\ MinQueued(P[p].len) \in Nat
    BY <2>3, MinQueuedNat DEF PortRec
  <2>5. /\ c.pc = "sleep" => ~P[p].sink /\ (Head(c.todo).data => P[p].queued - c.wait <= Target)
        /\ c.pc \in {"drain", "push"} => P[p].sink /\ Head(c.todo).data
        /\ c.pc = "push" => P[p].queued <= MinQueued(P[p].len)
    BY DEF CallOk, Paced
  <2>6. /\ Q[p].used = P[p].used /\ Q[p].sink = P[p].sink /\ Q[p].len = P[p].len
        /\ Q[p].queued <= P[p].queued
        /\ ~P[p].sink /\ P[p].queued - c.wait <= Target => Q[p].queued - d.wait <= Target
    BY <2>2
  <2> HIDE DEF p
  <2>8. d.pc = "sleep" => ~Q[p].sink /\ (Head(c.todo).data => Q[p].queued - d.wait <= Target)
    BY <2>5, <2>6
  <2>9. d.pc \in {"drain", "push"} => Q[p].sink /\ Head(c.todo).data
    BY <2>5, <2>6
  <2>10. d.pc = "push" => Q[p].queued <= MinQueued(Q[p].len)
    BY <2>4, <2>5, <2>6
  <2>11. Paced(d, Q)
    BY <2>8, <2>9, <2>10 DEF Paced, p
  <2> QED
    BY <1>1, <2>1, <2>11 DEF CallOk
<1> QED
  BY <1>2, <1>3

\* A port that has something queued is in use.
LEMMA FullIsUsed ==
  ASSUME NEW P, PortsOk(P), NEW p \in Ports, P[p].queued # 0 \/ P[p].sink
  PROVE  P[p].used /\ P[p].len \in Lengths /\ P[p] \in PortRec /\ PortOk(P[p]) /\ P[p] # Unused
BY DEF PortsOk, PortOk, Unused

\* The device pulls.
LEMMA PullStep ==
  ASSUME AudioInv, NEW p \in Ports, Callback(p)
  PROVE  AudioInv'
<1> DEFINE n == ports[p].queued - 1
<1>1. /\ PortsOk(ports) /\ call \in [Threads -> PlayRec]
      /\ \A t \in Threads : CallOk(call[t], ports) /\ call[t] \in PlayRec
  BY DEF AudioInv
<1>2. /\ ports[p].queued > 0 /\ ports' = [ports EXCEPT ![p].queued = n]
      /\ UNCHANGED <<factory, playing, call, orphaned, crashed>>
  BY DEF Callback
<1>3. ports[p] \in PortRec /\ ports[p].queued \in Int
  BY <1>1 DEF PortsOk, PortRec
<1>4. ports[p].used /\ ports[p].len \in Lengths /\ PortOk(ports[p]) /\ ports[p] # Unused
  BY <1>1, <1>2, <1>3, FullIsUsed
<1>5. ports[p].len \in Nat /\ MinQueued(ports[p].len) \in Nat
  BY <1>4, MinQueuedNat
<1>6. /\ n \in Int /\ 0 <= n
      /\ ports[p].sink => n <= RingUnits /\ n <= ports[p].len + MinQueued(ports[p].len)
      /\ ~ports[p].sink => -MaxLate <= n /\ n <= ports[p].len + Target
  BY <1>2, <1>3, <1>4, <1>5, AudioConstants DEF PortOk
<1>7. n <= ports[p].queued
  BY <1>3
<1> HIDE DEF n
<1>8. PortsOk(ports')
  BY <1>1, <1>2, <1>4, <1>6, QueueOk
<1>9. \A x \in Ports : /\ ports'[x].used = ports[x].used /\ ports'[x].sink = ports[x].sink
                       /\ ports'[x].len = ports[x].len
  BY <1>1, <1>2, <1>6, Queued DEF PortsOk
<1>10. ports'[p].queued = n /\ \A x \in Ports \ {p} : ports'[x] = ports[x]
  BY <1>1, <1>2, <1>6, Queued DEF PortsOk
<1>11. \A x \in Ports : ports[x].queued \in Int /\ ports'[x].queued \in Int
  BY <1>1, <1>8 DEF PortsOk, PortRec
<1>12. \A x \in Ports : ports'[x].queued <= ports[x].queued
  BY <1>7, <1>10, <1>11
<1>13. ASSUME NEW t \in Threads
       PROVE  CallOk(call[t], ports')
  <2>1. call[t].wait \in Nat
    BY <1>1 DEF PlayRec
  <2>2. \A x \in Ports : ports[x].queued - call[t].wait <= Target
                            => ports'[x].queued - call[t].wait <= Target
    BY <1>11, <1>12, <2>1, AudioConstants
  <2> QED
    BY <1>1, <1>8, <1>9, <1>12, <2>2, StillOk
<1> QED
  BY <1>2, <1>8, <1>13 DEF AudioInv

\* Time passes.
LEMMA TickStep ==
  ASSUME AudioInv, Tick
  PROVE  AudioInv'
<1>1. /\ PortsOk(ports) /\ call \in [Threads -> PlayRec]
      /\ \A t \in Threads : CallOk(call[t], ports) /\ call[t] \in PlayRec
  BY DEF AudioInv
<1>2. MaxLate \in Nat /\ Target \in Nat
  BY AudioConstants
<1>3. ASSUME NEW x \in Ports
      PROVE  /\ ports[x] \in PortRec /\ ports'[x] \in PortRec /\ PortOk(ports'[x])
             /\ ports'[x].used = ports[x].used /\ ports'[x].sink = ports[x].sink
             /\ ports'[x].len = ports[x].len /\ ports'[x].queued <= ports[x].queued
             /\ ports[x].queued \in Int /\ ports'[x].queued \in Int
             /\ \/ ports'[x] = ports[x] /\ (ports[x].sink \/ ~ports[x].used)
                \/ ports'[x].queued = Larger(-MaxLate, ports[x].queued - 1)
  <2>1. ports[x] \in PortRec /\ PortOk(ports[x]) /\ ports[x].queued \in Int
    BY <1>1 DEF PortsOk, PortRec
  <2>2. CASE ~(ports[x].used /\ ~ports[x].sink)
    <3>1. ports'[x] = ports[x]
      BY <2>2 DEF Tick
    <3> QED
      BY <2>1, <2>2, <3>1
  <2>3. CASE ports[x].used /\ ~ports[x].sink
    <3> DEFINE n == Larger(-MaxLate, ports[x].queued - 1)
    <3>1. ports'[x] = [ports[x] EXCEPT !.queued = n]
      BY <2>3 DEF Tick
    <3>2. ports[x].len \in Lengths /\ -MaxLate <= ports[x].queued
          /\ ports[x].queued <= ports[x].len + Target /\ ports[x].len \in Nat
      BY <2>1, <2>3, MinQueuedNat DEF PortOk, Unused
    <3>3. n \in Int /\ -MaxLate <= n /\ n <= ports[x].queued /\ n <= ports[x].len + Target
      BY <1>2, <2>1, <3>2 DEF Larger
    <3>4. n = Larger(-MaxLate, ports[x].queued - 1)
      OBVIOUS
    <3> HIDE DEF n
    <3>5. /\ ports'[x] \in PortRec /\ ports'[x].queued = n /\ ports'[x].used = ports[x].used
          /\ ports'[x].sink = ports[x].sink /\ ports'[x].len = ports[x].len
      BY <2>1, <3>1, <3>3 DEF PortRec
    <3>6. PortOk(ports'[x])
      BY <2>3, <3>2, <3>3, <3>5 DEF PortOk
    <3> QED
      BY <2>1, <3>3, <3>4, <3>5, <3>6
  <2> QED
    BY <2>2, <2>3
<1>4. PortsOk(ports')
  <2>1. ports' = [x \in Ports |-> ports'[x]]
    BY DEF Tick
  <2> QED
    BY <1>3, <2>1 DEF PortsOk
<1>5. ASSUME NEW t \in Threads
      PROVE  /\ call'[t] \in PlayRec /\ call'[t].pc = call[t].pc /\ call'[t].todo = call[t].todo
             /\ call[t].wait \in Nat /\ call'[t].wait = Larger(0, call[t].wait - 1)
  <2> DEFINE w == Larger(0, call[t].wait - 1)
  <2>1. call[t] \in PlayRec /\ call[t].wait \in Nat
    BY <1>1 DEF PlayRec
  <2>2. w \in Nat
    BY <2>1 DEF Larger
  <2>3. call'[t] = [call[t] EXCEPT !.wait = w]
    BY DEF Tick
  <2> HIDE DEF w
  <2>4. /\ call'[t] \in PlayRec /\ call'[t].pc = call[t].pc /\ call'[t].todo = call[t].todo
        /\ call'[t].wait = w
    BY <2>1, <2>2, <2>3 DEF PlayRec
  <2> QED
    BY <2>1, <2>4 DEF w
<1>6. call' \in [Threads -> PlayRec]
  <2>1. call' = [t \in Threads |-> call'[t]]
    BY DEF Tick
  <2> QED
    BY <1>5, <2>1
<1>7. ASSUME NEW t \in Threads
      PROVE  CallOk(call'[t], ports')
  <2> DEFINE c == call[t]
             d == call'[t]
  <2>1. /\ c \in PlayRec /\ d \in PlayRec /\ d.pc = c.pc /\ d.todo = c.todo /\ CallOk(c, ports)
        /\ c.wait \in Nat /\ d.wait = Larger(0, c.wait - 1)
    BY <1>1, <1>5
  <2> HIDE DEF c, d
  <2>2. ASSUME NEW x \in Ports, ~ports[x].sink, ports[x].queued - c.wait <= Target
        PROVE  ports'[x].queued - d.wait <= Target
    <3>1. /\ ports[x].queued \in Int
          /\ \/ ports'[x] = ports[x] /\ ~ports[x].used
             \/ ports'[x].queued = Larger(-MaxLate, ports[x].queued - 1)
      BY <1>3, <2>2
    <3>2. CASE ports'[x] = ports[x] /\ ~ports[x].used
      <4>1. ports[x].queued = 0
        BY <1>1, <3>2 DEF PortsOk, PortOk, Unused
      <4> QED
        BY <1>2, <2>1, <3>2, <4>1 DEF Larger
    <3>3. CASE ports'[x].queued = Larger(-MaxLate, ports[x].queued - 1)
      BY <1>2, <2>1, <2>2, <3>1, <3>3 DEF Larger
    <3> QED
      BY <3>1, <3>2, <3>3
  <2>3. CallOk(d, ports')
    BY <1>1, <1>3, <1>4, <2>1, <2>2, StillOk
  <2> QED
    BY <2>3 DEF d
<1>8. \A t \in Threads : call'[t].pc = call[t].pc
  BY <1>5
<1>9. UNCHANGED <<factory, playing, orphaned, crashed>>
  BY DEF Tick
<1> QED
  BY <1>4, <1>6, <1>7, <1>8, <1>9 DEF AudioInv

\* Every step keeps the invariant.
LEMMA AudioKept ==
  ASSUME AudioInv, [AudioNext]_audioVars
  PROVE  AudioInv'
<1>1. CASE UNCHANGED audioVars
  BY <1>1 DEF audioVars, AudioInv
<1>2. ASSUME NEW t \in Threads, Guest(t)
      PROVE  AudioInv'
  BY <1>2, OpenCloseStep, EnterStep DEF Guest
<1>3. ASSUME NEW t \in Threads, Play(t)
      PROVE  AudioInv'
  BY <1>3, PaceStep, TakeStep, DrainStep, PassStep, FinishStep DEF Play
<1>4. CASE SetSinkFactory \/ CloseAll
  BY <1>4, OpenCloseStep
<1>5. CASE CallbackOfOrphan
  BY <1>5 DEF CallbackOfOrphan, AudioInv
<1> QED
  BY <1>1, <1>2, <1>3, <1>4, <1>5, EnterStep, PullStep, TickStep DEF AudioNext

\* Ports stay open under the calls that play them, and the guest is never ahead of
\* the sound by more than the latency target (or the drain target) and one block, for
\* any number of threads and ports, any block lengths, ring and target
\* (AudioOutHle::Output, Outputs, Close, CloseAll, BoundedRing).
THEOREM PortsStayOpen == AudioSpec => []PlayedPortsStayOpen
<1>1. AudioInit => AudioInv
  <2> SUFFICES ASSUME AudioInit
               PROVE  AudioInv
    OBVIOUS
  <2>1. Unused \in PortRec /\ PortOk(Unused)
    BY DEF Unused, PortRec, PortOk
  <2>2. PortsOk(ports)
    BY <2>1 DEF AudioInit, PortsOk
  <2>3. Idle \in PlayRec /\ TodoOk(Idle) /\ Idle.pc \notin InPlay
    BY AudioConstants DEF Idle, PlayRec, TodoOk, InPlay
  <2>4. /\ call \in [Threads -> PlayRec]
        /\ \A t \in Threads : CallOk(call[t], ports) /\ call[t].pc \notin InPlay
    BY <2>3, NotPlaying DEF AudioInit
  <2>5. None \notin Threads
    BY AudioConstants
  <2> QED
    BY <2>2, <2>4, <2>5 DEF AudioInit, AudioInv
<1>2. AudioInv /\ [AudioNext]_audioVars => AudioInv'
  BY AudioKept
<1>3. AudioInv => PlayedPortsStayOpen
  <2> SUFFICES ASSUME AudioInv
               PROVE  PlayedPortsStayOpen
    OBVIOUS
  <2>1. /\ PortsOk(ports) /\ call \in [Threads -> PlayRec]
        /\ \A t \in Threads : CallOk(call[t], ports) /\ call[t] \in PlayRec
    BY DEF AudioInv
  <2>2. ASSUME NEW p \in Ports, ports[p] # Unused
        PROVE  /\ ports[p].used /\ ports[p].len \in Lengths /\ ports[p].sink \in BOOLEAN
               /\ ports[p].streams \in 0 .. 2
               /\ ports[p].queued \in
                     (IF ports[p].sink THEN 0 ELSE -MaxLate) .. RingUnits + Target + ports[p].len
    <3>1. ports[p] \in PortRec /\ PortOk(ports[p])
      BY <2>1 DEF PortsOk
    <3>2. ports[p].used /\ ports[p].len \in Lengths
      BY <2>2, <3>1 DEF PortOk
    <3>3. ports[p].sink \in BOOLEAN /\ ports[p].streams \in 0 .. 2 /\ ports[p].queued \in Int
      BY <3>1 DEF PortRec
    <3>4. ports[p].len \in Nat /\ RingUnits \in Nat /\ Target \in Nat /\ MaxLate \in Nat
      BY <3>2, MinQueuedNat, AudioConstants
    <3>5. CASE ports[p].sink
      <4>1. 0 <= ports[p].queued /\ ports[p].queued <= RingUnits
        BY <2>2, <3>1, <3>5 DEF PortOk
      <4> QED
        BY <3>2, <3>3, <3>4, <3>5, <4>1
    <3>6. CASE ~ports[p].sink
      <4>1. -MaxLate <= ports[p].queued /\ ports[p].queued <= ports[p].len + Target
        BY <2>2, <3>1, <3>6 DEF PortOk
      <4> QED
        BY <3>2, <3>3, <3>4, <3>6, <4>1
    <3> QED
      BY <3>5, <3>6
  <2>3. ASSUME NEW t \in Threads
        PROVE  /\ call[t].pc \in {"idle", "enter", "turn", "sleep", "drain", "push"}
               /\ Len(call[t].todo) <= MaxCall
               /\ \A i \in 1 .. Len(call[t].todo) : call[t].todo[i] \in Items
               /\ call[t].wait \in Nat
    <3>1. call[t] \in PlayRec /\ TodoOk(call[t])
      BY <2>1 DEF CallOk
    <3> QED
      BY <3>1 DEF PlayRec, TodoOk
  <2>4. AudioTypes
    BY <2>2, <2>3 DEF AudioTypes, AudioInv
  <2>5. LatencyBounded
    <3> SUFFICES ASSUME NEW p \in Ports, ports[p].used
                 PROVE  ports[p].queued <= ports[p].len + IF ports[p].sink THEN MinQueued(ports[p].len) ELSE Target
      BY DEF LatencyBounded
    <3>1. PortOk(ports[p]) /\ ports[p] # Unused
      BY <2>1 DEF PortsOk, Unused
    <3> QED
      BY <3>1 DEF PortOk
  <2>6. \A t \in Threads : \A i \in 1 .. Len(call[t].todo) : ports[call[t].todo[i].port].used
    BY <2>1 DEF CallOk, Named
  <2> QED
    BY <2>4, <2>5, <2>6 DEF PlayedPortsStayOpen
<1> QED
  BY <1>1, <1>2, <1>3, PTL DEF AudioSpec
====
