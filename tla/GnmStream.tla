-------------------------------- MODULE GnmStream --------------------------------
(***************************************************************************)
(* From the guest's command stream to the draft of what the host GPU would *)
(* do: Pm4Decoder::Decode (gpu/gnm/pm4_decoder.cpp) over GnmState          *)
(* (gpu/gnm/gnm_state.cpp), LowerGnmStateToIR (gpu/ir/gpu_ir.cpp) and the  *)
(* two planners PlanVulkanCommands and PlanRenderPasses                    *)
(* (gpu/vulkan_backend.cpp), as GnmSubmit::SubmitBuffer runs them after    *)
(* every buffer (gpu/gnm/gnm_submit.cpp).                                  *)
(*                                                                         *)
(* GnmState is cumulative: registers, counters and three bounded logs live *)
(* on from one buffer to the next, and every submission lowers what the    *)
(* logs still hold.  `history' is a ghost: every packet that was walked,   *)
(* in the guest's order, which the properties compare the result with.  A  *)
(* packet of registers stands there once for every register it writes.     *)
(*                                                                         *)
(* Buffers are assumed to come one at a time, which no lock of the code    *)
(* sees to (gnm_submit.cpp:273, kernel/sce_kernel_hle.cpp:449).            *)
(*                                                                         *)
(* Left out: the contents of most packets (a value stands for a packet's   *)
(* payload), statistics by opcode, the packet trace, and Clear operations, *)
(* which the lowering never emits.                                         *)
(***************************************************************************)
EXTENDS Integers, Sequences, FiniteSets, SequencesExt

CONSTANTS
  Values,            \* of registers; 0 is what an unwritten one reads as
  Amounts,           \* of instances and groups
  MaxDrawLog, MaxDispatchLog, MaxNamedWriteLog,
  MaxOps,            \* capacity of the operation list
  MaxStream,         \* most packets in a buffer
  MaxPackets         \* most packets in the history

ASSUME StreamConstants ==
  /\ Values \subseteq Nat \ {0} /\ Amounts \subseteq Nat \ {0}
  /\ {MaxDrawLog, MaxDispatchLog, MaxNamedWriteLog, MaxOps} \subseteq Nat \ {0}
  /\ MaxDrawLog + MaxDispatchLog + MaxNamedWriteLog < MaxOps
  /\ MaxStream \in Nat /\ MaxPackets \in Nat

VARIABLES
  gnm,       \* GnmState
  history,   \* the packets that were walked
  evidence   \* what the last submission made of the state

streamVars == <<gnm, history, evidence>>

-----------------------------------------------------------------------------
(* Registers.                                                              *)

Named == {"TL", "BR", "INDEX"}
Regs  == Named \cup {"other"}

Zero == [
  bank |-> [r \in Regs |-> 0], written |-> {},
  total |-> 0, named |-> 0, carried |-> 0, outside |-> 0,
  seq |-> 0, indexType |-> 0, instances |-> 0,
  draws |-> <<>>, dispatches |-> <<>>, writes |-> <<>>]

\* A bounded log drops its oldest record.
Logged(log, r, max) ==
  IF Len(log) < max THEN Append(log, r) ELSE Append(Tail(log), r)

\* A mistake: the corner is looked up in the journal, which may have dropped it.
Journaled_FromJournal(g, r, v) ==
  LET corners == SelectSeq(g.writes, LAMBDA w : w.kind = "TL")
  IN [kind |-> r, seq |-> g.seq, value |-> v,
      paired |-> IF r = "BR" /\ corners # <<>> THEN Last(corners).value ELSE 0]

\* The journal's record of a write: a bottom right corner takes along the top left
\* corner that is in force.
Journaled(g, r, v) ==
  [kind |-> r, seq |-> g.seq, value |-> v,
   paired |-> IF r = "BR" /\ "TL" \in g.written THEN g.bank["TL"] ELSE 0]

WriteRegister(g, r, v) ==
  IF r \notin Regs THEN [g EXCEPT !.outside = @ + 1]
  ELSE LET h == [g EXCEPT !.bank[r] = v, !.written = @ \cup {r}, !.total = @ + 1]
           n == [h EXCEPT !.seq = @ + 1, !.named = @ + 1,
                          !.carried = IF r = "INDEX" THEN @ + 1 ELSE @]
       IN IF r \notin Named THEN h
          ELSE [n EXCEPT !.writes = Logged(@, Journaled(n, r, v), MaxNamedWriteLog)]

RecordDraw(g, indexed) ==
  LET n == [g EXCEPT !.seq = @ + 1]
      d == [kind |-> IF indexed THEN "drawIndexed" ELSE "draw", seq |-> n.seq,
            instances |-> g.instances, indexType |-> g.indexType]
  IN [n EXCEPT !.draws = Logged(@, d, MaxDrawLog)]

RecordDispatch(g, v) ==
  LET n == [g EXCEPT !.seq = @ + 1]
  IN [n EXCEPT !.dispatches =
        Logged(@, [kind |-> "dispatch", seq |-> n.seq, value |-> v], MaxDispatchLog)]

-----------------------------------------------------------------------------
(* Packets.                                                                *)

\* A packet of registers writes a run of neighbours, one by one: it is a run of these.
SetRegs    == [op : {"set"}, reg : Named, value : Values]
SetOthers  == [op : {"set"}, reg : {"other", "outside"}, value : {0}]
Settings   == [op : {"indexType"}, value : Values]
              \cup [op : {"instances", "dispatch"}, value : Amounts]
Draws      == [op : {"draw"}, indexed : BOOLEAN]
\* Not of type 3, unknown, a no-op, or too short for what it should hold.
Skipped    == [op : {"skipped"}]
\* Declares more than the buffer has left.
Truncated  == [op : {"truncated"}]

Packets == SetRegs \cup SetOthers \cup Settings \cup Draws \cup Skipped \cup Truncated

Execute(g, p) ==
  CASE p.op = "set" -> WriteRegister(g, p.reg, p.value)
    [] p.op = "indexType" ->
         WriteRegister([g EXCEPT !.indexType = p.value], "INDEX", p.value)
    [] p.op = "instances" -> [g EXCEPT !.instances = p.value]
    [] p.op = "draw"      -> RecordDraw(g, p.indexed)
    [] p.op = "dispatch"  -> RecordDispatch(g, p.value)
    [] p.op = "skipped"   -> g

\* The walk ends at a truncated packet.
Walked(stream) ==
  LET cut == {i \in DOMAIN stream : stream[i].op = "truncated"}
  IN IF cut = {} THEN stream
     ELSE SubSeq(stream, 1, (CHOOSE i \in cut : \A j \in cut : i <= j) - 1)

Decode(g, stream) == FoldLeft(Execute, g, Walked(stream))

-----------------------------------------------------------------------------
(* Lowering.                                                               *)

\* The records of the three logs.
Timeline(g) == Range(g.draws) \cup Range(g.dispatches) \cup Range(g.writes)

\* In the order of their numbers, of which no two are the same.
Merged(records) ==
  [k \in 1 .. Cardinality(records) |->
     CHOOSE e \in records : Cardinality({f \in records : f.seq <= e.seq}) = k]

\* A top left corner alone emits nothing, and index types travel with the draws.
Emits(e) == e.kind \notin {"TL", "INDEX"}

Lowered(e) ==
  IF e.kind = "BR"
  THEN [kind |-> "scissor", seq |-> e.seq, from |-> e.paired, to |-> e.value]
  ELSE e

\* A mistake: the writes with a meaning are told by the journal's length.
Unmapped_ByJournal(g) == g.total - Len(g.writes)

Unmapped(g) == g.total - g.named

\* The boundary takes the number of the last operation that was emitted.
LowerGnmStateToIR(g) ==
  LET all  == Merged({e \in Timeline(g) : Emits(e)})
      kept == [i \in 1 .. (IF Len(all) < MaxOps THEN Len(all) ELSE MaxOps) |->
                 Lowered(all[i])]
      full == Len(kept) = MaxOps
      ops  == IF kept = <<>> \/ full THEN kept
              ELSE Append(kept, [kind |-> "barrier", seq |-> Last(kept).seq])
  IN [ops |-> ops,
      unmapped |-> Unmapped(g),
      carried |-> g.carried,
      dropped |-> (Len(all) - Len(kept)) + (IF full THEN 1 ELSE 0)]

-----------------------------------------------------------------------------
(* Planning.                                                               *)

CountOf(ops, kinds) == Cardinality({i \in DOMAIN ops : ops[i].kind \in kinds})

DrawKinds == {"draw", "drawIndexed"}
Deferred  == DrawKinds \cup {"scissor", "dispatch"}

\* Nothing but the boundary becomes a command yet.
PlanVulkanCommands(ops) ==
  [boundaries |-> CountOf(ops, {"barrier"}), deferred |-> CountOf(ops, Deferred)]

NoPass == [open |-> FALSE, first |-> 0, last |-> 0, size |-> 0, drew |-> FALSE]

\* The pass keeps what the tile held if it draws, as nothing clears.
Closed(plan) ==
  IF ~plan.cur.open THEN plan
  ELSE [plan EXCEPT
         !.passes = Append(@, [first |-> plan.cur.first, last |-> plan.cur.last,
                               size |-> plan.cur.size,
                               load |-> IF plan.cur.drew THEN "load" ELSE "dontCare"]),
         !.inside = @ + plan.cur.size,
         !.cur = NoPass]

\* A mistake: a dispatch does not end the pass.
Planned_DispatchInside(plan, op) ==
  IF op.kind = "dispatch" THEN [plan EXCEPT !.outside = @ + 1]
  ELSE IF op.kind = "barrier" THEN [Closed(plan) EXCEPT !.outside = @ + 1]
  ELSE [plan EXCEPT !.cur = [
         open |-> TRUE, first |-> IF @.open THEN @.first ELSE op.seq,
         last |-> op.seq, size |-> @.size + 1,
         drew |-> @.drew \/ op.kind \in DrawKinds]]

Planned(plan, op) ==
  IF op.kind \in {"barrier", "dispatch"}
  THEN [Closed(plan) EXCEPT !.outside = @ + 1]
  ELSE [plan EXCEPT !.cur = [
         open |-> TRUE, first |-> IF @.open THEN @.first ELSE op.seq,
         last |-> op.seq, size |-> @.size + 1,
         drew |-> @.drew \/ op.kind \in DrawKinds]]

PlanRenderPasses(ops) ==
  Closed(FoldLeft(Planned, [passes |-> <<>>, inside |-> 0, outside |-> 0, cur |-> NoPass], ops))

Evidence(g) ==
  LET low == LowerGnmStateToIR(g)
  IN [low |-> low, plan |-> PlanVulkanCommands(low.ops),
      regions |-> PlanRenderPasses(low.ops)]

-----------------------------------------------------------------------------
StreamInit ==
  /\ gnm = Zero
  /\ history = <<>>
  /\ evidence = Evidence(Zero)

\* GnmSubmit::SubmitBuffer
SubmitBuffer(stream) ==
  /\ gnm' = Decode(gnm, stream)
  /\ history' = history \o Walked(stream)
  /\ evidence' = Evidence(gnm')

Streams == UNION {[1 .. n -> Packets] : n \in 1 .. MaxStream}

StreamNext ==
  \E stream \in Streams :
    /\ Len(history) + Len(stream) <= MaxPackets
    /\ SubmitBuffer(stream)

StreamSpec == StreamInit /\ [][StreamNext]_streamVars

-----------------------------------------------------------------------------
(* What the result should be, from the history alone.                      *)

Writes(e, r) ==
  \/ e.op = "set" /\ e.reg = r
  \/ e.op = "indexType" /\ r = "INDEX"

\* The value that the last packet before the i-th one gave, or zero.
Before(evs, i, Gives(_)) ==
  LET givers == {j \in 1 .. i - 1 : Gives(evs[j])}
  IN IF givers = {} THEN 0
     ELSE evs[CHOOSE j \in givers : \A k \in givers : k <= j].value

Class(e) ==
  CASE e.op = "draw" -> "draws"
    [] e.op = "dispatch" -> "dispatches"
    [] \E r \in Named : Writes(e, r) -> "writes"
    [] OTHER -> "none"

\* The last packets of each class are in reach.
InReach(evs, i) ==
  LET later == Cardinality({j \in i + 1 .. Len(evs) : Class(evs[j]) = Class(evs[i])})
  IN CASE Class(evs[i]) = "draws" -> later < MaxDrawLog
       [] Class(evs[i]) = "dispatches" -> later < MaxDispatchLog
       [] Class(evs[i]) = "writes" -> later < MaxNamedWriteLog /\ Writes(evs[i], "BR")
       [] OTHER -> FALSE

\* What the guest meant by its i-th packet.
Meant(evs, i) ==
  CASE Class(evs[i]) = "draws" ->
         [kind |-> IF evs[i].indexed THEN "drawIndexed" ELSE "draw",
          instances |-> Before(evs, i, LAMBDA e : e.op = "instances"),
          indexType |-> Before(evs, i, LAMBDA e : e.op = "indexType")]
    [] Class(evs[i]) = "dispatches" -> [kind |-> "dispatch", value |-> evs[i].value]
    [] OTHER -> [kind |-> "scissor", to |-> evs[i].value,
                 from |-> Before(evs, i, LAMBDA e : Writes(e, "TL"))]

Numbered(evs, i) ==
  Cardinality({j \in 1 .. i : Class(evs[j]) # "none"})

Ops == evidence.low.ops

StreamTypes ==
  /\ gnm.seq \in Nat /\ gnm.written \subseteq Regs
  /\ gnm.bank \in [Regs -> Values \cup {0}]
  /\ Len(gnm.draws) <= MaxDrawLog /\ Len(gnm.dispatches) <= MaxDispatchLog
  /\ Len(gnm.writes) <= MaxNamedWriteLog

\* The operations are the guest's draws, dispatches and scissors that the logs still
\* reach, in the guest's order and with the state that was in force when each was
\* recorded, also when the record of that state has been dropped meanwhile ("journal
\* eviction can never lose the scissor pair", gnm_state.cpp:53-55); the one boundary
\* comes last.
IrIsHistory ==
  LET reach == {i \in DOMAIN history : InReach(history, i)}
      place == [i \in reach |-> Cardinality({j \in reach : j <= i})]
      size  == Cardinality(reach)
  IN /\ StreamTypes
     /\ \A i \in reach :
          LET meant == Meant(history, i) IN
          /\ \A f \in DOMAIN meant : Ops[place[i]][f] = meant[f]
          /\ Ops[place[i]].seq = Numbered(history, i)
     /\ Len(Ops) = IF reach = {} THEN 0 ELSE size + 1
     /\ reach # {} => Ops[size + 1] = [kind |-> "barrier", seq |-> Ops[size].seq]

\* However long the stream and whatever the journal has dropped, each write of a
\* register is accounted for as unmapped, carried, part of the scissor, or outside
\* every bank, and no operation is lost ("the split stays exact for any stream length",
\* gpu_ir.cpp).
CountsExact ==
  LET Of(S) == Cardinality({i \in DOMAIN history : \E r \in S : Writes(history[i], r)})
  IN /\ evidence.low.unmapped = Of({"other"})
     /\ evidence.low.carried = Of({"INDEX"})
     /\ gnm.outside = Of({"outside"})
     /\ gnm.total = Of(Regs)
     /\ evidence.low.dropped = 0

\* The render passes are the longest stretches of draws and scissors between
\* dispatches and the boundary, in order; each operation is planned once, and a pass
\* whose draws land on what was there before loads it.
PassesAreRegions ==
  LET graphics == {i \in DOMAIN Ops : Ops[i].kind \notin {"barrier", "dispatch"}}
      regions  == {r \in graphics \X graphics :
                     /\ r[1] .. r[2] \subseteq graphics /\ r[1] <= r[2]
                     /\ r[1] - 1 \notin graphics /\ r[2] + 1 \notin graphics}
      passes   == evidence.regions.passes
  IN /\ {passes[k] : k \in DOMAIN passes} =
          {[first |-> Ops[r[1]].seq, last |-> Ops[r[2]].seq, size |-> r[2] - r[1] + 1,
            load |-> IF \E i \in r[1] .. r[2] : Ops[i].kind \in DrawKinds
                     THEN "load" ELSE "dontCare"] : r \in regions}
     /\ Len(passes) = Cardinality(regions)
     /\ \A k \in 2 .. Len(passes) : passes[k - 1].last < passes[k].first
     /\ evidence.regions.inside + evidence.regions.outside = Len(Ops)
     /\ evidence.plan.boundaries + evidence.plan.deferred = Len(Ops)

=============================================================================
