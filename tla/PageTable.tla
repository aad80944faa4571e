----------------------------- MODULE PageTable -----------------------------
(***************************************************************************)
(* What the guest is promised of its memory (memory/memory.h): a table     *)
(* that gives every page of the window its flags and a tag, or nothing.  A *)
(* call names pages; it changes the entries of these pages and of no       *)
(* others.  The break only ever gives up pages it has mapped itself.       *)
(***************************************************************************)
CONSTANTS Pages, FlagSets, Tags, BrkTag, Nothing

VARIABLES
  table,  \* the entry of every page
  asked   \* the last call: what it was and the pages it named

Mapped == {p \in Pages : table[p] # Nothing}
OfBreak == {p \in Mapped : table[p].tag = BrkTag}

Init ==
  /\ table = [p \in Pages |-> Nothing]
  /\ asked = [op |-> "none", pages |-> {}]

Call(op) == asked'.op = op /\ asked'.pages \subseteq Pages

\* The pages get one new entry.
Map(op, tags) ==
  /\ Call(op)
  /\ \E f \in FlagSets, t \in tags :
       table' = [p \in Pages |-> IF p \in asked'.pages THEN [flags |-> f, tag |-> t]
                                 ELSE table[p]]

Remove(S) == table' = [p \in Pages |-> IF p \in S THEN Nothing ELSE table[p]]

\* The pages lose their entries; a call that fails may have removed some.
Unmap == Call("unmap") /\ Remove(asked'.pages)
UnmapFails == Call("failed") /\ \E S \in SUBSET asked'.pages : Remove(S)

\* The mapped pages get new flags and keep their tags.
Protect ==
  /\ Call("protect")
  /\ \E f \in FlagSets :
       table' = [p \in Pages |-> IF p \in asked'.pages \cap Mapped
                                 THEN [table[p] EXCEPT !.flags = f] ELSE table[p]]

\* A shrink removes pages of the break above the new one, and only those.
Shrink ==
  /\ Call("shrink")
  /\ \E S \in SUBSET (asked'.pages \cap OfBreak) : Remove(S)

\* The window goes away.
Reset == Call("none") /\ Remove(Pages)

Quiet == Call("none") /\ UNCHANGED table

Next ==
  \/ Map("map", Tags) \/ Map("grow", {BrkTag}) \/ Unmap \/ UnmapFails \/ Protect
  \/ Shrink \/ Reset \/ Quiet

Spec == Init /\ [][Next]_<<table, asked>>
=============================================================================
