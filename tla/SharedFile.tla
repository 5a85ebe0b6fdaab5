----------------------------- MODULE SharedFile -----------------------------
(***************************************************************************)
(* What the cycles of several countries do to their common frr.conf, as    *)
(* module RunCycle takes it: the file is the blocks in it, a cycle plans a *)
(* copy of it with its own block replaced, may keep a copy to go back to,  *)
(* and puts one or the other in the file's place, whole.                   *)
(***************************************************************************)
CONSTANTS Country,
          Wants,    \* what a cycle may want in its block
          Initial,  \* what the blocks may be at first
          None      \* no copy

VARIABLES blocks,   \* the content of the blocks, [Country -> content]
          plan,     \* per country, the copy with its block replaced
          kept      \* per country, the copy to go back to

vars == <<blocks, plan, kept>>

Empty == [c \in Country |-> None]

Init == blocks \in Initial /\ plan = Empty /\ kept = Empty

Plan(c) ==
  /\ plan[c] = None
  /\ \E w \in Wants : plan' = [plan EXCEPT ![c] = [blocks EXCEPT ![c] = w]]
  /\ UNCHANGED <<blocks, kept>>

Keep(c) ==
  /\ plan[c] # None /\ kept[c] = None
  /\ kept' = [kept EXCEPT ![c] = blocks]
  /\ UNCHANGED <<blocks, plan>>

Put(c) ==
  /\ kept[c] # None
  /\ blocks' = plan[c]
  /\ UNCHANGED <<plan, kept>>

\* A cycle that keeps no copy ends with its write, one that goes back, too.
Leave(c) ==
  /\ plan[c] # None
  /\ blocks' \in {blocks, IF kept[c] = None THEN plan[c] ELSE kept[c]}
  /\ plan' = [plan EXCEPT ![c] = None]
  /\ kept' = [kept EXCEPT ![c] = None]

Next == \E c \in Country : Plan(c) \/ Keep(c) \/ Put(c) \/ Leave(c)

Spec == Init /\ [][Next]_vars
=============================================================================
