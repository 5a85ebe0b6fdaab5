------------------------------- MODULE Ranges -------------------------------
(***************************************************************************)
(* rangeToCIDR of main.go: an inclusive range of addresses, as RIPE Stat   *)
(* delivers some of them, split into CIDR prefixes, greedily from the      *)
(* left.                                                                   *)
(***************************************************************************)
EXTENDS Addresses, Sequences

VARIABLES
  lo, hi,   \* the range that parseRange read
  start,    \* the first address that no prefix covers yet
  mask,     \* the length of the prefix that is being widened
  out,      \* the prefixes so far
  pc        \* where the two loops are

vars == <<lo, hi, start, mask, out, pc>>

TypeOK ==
  /\ lo \in Addr /\ hi \in Addr
  /\ start \in Addr
  /\ mask \in 0 .. Width
  /\ out \in Seq(Prefix)
  /\ pc \in {"outer", "widen", "done"}

Init ==
  /\ lo \in Addr /\ hi \in Addr
  /\ start = lo
  /\ mask = Width
  /\ out = <<>>
  /\ pc = "outer"

-----------------------------------------------------------------------------

(* A range that runs backwards, and one that is covered: nothing more.     *)
Return ==
  /\ pc = "outer"
  /\ start > hi
  /\ pc' = "done"
  /\ UNCHANGED <<lo, hi, start, mask, out>>

BeginPrefix ==
  /\ pc = "outer"
  /\ start <= hi
  /\ mask' = Width
  /\ pc' = "widen"
  /\ UNCHANGED <<lo, hi, start, out>>

\* Mutant of Widens: a prefix that would start earlier is taken, too.
WidensUnaligned ==
  /\ mask > 0
  /\ lastAddr(Masked(start, mask - 1)) <= hi

\* Mutant of Widens: off by one at the end of the range.
WidensBelowEnd ==
  /\ mask > 0
  /\ Masked(start, mask - 1).addr = start
  /\ lastAddr(Masked(start, mask - 1)) < hi

(* One bit less still starts at start, and ends inside the range.          *)
Widens ==
  /\ mask > 0
  /\ Masked(start, mask - 1).addr = start
  /\ lastAddr(Masked(start, mask - 1)) <= hi

\* Mutant of Widen: mask = tryMask is missing.
WidenForever ==
  /\ pc = "widen"
  /\ Widens
  /\ UNCHANGED vars

Widen ==
  /\ pc = "widen"
  /\ Widens
  /\ mask' = mask - 1
  /\ UNCHANGED <<lo, hi, start, out, pc>>

\* Mutant of AppendPrefix: the end of the address space is not looked for.
AppendUnchecked ==
  /\ pc = "widen"
  /\ ~Widens
  /\ out' = Append(out, Masked(start, mask))
  /\ pc' = "outer"
  /\ start' = lastAddr(Masked(start, mask)) + 1
  /\ UNCHANGED <<lo, hi, mask>>

(* The prefix is done; the range may end with the last address there is.   *)
AppendPrefix ==
  /\ pc = "widen"
  /\ ~Widens
  /\ LET prefix    == Masked(start, mask)
         nextStart == NextAddr(lastAddr(prefix))
     IN  /\ out' = Append(out, prefix)
         /\ IF nextStart = Invalid
              THEN pc' = "done" /\ UNCHANGED start
              ELSE pc' = "outer" /\ start' = nextStart
  /\ UNCHANGED <<lo, hi, mask>>

\* The function has returned.
Done == pc = "done" /\ UNCHANGED vars

Next == Return \/ BeginPrefix \/ Widen \/ AppendPrefix \/ Done

-----------------------------------------------------------------------------
(* Properties.                                                             *)

Emitted == {out[i] : i \in DOMAIN out}

(* What has been emitted is the left part of the range, exactly: no        *)
(* address outside the range is ever routed, none in it is skipped, also   *)
(* half-way and at the last address of the family.                         *)
EmitsLeftPart ==
  Covered(Emitted) =
    IF pc = "done" THEN lo .. hi ELSE lo .. start - 1

(* The result is the minimal cover of the range ("the minimal set of CIDR  *)
(* prefixes", rangeToCIDR), in ascending order, without an overlap.        *)
SplitsMinimally ==
  pc = "done" =>
    /\ Emitted = MinimalCover(lo .. hi)
    /\ \A i \in 1 .. Len(out) - 1 : lastAddr(out[i]) < out[i + 1].addr
=============================================================================
