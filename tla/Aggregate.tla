----------------------------- MODULE Aggregate -----------------------------
(***************************************************************************)
(* aggregate and canMerge of main.go: the prefixes of a feed and of the    *)
(* extras of its family, sorted, freed of those that another contains, and *)
(* merged pair by pair until a pass changes nothing.                       *)
(*                                                                         *)
(* run() compares frr.conf with the file it would write as texts, so that  *)
(* feeds that mean the same addresses must come out as the same list.      *)
(***************************************************************************)
EXTENDS Addresses, SequencesExt

VARIABLES
  given,    \* in, which is sorted in place
  deduped,  \* the prefixes that remain, of the passes so far
  merged,   \* those of the pass under way
  i,        \* the loops' index
  changed,  \* the pass under way has merged a pair
  pc

vars == <<given, deduped, merged, i, changed, pc>>

TypeOK ==
  /\ given \in Seq(Prefix)
  /\ deduped \in Seq(Prefix)
  /\ merged \in Seq(Prefix)
  /\ i \in 1 .. Len(given) + 1
  /\ pc = "pass" => i \in 1 .. Len(deduped) + 1
  /\ changed \in BOOLEAN
  /\ pc \in {"sort", "dedup", "pass", "done"}

\* The list is handed over by Collect of FeedList.
Init ==
  /\ given = <<>>
  /\ deduped = <<>>
  /\ merged = <<>>
  /\ i = 1
  /\ changed = FALSE
  /\ pc = "sort"

-----------------------------------------------------------------------------

\* The order of sort.Slice.
Before(p, q) == p.addr < q.addr \/ (p.addr = q.addr /\ p.bits < q.bits)

(* sort.Slice: each goes to the place that the number of those not behind  *)
(* it gives.  Equal ones keep their order, which nobody can tell.          *)
Rank(s, k) ==
  Cardinality({j \in DOMAIN s : Before(s[j], s[k]) \/ (s[j] = s[k] /\ j <= k)})

Sorted(s) ==
  LET rank == [k \in DOMAIN s |-> Rank(s, k)]
  IN  [n \in DOMAIN s |-> s[CHOOSE k \in DOMAIN s : rank[k] = n]]

(* An empty list is returned as it is; it takes the same way here.         *)
Sort ==
  /\ pc = "sort"
  /\ given' = Sorted(given)
  /\ pc' = "dedup"
  /\ UNCHANGED <<deduped, merged, i, changed>>

(* A prefix inside the last one that was kept is dropped.                  *)
Dedup ==
  /\ pc = "dedup"
  /\ i <= Len(given)
  /\ LET p == given[i]
     IN  deduped' = IF deduped # <<>> /\ Last(deduped).bits <= p.bits
                                      /\ InPrefix(Last(deduped), p.addr)
                      THEN deduped
                      ELSE Append(deduped, p)
  /\ i' = i + 1
  /\ UNCHANGED <<given, merged, changed, pc>>

DedupEnds ==
  /\ pc = "dedup"
  /\ i > Len(given)
  /\ pc' = "pass"
  /\ i' = 1
  /\ UNCHANGED <<given, deduped, merged, changed>>

Parent(p) == Masked(p.addr, p.bits - 1)

\* Mutant of canMerge: neighbours of one length need not be siblings.
canMergeNeighbours(a, b) == a.bits = b.bits /\ a.bits # 0

canMerge(a, b) ==
  /\ a.bits = b.bits
  /\ a.bits # 0
  /\ Parent(a) = Parent(b)

Mergeable == i + 1 <= Len(deduped) /\ canMerge(deduped[i], deduped[i + 1])

MergePair ==
  /\ pc = "pass"
  /\ Mergeable
  /\ merged' = Append(merged, Parent(deduped[i]))
  /\ i' = i + 2
  /\ changed' = TRUE
  /\ UNCHANGED <<given, deduped, pc>>

KeepOne ==
  /\ pc = "pass"
  /\ i <= Len(deduped)
  /\ ~Mergeable
  /\ merged' = Append(merged, deduped[i])
  /\ i' = i + 1
  /\ UNCHANGED <<given, deduped, changed, pc>>

\* Mutant of PassEnds: one pass is taken to be enough.
PassEndsAll ==
  /\ pc = "pass"
  /\ i > Len(deduped)
  /\ deduped' = merged
  /\ merged' = <<>>
  /\ i' = 1
  /\ changed' = FALSE
  /\ pc' = "done"
  /\ UNCHANGED given

(* deduped = merged, and another pass if this one changed anything.        *)
PassEnds ==
  /\ pc = "pass"
  /\ i > Len(deduped)
  /\ deduped' = merged
  /\ merged' = <<>>
  /\ i' = 1
  /\ changed' = FALSE
  /\ pc' = IF changed THEN "pass" ELSE "done"
  /\ UNCHANGED given

\* The function has returned.
Done == pc = "done" /\ UNCHANGED vars

Next == Sort \/ Dedup \/ DedupEnds \/ MergePair \/ KeepOne \/ PassEnds \/ Done

-----------------------------------------------------------------------------
(* Properties.                                                             *)

\* What the list consists of, half-way through a pass.
Pending ==
  CASE pc = "sort"  -> given
    [] pc = "dedup" -> deduped \o SubSeq(given, i, Len(given))
    [] pc = "pass"  -> merged \o SubSeq(deduped, i, Len(deduped))
    [] pc = "done"  -> deduped

(* The result is the minimal covering set in ascending order, a function   *)
(* of the addresses alone: merging neighbours only is enough, and two      *)
(* feeds that mean the same give the same frr.conf, byte for byte.         *)
AggregatesMinimally ==
  pc = "done" =>
    /\ ToSet(deduped) = MinimalCover(Covered(ToSet(given)))
    /\ \A k \in 1 .. Len(deduped) - 1 : lastAddr(deduped[k]) < deduped[k + 1].addr

=============================================================================
