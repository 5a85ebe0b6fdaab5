------------------------------ MODULE FeedList ------------------------------
(***************************************************************************)
(* From the resources of a feed to the list a cycle applies: parsePrefixes *)
(* of main.go, which splits a range with rangeToCIDR (Ranges) and takes a  *)
(* prefix as it is, the extras that run() appends, and aggregate           *)
(* (Aggregate) over all of them.  One family; one range in a feed.         *)
(***************************************************************************)
EXTENDS Aggregate

CONSTANTS
  Lists,    \* the prefixes of a feed, with the extras appended
  Mixed     \* bound: the longest of them that come with a range

ASSUME ListsAssumption == Lists \subseteq Seq(Prefix)
ASSUME MixedAssumption == Mixed \in Nat

VARIABLES
  raw,                          \* the resources that are prefixes, and extras
  parsing,                      \* parsePrefixes has not returned
  lo, hi, start, mask, out, rpc \* rangeToCIDR, for the resource that is a range

splitting == <<lo, hi, start, mask, out, rpc>>
allvars == <<vars, raw, parsing, splitting>>

Split == INSTANCE Ranges WITH pc <- rpc

(* A range that runs backwards stands for a feed without one.              *)
FeedInit ==
  /\ raw \in Lists
  /\ parsing = TRUE
  /\ Split!Init
  /\ Len(raw) > Mixed => <<lo, hi>> = <<1, 0>>
  /\ Init

-----------------------------------------------------------------------------

SplitRange ==
  /\ parsing
  /\ Split!Next /\ rpc # "done"
  /\ UNCHANGED <<vars, raw, parsing>>

(* append(out, parseRange(clean)...), and the call of aggregate.           *)
Collect ==
  /\ parsing
  /\ rpc = "done"
  /\ given' = out \o raw
  /\ parsing' = FALSE
  /\ UNCHANGED <<raw, splitting, deduped, merged, i, changed, pc>>

AggregateList ==
  /\ ~parsing
  /\ Next
  /\ UNCHANGED <<raw, parsing, splitting>>

FeedNext == SplitRange \/ Collect \/ AggregateList

\* Sequential code: it runs until it returns.
FeedSpec == FeedInit /\ [][FeedNext]_allvars /\ WF_allvars(FeedNext)

-----------------------------------------------------------------------------
(* Properties.                                                             *)

FeedTypeOK ==
  TypeOK /\ Split!TypeOK /\ raw \in Seq(Prefix) /\ parsing \in BOOLEAN

(* What rangeToCIDR has emitted is the left part of the range, exactly: no *)
(* address outside the range is ever routed, none in it is skipped, also   *)
(* half-way and at the last address of the family.                         *)
EmitsLeftPart == Split!EmitsLeftPart

(* Its result is "the minimal set of CIDR prefixes", in ascending order.   *)
SplitsMinimally == Split!SplitsMinimally

(* At no step, of any pass, an address is lost or gained: what is routed   *)
(* is what the prefixes, the range and the extras name, all of it and      *)
(* nothing else (the ends of a merge are siblings, a dropped prefix is     *)
(* contained, the pieces of a range are the range).                        *)
ListCoversFeed ==
  ~parsing => Covered(ToSet(Pending)) = (lo .. hi) \cup Covered(ToSet(raw))

(* rangeToCIDR and aggregate return, for every feed: the successor of the  *)
(* last address is no address to go on from, and the passes come to an     *)
(* end.                                                                    *)
Returns == <>(~parsing /\ pc = "done")
=============================================================================
