--------------------------- MODULE MCIOSXEApply ---------------------------
(* IOSXEApply for TLC.                                                     *)
EXTENDS IOSXEApply

CONSTANTS a, b, c

MCPrefix == {a, b, c}

\* In the order of aggregate; the longest is one over the limit.
MCLists == {<<>>, <<b>>, <<a, b>>, <<a, b, c>>}

\* Ways to apply: with and without a save and a replacement, without a BGP AS;
\* those with one save; the one with a next-hop, too, replaces.  And every way
\* not to apply.
MCFlags ==
  {f \in Flag :
     \/ /\ f.iosxe /\ f.mode = "apply" /\ ~f.dryRun /\ f.configured
        /\ f.bgp => f.save
        /\ f.nextHop => f.bgp /\ f.replace
     \/ /\ ~f.replace /\ ~f.nextHop /\ ~f.bgp /\ ~f.save
        /\ f.iosxe => f.mode = "other" \/ f.dryRun}

\* A next-hop without a BGP AS.
MCNextHop ==
  {f \in Flag :
     /\ f.iosxe /\ f.mode = "apply" /\ ~f.dryRun /\ f.configured
     /\ f.nextHop /\ ~f.bgp}
=============================================================================
