---------------------------- MODULE MCFeedList ----------------------------
(* FeedList for TLC.                                                       *)
EXTENDS FeedList

\* All prefixes, the shortest first, which is not the order of the addresses.
MCNthPrefix(n) ==
  LET b == CHOOSE k \in 0 .. Width : 2^k <= n /\ n < 2^(k + 1)
  IN  [addr |-> (n - 2^b) * 2^(Width - b), bits |-> b]

MCAllPrefixes == [n \in 1 .. 2^(Width + 1) - 1 |-> MCNthPrefix(n)]

MCFeeds == {SelectSeq(MCAllPrefixes, LAMBDA p : p \in f) : f \in SUBSET Prefix}

\* Every feed, without extras, and with two that may repeat or overlap it.
MCLists == {feed \o extras : feed \in MCFeeds,
             extras \in {<<>>, <<Masked(2^Width - 1, Width), Masked(0, 1)>>}}
=============================================================================
