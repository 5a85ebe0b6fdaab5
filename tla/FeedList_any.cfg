SPECIFICATION FeedSpec
CONSTANTS
  Width = 3
  Lists <- MCLists
  Mixed = 2
INVARIANTS FeedTypeOK EmitsLeftPart SplitsMinimally ListCoversFeed AggregatesMinimally
PROPERTIES Returns
