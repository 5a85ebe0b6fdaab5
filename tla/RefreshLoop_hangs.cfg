SPECIFICATION FairSpec
CONSTANTS
  Worker = {w1, w2, w3}
  MayHang = {"fetch", "nft", "check", "reload", "resync", "dial", "setup", "shell"}
INVARIANTS TypeOK OneAtATime
PROPERTIES RunsSerially StopsWhenDone OneshotEnds OnlyCheckStalls
