---------------------------- MODULE MCRunCycle ----------------------------
(* Instances of RunCycle for TLC.                                          *)
EXTENDS RunCycle, TLC

\* The extras files: none, or one that holds a prefix of the feeds.
MCNoExtras == [c \in Country |-> {}]

\* vtysh accepts every file but one with all prefixes in every block.
MCValid == Contents \ {[c \in Country |-> Prefix]}
MCAllValid == Contents

MCDaemonFlag == [dryRun |-> FALSE, updateNft |-> TRUE, reloadOK |-> TRUE,
                 force |-> FALSE]

\* The command line of the deployed units, alone, with a manual --force run,
\* with a --reload=false run, and with every manual run that updates the nft
\* sets and reloads.
MCDaemon == {MCDaemonFlag}
MCForce == {MCDaemonFlag, [MCDaemonFlag EXCEPT !.force = TRUE]}
MCStaged == {MCDaemonFlag, [MCDaemonFlag EXCEPT !.reloadOK = FALSE]}
MCChecked == MCForce \cup {[MCDaemonFlag EXCEPT !.dryRun = TRUE]}
MCAnyFlag == Flag

MCExtras == [c \in Country |-> {CHOOSE x \in Prefix : TRUE}]

MCCountries == Permutations(Country)
=============================================================================
