---------------------------- MODULE MCLifecycle ----------------------------
(* Instances of Lifecycle for TLC: the command lines of a deployment.      *)
EXTENDS Lifecycle

MCOneshot == [refresh |-> FALSE, http |-> FALSE, iosxe |-> FALSE]
MCParked  == [MCOneshot EXCEPT !.http = TRUE]
MCDaemon  == [MCParked EXCEPT !.refresh = TRUE]
MCRouter  == [MCDaemon EXCEPT !.iosxe = TRUE]

MCAll   == {MCOneshot, MCParked, MCDaemon, MCRouter,
            [MCDaemon EXCEPT !.http = FALSE], [MCOneshot EXCEPT !.iosxe = TRUE]}
MCHttp  == {MCParked}
MCLoops == {MCDaemon}
=============================================================================
