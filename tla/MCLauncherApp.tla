--------------------------- MODULE MCLauncherApp ---------------------------
(* LauncherApp for TLC: two hosts at two addresses. *)
EXTENDS LauncherApp

CONSTANTS h1, h2, ipA, ipB, g1, g2

MCHost   == {h1, h2}
MCUsable == {g1, g2}
MCIpOf   == [h \in MCHost |-> IF h = h1 THEN ipA ELSE ipB]
=============================================================================
