---------------------------- MODULE MCBridgeApp ----------------------------
(* BridgeApp for TLC: two hosts at two addresses. *)
EXTENDS BridgeApp

CONSTANTS h1, h2, ipA, ipB

MCHost == {h1, h2}
MCIpOf == [h \in MCHost |-> IF h = h1 THEN ipA ELSE ipB]
=============================================================================
