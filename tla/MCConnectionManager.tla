------------------------ MODULE MCConnectionManager ------------------------
(* ConnectionManager for TLC: one address known under two ports or names,  *)
(* and a second address.                                                   *)
EXTENDS ConnectionManager

CONSTANTS h1, h2, h3, ipA, ipB

MCHost == {h1, h2, h3}
MCIpOf == [h \in MCHost |-> IF h = h3 THEN ipB ELSE ipA]
=============================================================================
