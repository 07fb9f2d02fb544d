----------------------------- MODULE MCIpamPool -----------------------------
(* Four peers for three addresses (hosts 2 to 4): the pool runs dry, and the *)
(* free-list holds up to three addresses in every order.                     *)
EXTENDS IpamPool

CONSTANTS p1, p2, p3, p4

MCPeers == {p1, p2, p3, p4}

=============================================================================
