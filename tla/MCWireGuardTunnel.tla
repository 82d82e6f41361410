------------------------- MODULE MCWireGuardTunnel -------------------------
EXTENDS WireGuardTunnel
=============================================================================
