-------------------------- MODULE MCOpenVpnTunnel --------------------------
EXTENDS OpenVpnTunnel
=============================================================================
