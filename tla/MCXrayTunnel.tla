---------------------------- MODULE MCXrayTunnel ----------------------------
EXTENDS XrayTunnel

MCUplinks == {"eth", "wlan"}
MCConfigs == {1, 2}
=============================================================================
