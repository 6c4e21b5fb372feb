--------------------------- MODULE MCPeerSyncGate ---------------------------
EXTENDS PeerSyncGate
=============================================================================
