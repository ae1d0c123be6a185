---------------------------- MODULE MCPodEvents ----------------------------
EXTENDS PodEvents
MCOneKey == {"worker-0"}
=============================================================================
