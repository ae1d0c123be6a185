------------------------ MODULE MCStatefulSetEvents ------------------------
EXTENDS StatefulSetEvents
MCKeys == {"worker"}
MCReplicas == 0 .. 2
=============================================================================
