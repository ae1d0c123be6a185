-------------------------- MODULE MCWorkerProcess --------------------------
EXTENDS WorkerProcess
MCJobSets == {"few", "many"}
=============================================================================
