-------------------------- MODULE MCTaskQueueMutex --------------------------
EXTENDS MCTaskQueue, TaskQueueMutex
=============================================================================
