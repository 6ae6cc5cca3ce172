-------------------------- MODULE MCQueueHeartbeat --------------------------
\* The queue heartbeat on a small instance; the constants are in the cfg.
EXTENDS QueueHeartbeat
=============================================================================
