---------------------------- MODULE MCQueueAdapters ----------------------------
(* Small instances of QueueAdapters for TLC.                                 *)
EXTENDS QueueAdapters

AllBackends == {"rabbitmq", "redis", "sqs"}

=============================================================================
