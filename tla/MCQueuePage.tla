---------------------------- MODULE MCQueuePage ----------------------------
EXTENDS QueuePage, TLC

\* Every page has a thread for its list and one for every item stream it may have.
ASSUME Cardinality(Pages) * (1 + ItemStreams) <= Threads
=============================================================================
