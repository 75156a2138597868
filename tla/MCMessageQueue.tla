--------------------------- MODULE MCMessageQueue ---------------------------
\* Instances of MessageQueue for TLC: the pointer queue between subscriber and
\* worker, and the statistics queue between worker and monitoring.
EXTENDS MessageQueue

CONSTANTS b1, b2

MCItems == {b1, b2}
=============================================================================
