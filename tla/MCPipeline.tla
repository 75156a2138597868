----------------------------- MODULE MCPipeline -----------------------------
\* An instance of Pipeline for TLC: two buffers, so that the pool runs out and the
\* queue of one place fills up.
EXTENDS Pipeline

CONSTANTS b1, b2

MCBuffers == {b1, b2}
=============================================================================
